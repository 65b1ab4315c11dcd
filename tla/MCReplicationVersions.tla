------------------------ MODULE MCReplicationVersions ------------------------
(***************************************************************************)
(* The replication of one backend, and the exchange of versions between    *)
(* several ones, as one instance for TLC.  A behaviour is one of either    *)
(* part; the other one rests in its initial state.                         *)
(***************************************************************************)
EXTENDS Replication, VersionExchange, TLC

VARIABLE part   \* the part a behaviour is of

Symmetry      == Permutations(Handlers)
AmericanOwner == [k \in Keys |-> "AM"]
TwoNodes      == {1, 2}

bothVars == <<part, vars, exchangeVars>>

BothInit == part \in {"replication", "exchange"} /\ Init /\ ExchangeInit

BothNext ==
  /\ UNCHANGED part
  /\ \/ part = "replication" /\ Next /\ UNCHANGED exchangeVars
     \/ part = "exchange" /\ ExchangeNext /\ UNCHANGED vars

BothSpec == BothInit /\ [][BothNext]_bothVars
=============================================================================
