------------------------ MODULE MCReplicationPanels ------------------------
(***************************************************************************)
(* What must become equal at last, as one instance for TLC: the stores of  *)
(* the replication, and the panels of the web client that read the server  *)
(* again and again.  A behaviour is one of either part; the other one      *)
(* rests in its initial state.                                             *)
(***************************************************************************)
EXTENDS Replication, PolledPanels

VARIABLE part   \* the part a behaviour is of

AmericanOwner == [k \in Keys |-> "AM"]

bothVars == <<part, vars, panelVars>>

BothInit == part \in {"replication", "panels"} /\ Init /\ PanelInit

BothNext ==
  /\ UNCHANGED part
  /\ \/ part = "replication" /\ Next /\ UNCHANGED panelVars
     \/ part = "panels" /\ PanelNext /\ UNCHANGED vars

BothSpec == BothInit /\ [][BothNext]_bothVars /\ Fairness /\ PanelFairness

(* The types of both parts. *)
TypesOK == TypeOK /\ PanelTypeOK
=============================================================================
