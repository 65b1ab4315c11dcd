---------------------------- MODULE MCReplication ----------------------------
(***************************************************************************)
(* Instances of Replication for TLC: rows that the American server owns.   *)
(***************************************************************************)
EXTENDS Replication, TLC

Symmetry == Permutations(Handlers)

AmericanOwner == [k \in Keys |-> "AM"]
=============================================================================
