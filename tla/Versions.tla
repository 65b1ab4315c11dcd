------------------------------ MODULE Versions ------------------------------
(***************************************************************************)
(* The order in which a replica accepts the versions of one row:           *)
(* IsVectorDominant and ShouldApplyVersion of vector_service.go.           *)
(*                                                                         *)
(* A version carries a vector clock, a Lamport clock and the node that     *)
(* wrote it.  The JSON text of a vector is abstracted to the function it   *)
(* stands for, with 0 for the nodes it does not mention, as Go's map does; *)
(* the texts are all written by json.Marshal, so that none is malformed.   *)
(* A node is its place in the order of the names, and 0 is the empty name. *)
(*                                                                         *)
(* A definition whose name has a suffix (ShouldApplyVersion_anyNode) is a  *)
(* plausible mistake in the one it precedes; no other definition uses it.  *)
(***************************************************************************)
EXTENDS Integers

CONSTANT Nodes   \* the values NODE_ID has in the backends

ASSUME NodesAssumption == Nodes # {} /\ Nodes \subseteq Nat \ {0}

NoVector == [n \in {} |-> 0]   \* the empty string
NoNode   == 0

Vectors  == [Nodes -> Nat]
Versions == [vector : Vectors, lamport : Nat, node : Nodes]

(* What syncToPostgres and syncToMongo take for a row that is not there. *)
Absent == [vector |-> NoVector, lamport |-> -1, node |-> NoNode]

(* a is strictly newer than b. *)
IsVectorDominant(a, b) ==
  /\ a # NoVector
  /\ b = NoVector \/ (/\ \A n \in Nodes : a[n] >= b[n]
                      /\ \E n \in Nodes : a[n] > b[n])

ShouldApplyVersion_anyNode(x, y) ==
  LET comparable == x.vector # NoVector /\ y.vector # NoVector
  IN  \/ comparable /\ IsVectorDominant(x.vector, y.vector)
      \/ /\ ~(comparable /\ IsVectorDominant(x.vector, y.vector))
         /\ ~(comparable /\ IsVectorDominant(y.vector, x.vector))
         /\ x.lamport >= y.lamport

(* The replica that has y replaces it by x: by causality where it decides, *)
(* by the Lamport clock and the name of the node where it does not.        *)
ShouldApplyVersion(x, y) ==
  LET comparable == x.vector # NoVector /\ y.vector # NoVector
  IN  \/ comparable /\ IsVectorDominant(x.vector, y.vector)
      \/ /\ ~(comparable /\ IsVectorDominant(x.vector, y.vector))
         /\ ~(comparable /\ IsVectorDominant(y.vector, x.vector))
         /\ \/ x.lamport > y.lamport
            \/ x.lamport = y.lamport /\ x.node > y.node
-----------------------------------------------------------------------------
(* The two orders agree on x and y: what is causally later has the greater *)
(* Lamport clock.  It holds of the versions one backend writes to a row.   *)
(* Of the versions of several it need not: a writer's two ticks are two    *)
(* steps, and a merge that comes between them makes its vector later than  *)
(* a version with a greater Lamport clock.                                 *)
LamportAgrees(x, y) ==
  /\ IsVectorDominant(x.vector, y.vector) => x.lamport > y.lamport
  /\ IsVectorDominant(y.vector, x.vector) => y.lamport > x.lamport

(* Two replicas that hold x and y and send them to each other never swap   *)
(* them: of two versions, each replaces the other in at most one direction.*)
NeverSwapped(x, y) == ~(ShouldApplyVersion(x, y) /\ ShouldApplyVersion(y, x))

(* Two replicas agree on which of two versions stays, unless the two were  *)
(* written by one node under one Lamport value.                            *)
OneStays(x, y) ==
  <<x.lamport, x.node>> # <<y.lamport, y.node>> =>
    ShouldApplyVersion(x, y) \/ ShouldApplyVersion(y, x)

(* A later version is never kept out by an earlier one (vector_service.go, *)
(* "ShouldApplyVersion preserves causal order").                           *)
CausalOrderPreserved(x, y) ==
  IsVectorDominant(x.vector, y.vector) =>
    ShouldApplyVersion(x, y) /\ ~ShouldApplyVersion(y, x)
=============================================================================
