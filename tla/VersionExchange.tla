--------------------------- MODULE VersionExchange ---------------------------
(***************************************************************************)
(* Several backends that write one row, each in its own store, and send    *)
(* each other the versions: the clocks of lamport_service.go and           *)
(* vector_service.go and the order of Versions at work.  Events arrive in  *)
(* any order, and again.                                                   *)
(*                                                                         *)
(* The two clocks have a lock each, so that a writer's two ticks are two   *)
(* steps, and so are the two merges of an event; the writer's row is       *)
(* locked from its first tick on.  That a store may read its row well      *)
(* before it saves it is left to Replication.                              *)
(***************************************************************************)
EXTENDS Versions

CONSTANT MaxLamport   \* bound: no clock ticks from there on

VARIABLES
  lamport,   \* GlobalLamportClock of each backend
  vector,    \* GlobalVectorClock of each backend
  kept,       \* the version of the row in each store
  ticked,    \* the Lamport value of the write a backend is at, 0 if none
  made,      \* the versions written so far
  heard,     \* the versions whose Lamport clock each backend has merged
  merged,    \* the versions whose vector it has merged as well
  applied    \* the versions each store has kept or turned down

exchangeVars == <<lamport, vector, kept, ticked, made, heard, merged, applied>>

ExchangeInit ==
  /\ lamport = [n \in Nodes |-> 0]
  /\ vector = [n \in Nodes |-> [m \in Nodes |-> 0]]
  /\ kept = [n \in Nodes |-> Absent]
  /\ ticked = [n \in Nodes |-> 0]
  /\ made = {}
  /\ heard = [n \in Nodes |-> {}]
  /\ merged = [n \in Nodes |-> {}]
  /\ applied = [n \in Nodes |-> {}]

(* GlobalLamportClock.Tick() *)
Tick(n) ==
  /\ ticked[n] = 0
  /\ lamport[n] < MaxLamport
  /\ lamport' = [lamport EXCEPT ![n] = @ + 1]
  /\ ticked' = [ticked EXCEPT ![n] = lamport[n] + 1]
  /\ UNCHANGED <<vector, kept, made, heard, merged, applied>>

(* TickVectorClock(), and the handler's save of the row. *)
TickVectorClock(n) ==
  LET tick == [vector[n] EXCEPT ![n] = @ + 1]
      v    == [vector |-> tick, lamport |-> ticked[n], node |-> n]
  IN  /\ ticked[n] # 0
      /\ vector' = [vector EXCEPT ![n] = tick]
      /\ kept' = [kept EXCEPT ![n] = v]
      /\ ticked' = [ticked EXCEPT ![n] = 0]
      /\ made' = made \union {v}
      /\ heard' = [heard EXCEPT ![n] = @ \union {v}]
      /\ merged' = [merged EXCEPT ![n] = @ \union {v}]
      /\ applied' = [applied EXCEPT ![n] = @ \union {v}]
      /\ UNCHANGED lamport

Greater(a, b) == IF a > b THEN a ELSE b

Merged_lesser(mine, incoming) ==
  [m \in Nodes |-> IF mine[m] > incoming[m] THEN incoming[m] ELSE mine[m]]

(* UpdateVectorClock: the greater entry of each node. *)
Merged(mine, incoming) == [m \in Nodes |-> Greater(mine[m], incoming[m])]

(* The start of syncToPostgres and syncToMongo, whether or not the row is  *)
(* locked: UpdateClock ...                                                 *)
UpdateClock(n, v) ==
  /\ v \in made
  /\ lamport[n] < MaxLamport
  /\ lamport' = [lamport EXCEPT ![n] = Greater(@, v.lamport) + 1]
  /\ heard' = [heard EXCEPT ![n] = @ \union {v}]
  /\ UNCHANGED <<vector, kept, ticked, made, merged, applied>>

(* ... and then UpdateVectorClock.                                         *)
UpdateVectorClock(n, v) ==
  /\ v \in heard[n]
  /\ vector' = [vector EXCEPT ![n] = Merged(@, v.vector)]
  /\ merged' = [merged EXCEPT ![n] = @ \union {v}]
  /\ UNCHANGED <<lamport, kept, ticked, made, heard, applied>>

(* Their end: the row is replaced if the version is to be applied. *)
Apply(n, v) ==
  /\ v \in merged[n]
  /\ ticked[n] = 0
  /\ kept' = [kept EXCEPT ![n] = IF ShouldApplyVersion(v, @) THEN v ELSE @]
  /\ applied' = [applied EXCEPT ![n] = @ \union {v}]
  /\ UNCHANGED <<lamport, vector, ticked, made, heard, merged>>

ExchangeNext ==
  \E n \in Nodes :
    \/ Tick(n)
    \/ TickVectorClock(n)
    \/ \E v \in made : UpdateClock(n, v) \/ UpdateVectorClock(n, v) \/ Apply(n, v)

ExchangeSpec == ExchangeInit /\ [][ExchangeNext]_exchangeVars
-----------------------------------------------------------------------------
(* A store's row is only ever replaced by a version that supersedes it,    *)
(* also when a handler saves without looking: the clocks it ticks have     *)
(* merged whatever the row carries (UpdateVectorClock before the save).    *)
SavesSupersede ==
  [][\A n \in Nodes : kept'[n] # kept[n] => ShouldApplyVersion(kept'[n], kept[n])]_exchangeVars

(* Stores that have seen the same versions have the same row, in whatever  *)
(* order they came and however often ("a deterministic Lamport/node        *)
(* ordering").                                                             *)
StoresAgree ==
  \A n, m \in Nodes : applied[n] = applied[m] => kept[n] = kept[m]
=============================================================================
