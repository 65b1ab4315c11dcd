--------------------------- MODULE VersionsProofs ---------------------------
(***************************************************************************)
(* The laws of the version order that replication relies on, and what they *)
(* make of the stores that exchange versions, for every set of nodes.      *)
(***************************************************************************)
EXTENDS VersionExchange, TLAPS

LEMMA VectorsAreVectors ==
  ASSUME NEW a \in Vectors
  PROVE  a # NoVector
BY NodesAssumption DEF Vectors, NoVector

(* Causal precedence is a strict order on the vectors of any nodes.        *)
THEOREM DominanceIsStrict ==
  ASSUME NEW a \in Vectors, NEW b \in Vectors, NEW c \in Vectors
  PROVE  /\ ~IsVectorDominant(a, a)
         /\ IsVectorDominant(a, b) => ~IsVectorDominant(b, a)
         /\ IsVectorDominant(a, b) /\ IsVectorDominant(b, c) => IsVectorDominant(a, c)
BY VectorsAreVectors, NodesAssumption DEF Vectors, IsVectorDominant

(* Two versions never replace each other, so that no pair of replicas      *)
(* exchanges them for ever.                                                *)
THEOREM VersionsNeverSwap ==
  ASSUME NEW x \in Versions, NEW y \in Versions
  PROVE  NeverSwapped(x, y)
<1>1. x.vector \in Vectors /\ y.vector \in Vectors /\ x.lamport \in Nat /\ y.lamport \in Nat
      /\ x.node \in Nat /\ y.node \in Nat
  BY NodesAssumption DEF Versions
<1>2. ~(IsVectorDominant(x.vector, y.vector) /\ IsVectorDominant(y.vector, x.vector))
  BY <1>1, DominanceIsStrict
<1> QED BY <1>1, <1>2 DEF NeverSwapped, ShouldApplyVersion

(* A causally later version replaces an earlier one and is never replaced  *)
(* by it, whatever the Lamport clocks and the nodes say.                   *)
THEOREM CausalOrderIsPreserved ==
  ASSUME NEW x \in Versions, NEW y \in Versions
  PROVE  CausalOrderPreserved(x, y)
<1>1. x.vector \in Vectors /\ y.vector \in Vectors
  BY DEF Versions
<1>2. x.vector # NoVector /\ y.vector # NoVector
  BY <1>1, VectorsAreVectors
<1>3. IsVectorDominant(x.vector, y.vector) => ~IsVectorDominant(y.vector, x.vector)
  BY <1>1, DominanceIsStrict
<1> QED BY <1>2, <1>3 DEF CausalOrderPreserved, ShouldApplyVersion

(* Where the Lamport clocks agree with causality, acceptance is transitive:*)
(* the version that stays does not depend on the order of delivery.        *)
THEOREM AcceptanceIsTransitive ==
  ASSUME NEW x \in Versions, NEW y \in Versions, NEW z \in Versions,
         LamportAgrees(x, y), LamportAgrees(y, z), LamportAgrees(x, z),
         ShouldApplyVersion(x, y), ShouldApplyVersion(y, z)
  PROVE  ShouldApplyVersion(x, z)
<1>1. /\ x.vector # NoVector /\ y.vector # NoVector /\ z.vector # NoVector
      /\ x.lamport \in Nat /\ y.lamport \in Nat /\ z.lamport \in Nat
      /\ x.node \in Nat /\ y.node \in Nat /\ z.node \in Nat
  BY VectorsAreVectors, NodesAssumption DEF Versions
<1>2. x.lamport > y.lamport \/ (x.lamport = y.lamport /\ x.node > y.node)
  BY <1>1 DEF ShouldApplyVersion, LamportAgrees
<1>3. y.lamport > z.lamport \/ (y.lamport = z.lamport /\ y.node > z.node)
  BY <1>1 DEF ShouldApplyVersion, LamportAgrees
<1>4. x.lamport > z.lamport \/ (x.lamport = z.lamport /\ x.node > z.node)
  BY <1>1, <1>2, <1>3
<1> QED BY <1>1, <1>4 DEF ShouldApplyVersion, LamportAgrees

(* With the one backend of the deployment, the vector is a counter, and    *)
(* acceptance compares counters: what Replication uses as its order.       *)
THEOREM OneNodeComparesCounters ==
  ASSUME NEW n, Nodes = {n}, NEW x \in Versions, NEW y \in Versions,
         x.vector[n] # y.vector[n]
  PROVE  ShouldApplyVersion(x, y) <=> x.vector[n] > y.vector[n]
<1>1. x.vector \in Vectors /\ y.vector \in Vectors
  BY DEF Versions
<1>2. x.vector # NoVector /\ y.vector # NoVector
  BY <1>1, VectorsAreVectors
<1>3. x.vector[n] \in Nat /\ y.vector[n] \in Nat
  BY <1>1 DEF Vectors
<1>4. /\ IsVectorDominant(x.vector, y.vector) <=> x.vector[n] > y.vector[n]
      /\ IsVectorDominant(y.vector, x.vector) <=> y.vector[n] > x.vector[n]
  BY <1>2, <1>3 DEF IsVectorDominant
<1> QED BY <1>2, <1>3, <1>4 DEF ShouldApplyVersion

(* A row that is not there takes any version. *)
THEOREM AbsentRowTakesAnything ==
  ASSUME NEW x \in Versions
  PROVE  ShouldApplyVersion(x, Absent)
BY DEF Versions, Absent, ShouldApplyVersion
-----------------------------------------------------------------------------
(* Of two versions of one node the later one has both clocks greater.      *)
InOrder(x, y) == IsVectorDominant(x.vector, y.vector) /\ x.lamport > y.lamport

SameNodeInOrder(x, y) == x.node = y.node => x = y \/ InOrder(x, y) \/ InOrder(y, x)

LEMMA VersionType ==
  ASSUME NEW x \in Versions
  PROVE  /\ x.vector \in Vectors /\ x.vector # NoVector
         /\ x.lamport \in Nat /\ x.node \in Nodes /\ x.node \in Nat
BY VectorsAreVectors, NodesAssumption DEF Versions

(* Of two versions of a row one stays, since those of one node differ in   *)
(* both clocks.                                                            *)
LEMMA AcceptanceIsTotal ==
  ASSUME NEW x \in Versions, NEW y \in Versions, SameNodeInOrder(x, y)
  PROVE  x = y \/ ShouldApplyVersion(x, y) \/ ShouldApplyVersion(y, x)
<1>1. CASE x.node = y.node
  BY <1>1, CausalOrderIsPreserved DEF SameNodeInOrder, InOrder, CausalOrderPreserved
<1>2. CASE x.node # y.node
  <2>1. x.lamport \in Nat /\ y.lamport \in Nat /\ x.node \in Nat /\ y.node \in Nat
    BY VersionType
  <2>2. x.vector \in Vectors /\ y.vector \in Vectors /\ x.vector # NoVector /\ y.vector # NoVector
    BY VersionType
  <2> QED BY <1>2, <2>1, <2>2, DominanceIsStrict DEF ShouldApplyVersion
<1> QED BY <1>1, <1>2

(* Of the versions of two nodes, acceptance is transitive although the     *)
(* Lamport clocks may disagree with causality: two of any three versions   *)
(* are of one node.                                                        *)
LEMMA TwoNodesAreTransitive ==
  ASSUME NEW a, NEW b, Nodes = {a, b},
         NEW x \in Versions, NEW y \in Versions, NEW z \in Versions,
         SameNodeInOrder(x, y), SameNodeInOrder(y, z), SameNodeInOrder(x, z),
         ShouldApplyVersion(x, y), ShouldApplyVersion(y, z)
  PROVE  ShouldApplyVersion(x, z)
<1> DEFINE dom(p, q) == IsVectorDominant(p.vector, q.vector)
           lex(p, q) == p.lamport > q.lamport \/ (p.lamport = q.lamport /\ p.node > q.node)
<1>1. \A p, q \in Versions : dom(p, q) => ~dom(q, p)
  BY VersionType, DominanceIsStrict
<1>2. \A p, q, r \in Versions : dom(p, q) /\ dom(q, r) => dom(p, r)
  BY VersionType, DominanceIsStrict
<1>3. \A p, q \in Versions : ShouldApplyVersion(p, q) <=> dom(p, q) \/ (~dom(q, p) /\ lex(p, q))
  BY <1>1, VersionType DEF ShouldApplyVersion
<1>4. \A p, q \in Versions : SameNodeInOrder(p, q) /\ p.node = q.node =>
        p = q \/ (dom(p, q) /\ p.lamport > q.lamport) \/ (dom(q, p) /\ q.lamport > p.lamport)
  BY DEF SameNodeInOrder, InOrder
<1>5. \A p \in {x, y, z} : p.lamport \in Nat /\ p.node \in Nat
  BY VersionType
<1>6. ~ShouldApplyVersion(y, x) /\ ~ShouldApplyVersion(z, y)
  BY VersionsNeverSwap DEF NeverSwapped
<1>7. x.node \in {a, b} /\ y.node \in {a, b} /\ z.node \in {a, b}
  BY VersionType
<1> HIDE DEF dom
<1>8. CASE x.node = y.node
  <2>1. dom(x, y) /\ x.lamport > y.lamport
    BY <1>3, <1>4, <1>6, <1>8
  <2> QED BY <1>1, <1>2, <1>3, <1>5, <2>1
<1>9. CASE y.node = z.node
  <2>1. dom(y, z) /\ y.lamport > z.lamport
    BY <1>3, <1>4, <1>6, <1>9
  <2> QED BY <1>1, <1>2, <1>3, <1>5, <2>1
<1>10. CASE x.node = z.node
  <2>1. CASE x = z
    BY <1>6, <2>1
  <2>2. CASE dom(x, z)
    BY <1>3, <2>2
  <2>3. CASE dom(z, x) /\ z.lamport > x.lamport
    BY <1>1, <1>2, <1>3, <1>5, <2>3
  <2> QED BY <1>4, <1>10, <2>1, <2>2, <2>3
<1> QED BY <1>7, <1>8, <1>9, <1>10
-----------------------------------------------------------------------------
(* The types of the exchange. *)
ExchangeTypeOK ==
  /\ lamport \in [Nodes -> Nat]
  /\ vector \in [Nodes -> Vectors]
  /\ kept \in [Nodes -> Versions \union {Absent}]
  /\ ticked \in [Nodes -> Nat]
  /\ made \subseteq Versions
  /\ heard \in [Nodes -> SUBSET made]
  /\ merged \in [Nodes -> SUBSET made]
  /\ applied \in [Nodes -> SUBSET made]

(* What a backend's clocks say of the versions: its vector is past those   *)
(* it has merged, its own versions among them, and a tick it has not used  *)
(* is later than all its versions.                                         *)
ClocksInv ==
  /\ \A n \in Nodes : \A v \in merged[n] : \A m \in Nodes : v.vector[m] <= vector[n][m]
  /\ \A n \in Nodes : ticked[n] <= lamport[n]
  /\ \A v \in made : v \in merged[v.node] /\ v.lamport <= lamport[v.node]
  /\ \A v \in made : ticked[v.node] # 0 => v.lamport < ticked[v.node]
  /\ \A n \in Nodes : applied[n] \subseteq merged[n]
  /\ \A v, w \in made : SameNodeInOrder(v, w)

(* A store has the version that stays of all those it has seen. *)
KeptInv ==
  \A n \in Nodes :
    \/ applied[n] = {} /\ kept[n] = Absent
    \/ /\ kept[n] \in applied[n]
       /\ \A v \in applied[n] : v = kept[n] \/ ShouldApplyVersion(kept[n], v)

LEMMA InitExchange == ExchangeInit => ExchangeTypeOK /\ ClocksInv /\ KeptInv
<1> SUFFICES ASSUME ExchangeInit PROVE ExchangeTypeOK /\ ClocksInv /\ KeptInv
  OBVIOUS
<1>1. [m \in Nodes |-> 0] \in Vectors
  BY DEF Vectors
<1>2. ExchangeTypeOK
  BY <1>1 DEF ExchangeInit, ExchangeTypeOK
<1>3. \A n \in Nodes : merged[n] = {} /\ applied[n] = {} /\ ticked[n] = 0 /\ lamport[n] = 0
  BY DEF ExchangeInit
<1>4. made = {}
  BY DEF ExchangeInit
<1>5. ClocksInv
  BY <1>3, <1>4 DEF ClocksInv
<1>6. KeptInv
  BY <1>3 DEF ExchangeInit, KeptInv
<1> QED BY <1>2, <1>5, <1>6

(* The version a backend is about to write. *)
NewVersion(n) ==
  [vector |-> [vector[n] EXCEPT ![n] = @ + 1], lamport |-> ticked[n], node |-> n]

LEMMA NewVersionType ==
  ASSUME ExchangeTypeOK, NEW n \in Nodes
  PROVE  /\ NewVersion(n) \in Versions
         /\ NewVersion(n).vector[n] = vector[n][n] + 1
         /\ \A m \in Nodes : m # n => NewVersion(n).vector[m] = vector[n][m]
         /\ NewVersion(n).lamport = ticked[n] /\ NewVersion(n).node = n
BY DEF ExchangeTypeOK, Versions, Vectors, NewVersion

(* It is causally later than whatever the backend has merged. *)
LEMMA NewVersionIsLater ==
  ASSUME ExchangeTypeOK, ClocksInv, NEW n \in Nodes, NEW w \in merged[n]
  PROVE  IsVectorDominant(NewVersion(n).vector, w.vector)
<1> DEFINE v == NewVersion(n)
<1>1. w \in Versions /\ \A m \in Nodes : w.vector[m] \in Nat /\ vector[n][m] \in Nat
  BY DEF ExchangeTypeOK, Versions, Vectors
<1>2. \A m \in Nodes : w.vector[m] <= vector[n][m]
  BY DEF ClocksInv
<1>3. v \in Versions /\ v.vector # NoVector
  BY NewVersionType, VersionType
<1>4. v.vector[n] = vector[n][n] + 1 /\ \A m \in Nodes : m # n => v.vector[m] = vector[n][m]
  BY NewVersionType
<1> HIDE DEF v
<1>5. \A m \in Nodes : v.vector[m] >= w.vector[m]
  <2> SUFFICES ASSUME NEW m \in Nodes PROVE v.vector[m] >= w.vector[m]
    OBVIOUS
  <2>1. w.vector[m] \in Nat /\ vector[n][m] \in Nat /\ w.vector[m] <= vector[n][m]
    BY <1>1, <1>2
  <2>2. v.vector[m] = vector[n][m] \/ v.vector[m] = vector[n][m] + 1
    BY <1>4
  <2> QED BY <2>1, <2>2
<1>6. v.vector[n] > w.vector[n]
  BY <1>1, <1>2, <1>4
<1> QED BY <1>3, <1>5, <1>6 DEF IsVectorDominant, v

LEMMA MergedType ==
  ASSUME NEW x \in Vectors, NEW y \in Vectors
  PROVE  /\ Merged(x, y) \in Vectors
         /\ \A m \in Nodes : Merged(x, y)[m] >= x[m] /\ Merged(x, y)[m] >= y[m]
BY DEF Vectors, Merged, Greater

LEMMA TypesStep ==
  ASSUME ExchangeTypeOK, [ExchangeNext]_exchangeVars
  PROVE  ExchangeTypeOK'
<1>1. ASSUME NEW n \in Nodes, Tick(n) PROVE ExchangeTypeOK'
  BY <1>1 DEF Tick, ExchangeTypeOK
<1>2. ASSUME NEW n \in Nodes, TickVectorClock(n) PROVE ExchangeTypeOK'
  <2> DEFINE v == NewVersion(n)
  <2>1. v \in Versions
    BY NewVersionType
  <2>2. v.vector = [vector[n] EXCEPT ![n] = @ + 1] /\ v.vector \in Vectors
    BY <2>1 DEF NewVersion, Versions
  <2>3. /\ vector' = [vector EXCEPT ![n] = v.vector]
        /\ kept' = [kept EXCEPT ![n] = v]
        /\ ticked' = [ticked EXCEPT ![n] = 0]
        /\ made' = made \union {v}
        /\ heard' = [heard EXCEPT ![n] = @ \union {v}]
        /\ merged' = [merged EXCEPT ![n] = @ \union {v}]
        /\ applied' = [applied EXCEPT ![n] = @ \union {v}]
        /\ lamport' = lamport
    BY <1>2, <2>2 DEF TickVectorClock, NewVersion
  <2> HIDE DEF v
  <2> QED BY <2>1, <2>2, <2>3 DEF ExchangeTypeOK
<1>3. ASSUME NEW n \in Nodes, NEW v \in made, UpdateClock(n, v) PROVE ExchangeTypeOK'
  <2>1. v.lamport \in Nat /\ lamport[n] \in Nat
    BY DEF ExchangeTypeOK, Versions
  <2>2. Greater(lamport[n], v.lamport) + 1 \in Nat
    BY <2>1 DEF Greater
  <2> QED BY <1>3, <2>2 DEF UpdateClock, ExchangeTypeOK
<1>6. ASSUME NEW n \in Nodes, NEW v \in made, UpdateVectorClock(n, v) PROVE ExchangeTypeOK'
  <2>1. v.vector \in Vectors /\ vector[n] \in Vectors
    BY DEF ExchangeTypeOK, Versions
  <2>2. Merged(vector[n], v.vector) \in Vectors
    BY <2>1, MergedType
  <2> QED BY <1>6, <2>2 DEF UpdateVectorClock, ExchangeTypeOK
<1>4. ASSUME NEW n \in Nodes, NEW v \in made, Apply(n, v) PROVE ExchangeTypeOK'
  BY <1>4 DEF Apply, ExchangeTypeOK
<1>5. ASSUME UNCHANGED exchangeVars PROVE ExchangeTypeOK'
  BY <1>5 DEF exchangeVars, ExchangeTypeOK
<1> QED BY <1>1, <1>2, <1>3, <1>4, <1>5, <1>6 DEF ExchangeNext

(* What TickVectorClock does, in terms of the version it writes. *)
LEMMA TickVectorClockWrites ==
  ASSUME NEW n \in Nodes, TickVectorClock(n)
  PROVE  /\ ticked[n] # 0
         /\ vector' = [vector EXCEPT ![n] = NewVersion(n).vector]
         /\ kept' = [kept EXCEPT ![n] = NewVersion(n)]
         /\ ticked' = [ticked EXCEPT ![n] = 0]
         /\ made' = made \union {NewVersion(n)}
         /\ merged' = [merged EXCEPT ![n] = @ \union {NewVersion(n)}]
         /\ applied' = [applied EXCEPT ![n] = @ \union {NewVersion(n)}]
         /\ lamport' = lamport
BY DEF TickVectorClock, NewVersion

LEMMA ClocksTick ==
  ASSUME ExchangeTypeOK, ClocksInv, NEW n \in Nodes, Tick(n)
  PROVE  ClocksInv'
<1>1. /\ lamport' = [lamport EXCEPT ![n] = @ + 1] /\ ticked' = [ticked EXCEPT ![n] = lamport[n] + 1]
      /\ UNCHANGED <<vector, kept, made, merged, applied>>
  BY DEF Tick
<1>2. \A m \in Nodes : lamport[m] \in Nat /\ ticked[m] \in Nat
  BY DEF ExchangeTypeOK
<1>3. \A v \in made : v.node \in Nodes /\ v.lamport \in Nat
  BY VersionType DEF ExchangeTypeOK
<1>4. \A m \in Nodes : lamport'[m] = (IF m = n THEN lamport[n] + 1 ELSE lamport[m])
                     /\ ticked'[m] = (IF m = n THEN lamport[n] + 1 ELSE ticked[m])
  BY <1>1 DEF ExchangeTypeOK
<1>5. \A v, w \in made' : SameNodeInOrder(v, w)
  BY <1>1 DEF ClocksInv
<1>6. \A m \in Nodes : ticked'[m] <= lamport'[m]
  BY <1>2, <1>4 DEF ClocksInv
<1>7. \A v \in made' : v \in merged'[v.node] /\ v.lamport <= lamport'[v.node]
  BY <1>1, <1>2, <1>3, <1>4 DEF ClocksInv
<1>8. \A v \in made' : ticked'[v.node] # 0 => v.lamport < ticked'[v.node]
  BY <1>1, <1>2, <1>3, <1>4 DEF ClocksInv
<1> QED BY <1>1, <1>5, <1>6, <1>7, <1>8 DEF ClocksInv

LEMMA ClocksTickVector ==
  ASSUME ExchangeTypeOK, ClocksInv, NEW n \in Nodes, TickVectorClock(n)
  PROVE  ClocksInv'
<1> DEFINE x == NewVersion(n)
<1>1. /\ x \in Versions /\ x.vector[n] = vector[n][n] + 1 /\ x.lamport = ticked[n] /\ x.node = n
      /\ \A m \in Nodes : m # n => x.vector[m] = vector[n][m]
  BY NewVersionType
<1>2. /\ ticked[n] # 0
      /\ vector' = [vector EXCEPT ![n] = x.vector]
      /\ ticked' = [ticked EXCEPT ![n] = 0]
      /\ made' = made \union {x}
      /\ merged' = [merged EXCEPT ![n] = @ \union {x}]
      /\ applied' = [applied EXCEPT ![n] = @ \union {x}]
      /\ lamport' = lamport
  BY TickVectorClockWrites
<1>3. \A w \in merged[n] : IsVectorDominant(x.vector, w.vector)
  BY NewVersionIsLater
<1> HIDE DEF x
<1>4. \A m \in Nodes : lamport[m] \in Nat /\ ticked[m] \in Nat /\ vector[m] \in Vectors /\ merged[m] \subseteq made
  BY DEF ExchangeTypeOK
<1>5. \A v \in made : v \in Versions /\ v.node \in Nodes /\ v.lamport \in Nat /\ v.vector \in Vectors
  BY VersionType DEF ExchangeTypeOK
<1>6. x.vector \in Vectors /\ \A m \in Nodes : x.vector[m] \in Nat /\ vector[n][m] \in Nat
  BY <1>1, <1>4, VersionType DEF Vectors
<1>7. \A m \in Nodes : /\ vector'[m] = (IF m = n THEN x.vector ELSE vector[m])
                      /\ merged'[m] = (IF m = n THEN merged[n] \union {x} ELSE merged[m])
                      /\ applied'[m] = (IF m = n THEN applied[n] \union {x} ELSE applied[m])
                      /\ ticked'[m] = (IF m = n THEN 0 ELSE ticked[m])
  BY <1>2 DEF ExchangeTypeOK
<1>8. \A k \in Nodes : \A v \in merged'[k] : \A m \in Nodes : v.vector[m] <= vector'[k][m]
  <2> SUFFICES ASSUME NEW k \in Nodes, NEW v \in merged'[k], NEW m \in Nodes
               PROVE  v.vector[m] <= vector'[k][m]
    OBVIOUS
  <2>1. CASE k # n
    BY <1>7, <2>1 DEF ClocksInv
  <2>2. CASE k = n /\ v = x
    BY <1>6, <1>7, <2>2
  <2>3. CASE k = n /\ v \in merged[n]
    <3>1. v.vector[m] <= vector[n][m] /\ v.vector[m] \in Nat
      BY <1>4, <1>5, <2>3 DEF ClocksInv, Vectors
    <3>2. vector[n][m] <= x.vector[m]
      BY <1>1, <1>6
    <3> QED BY <1>6, <1>7, <2>3, <3>1, <3>2
  <2> QED BY <1>7, <2>1, <2>2, <2>3
<1>9. \A m \in Nodes : ticked'[m] <= lamport'[m]
  BY <1>2, <1>4, <1>7 DEF ClocksInv
<1>10. \A v \in made' : v \in merged'[v.node] /\ v.lamport <= lamport'[v.node]
  BY <1>1, <1>2, <1>5, <1>7 DEF ClocksInv
<1>11. \A v \in made' : ticked'[v.node] # 0 => v.lamport < ticked'[v.node]
  BY <1>1, <1>2, <1>5, <1>7 DEF ClocksInv
<1>12. \A m \in Nodes : applied'[m] \subseteq merged'[m]
  BY <1>7 DEF ClocksInv
<1>13. \A v, w \in made' : SameNodeInOrder(v, w)
  <2>1. \A w \in made : w.node = n => InOrder(x, w)
    <3> SUFFICES ASSUME NEW w \in made, w.node = n PROVE InOrder(x, w)
      OBVIOUS
    <3>1. w \in merged[n] /\ w.lamport < ticked[n]
      BY <1>2 DEF ClocksInv
    <3> QED BY <1>1, <1>3, <1>4, <1>5, <3>1 DEF InOrder
  <2> QED BY <1>1, <1>2, <2>1 DEF ClocksInv, SameNodeInOrder
<1> QED BY <1>8, <1>9, <1>10, <1>11, <1>12, <1>13 DEF ClocksInv

LEMMA ClocksUpdate ==
  ASSUME ExchangeTypeOK, ClocksInv, NEW n \in Nodes, NEW x \in made, UpdateClock(n, x)
  PROVE  ClocksInv'
<1>1. /\ lamport' = [lamport EXCEPT ![n] = Greater(@, x.lamport) + 1]
      /\ UNCHANGED <<vector, kept, ticked, made, merged, applied>>
  BY DEF UpdateClock
<1>2. \A m \in Nodes : lamport[m] \in Nat /\ ticked[m] \in Nat
  BY DEF ExchangeTypeOK
<1>3. \A v \in made : v.node \in Nodes /\ v.lamport \in Nat
  BY VersionType DEF ExchangeTypeOK
<1>4. \A m \in Nodes :
        lamport'[m] = (IF m = n THEN Greater(lamport[n], x.lamport) + 1 ELSE lamport[m])
  BY <1>1 DEF ExchangeTypeOK
<1>5. \A m \in Nodes : lamport'[m] \in Nat /\ lamport'[m] >= lamport[m]
  BY <1>2, <1>3, <1>4 DEF Greater
<1>6. \A m \in Nodes : ticked'[m] <= lamport'[m]
  BY <1>1, <1>2, <1>5 DEF ClocksInv
<1>7. \A v \in made' : v \in merged'[v.node] /\ v.lamport <= lamport'[v.node]
  BY <1>1, <1>2, <1>3, <1>5 DEF ClocksInv
<1> QED BY <1>1, <1>6, <1>7 DEF ClocksInv

LEMMA ClocksUpdateVector ==
  ASSUME ExchangeTypeOK, ClocksInv, NEW n \in Nodes, NEW x \in made, UpdateVectorClock(n, x)
  PROVE  ClocksInv'
<1>1. /\ vector' = [vector EXCEPT ![n] = Merged(@, x.vector)]
      /\ merged' = [merged EXCEPT ![n] = @ \union {x}]
      /\ UNCHANGED <<lamport, kept, ticked, made, applied>>
  BY DEF UpdateVectorClock
<1>2. \A m \in Nodes : vector[m] \in Vectors /\ merged[m] \subseteq made
  BY DEF ExchangeTypeOK
<1>3. \A v \in made : v \in Versions /\ v.node \in Nodes /\ v.vector \in Vectors
  BY VersionType DEF ExchangeTypeOK
<1>4. \A m \in Nodes : /\ vector'[m] = (IF m = n THEN Merged(vector[n], x.vector) ELSE vector[m])
                      /\ merged'[m] = (IF m = n THEN merged[n] \union {x} ELSE merged[m])
  BY <1>1 DEF ExchangeTypeOK
<1>5. \A k \in Nodes : \A v \in merged'[k] : \A m \in Nodes : v.vector[m] <= vector'[k][m]
  <2> SUFFICES ASSUME NEW k \in Nodes, NEW v \in merged'[k], NEW m \in Nodes
               PROVE  v.vector[m] <= vector'[k][m]
    OBVIOUS
  <2>1. CASE k # n
    BY <1>4, <2>1 DEF ClocksInv
  <2>2. CASE k = n
    <3> DEFINE y == Merged(vector[n], x.vector)
    <3>1. vector'[k] = y /\ y \in Vectors /\ y[m] >= vector[n][m] /\ y[m] >= x.vector[m]
      BY <1>2, <1>3, <1>4, <2>2, MergedType
    <3> HIDE DEF y
    <3>2. y[m] \in Nat /\ vector[n][m] \in Nat
      BY <1>2, <3>1 DEF Vectors
    <3>3. v = x \/ v \in merged[n]
      BY <1>4, <2>2
    <3>4. v \in made /\ v.vector[m] \in Nat
      BY <1>2, <1>3, <3>3 DEF Vectors
    <3>5. v \in merged[n] => v.vector[m] <= vector[n][m]
      BY DEF ClocksInv
    <3> QED BY <3>1, <3>2, <3>3, <3>4, <3>5
  <2> QED BY <2>1, <2>2
<1>6. \A v \in made' : v \in merged'[v.node]
  BY <1>1, <1>3, <1>4 DEF ClocksInv
<1>7. \A m \in Nodes : applied'[m] \subseteq merged'[m]
  BY <1>1, <1>4 DEF ClocksInv
<1> QED BY <1>1, <1>5, <1>6, <1>7 DEF ClocksInv

LEMMA ClocksStep ==
  ASSUME ExchangeTypeOK, ClocksInv, [ExchangeNext]_exchangeVars
  PROVE  ClocksInv'
<1>1. ASSUME NEW n \in Nodes, NEW v \in made, Apply(n, v) PROVE ClocksInv'
  <2>1. \A m \in Nodes : applied'[m] \subseteq merged[m]
    BY <1>1 DEF Apply, ExchangeTypeOK, ClocksInv
  <2> QED BY <1>1, <2>1 DEF Apply, ClocksInv
<1>2. ASSUME UNCHANGED exchangeVars PROVE ClocksInv'
  BY <1>2 DEF exchangeVars, ClocksInv
<1> QED BY <1>1, <1>2, ClocksTick, ClocksTickVector, ClocksUpdate, ClocksUpdateVector
        DEF ExchangeNext
-----------------------------------------------------------------------------
(* What a save writes is accepted over whatever the store has seen. *)
LEMMA NewVersionSupersedes ==
  ASSUME ExchangeTypeOK, ClocksInv, NEW n \in Nodes, NEW w \in applied[n]
  PROVE  ShouldApplyVersion(NewVersion(n), w)
<1>1. w \in merged[n] /\ w \in Versions
  BY DEF ExchangeTypeOK, ClocksInv
<1>2. NewVersion(n) \in Versions
  BY NewVersionType
<1>3. IsVectorDominant(NewVersion(n).vector, w.vector)
  BY <1>1, NewVersionIsLater
<1> QED BY <1>1, <1>2, <1>3, CausalOrderIsPreserved DEF CausalOrderPreserved

(* A store's row is nothing, or a version it has seen. *)
KeptSeen == \A n \in Nodes : kept[n] = Absent \/ kept[n] \in applied[n]

LEMMA KeptSeenStep ==
  ASSUME ExchangeTypeOK, KeptSeen, [ExchangeNext]_exchangeVars
  PROVE  KeptSeen'
<1>1. ASSUME NEW n \in Nodes, Tick(n) PROVE KeptSeen'
  BY <1>1 DEF Tick, KeptSeen
<1>2. ASSUME NEW n \in Nodes, TickVectorClock(n) PROVE KeptSeen'
  BY <1>2, TickVectorClockWrites DEF ExchangeTypeOK, KeptSeen
<1>3. ASSUME NEW n \in Nodes, NEW v \in made, UpdateClock(n, v) \/ UpdateVectorClock(n, v)
      PROVE  KeptSeen'
  BY <1>3 DEF UpdateClock, UpdateVectorClock, KeptSeen
<1>4. ASSUME NEW n \in Nodes, NEW v \in made, Apply(n, v) PROVE KeptSeen'
  BY <1>4 DEF Apply, ExchangeTypeOK, KeptSeen
<1>5. ASSUME UNCHANGED exchangeVars PROVE KeptSeen'
  BY <1>5 DEF exchangeVars, KeptSeen
<1> QED BY <1>1, <1>2, <1>3, <1>4, <1>5 DEF ExchangeNext

LEMMA SavesSupersedeStep ==
  ASSUME ExchangeTypeOK, ClocksInv, KeptSeen, ExchangeNext, NEW m \in Nodes, kept'[m] # kept[m]
  PROVE  ShouldApplyVersion(kept'[m], kept[m])
<1>1. ASSUME NEW n \in Nodes, TickVectorClock(n) PROVE ShouldApplyVersion(kept'[m], kept[m])
  <2>1. m = n /\ kept'[m] = NewVersion(n)
    BY <1>1, TickVectorClockWrites DEF ExchangeTypeOK
  <2>2. NewVersion(n) \in Versions
    BY NewVersionType
  <2> QED BY <2>1, <2>2, AbsentRowTakesAnything, NewVersionSupersedes DEF KeptSeen
<1>2. ASSUME NEW n \in Nodes, NEW v \in made, Apply(n, v)
      PROVE  ShouldApplyVersion(kept'[m], kept[m])
  BY <1>2 DEF Apply, ExchangeTypeOK
<1>3. \A n \in Nodes : /\ ~Tick(n)
                      /\ \A v \in made : ~UpdateClock(n, v) /\ ~UpdateVectorClock(n, v)
  BY DEF Tick, UpdateClock, UpdateVectorClock
<1> QED BY <1>1, <1>2, <1>3 DEF ExchangeNext

(* A backend that saves its row without looking at what it replaces writes *)
(* a version that supersedes it, whatever the number of backends, although *)
(* a merge may come between its two ticks.                                 *)
THEOREM SavesAlwaysSupersede == ExchangeSpec => SavesSupersede
<1>1. ExchangeInit => ExchangeTypeOK /\ ClocksInv /\ KeptSeen
  BY InitExchange DEF ExchangeInit, KeptSeen
<1>2. ExchangeTypeOK /\ ClocksInv /\ KeptSeen /\ [ExchangeNext]_exchangeVars
        => (ExchangeTypeOK /\ ClocksInv /\ KeptSeen)'
  BY TypesStep, ClocksStep, KeptSeenStep
<1>3. ExchangeTypeOK /\ ClocksInv /\ KeptSeen /\ [ExchangeNext]_exchangeVars
        => [\A n \in Nodes : kept'[n] # kept[n] => ShouldApplyVersion(kept'[n], kept[n])]_exchangeVars
  BY SavesSupersedeStep
<1> QED BY <1>1, <1>2, <1>3, PTL DEF ExchangeSpec, SavesSupersede
-----------------------------------------------------------------------------
LEMMA KeptApply ==
  ASSUME NEW a, NEW b, Nodes = {a, b}, ExchangeTypeOK, ClocksInv, KeptInv,
         NEW n \in Nodes, NEW v \in made, Apply(n, v)
  PROVE  KeptInv'
<1>1. /\ kept' = [kept EXCEPT ![n] = IF ShouldApplyVersion(v, @) THEN v ELSE @]
      /\ applied' = [applied EXCEPT ![n] = @ \union {v}]
  BY DEF Apply
<1>2. applied'[n] = applied[n] \union {v}
      /\ kept'[n] = IF ShouldApplyVersion(v, kept[n]) THEN v ELSE kept[n]
  BY <1>1 DEF ExchangeTypeOK
<1>3. \A m \in Nodes : m # n => applied'[m] = applied[m] /\ kept'[m] = kept[m]
  BY <1>1 DEF ExchangeTypeOK
<1>4. v \in Versions /\ \A w \in applied[n] : w \in Versions /\ w \in made
  BY DEF ExchangeTypeOK
<1>5. kept'[n] \in applied'[n] /\ \A w \in applied'[n] : w = kept'[n] \/ ShouldApplyVersion(kept'[n], w)
  <2>1. CASE kept[n] = Absent /\ applied[n] = {}
    BY <1>2, <1>4, <2>1, AbsentRowTakesAnything
  <2>2. CASE /\ kept[n] \in applied[n]
             /\ \A w \in applied[n] : w = kept[n] \/ ShouldApplyVersion(kept[n], w)
    <3>1. CASE ShouldApplyVersion(v, kept[n])
      <4> SUFFICES ASSUME NEW w \in applied[n], w # kept[n] PROVE ShouldApplyVersion(v, w)
        BY <1>2, <3>1
      <4>1. ShouldApplyVersion(kept[n], w)
        BY <2>2
      <4>2. SameNodeInOrder(v, kept[n]) /\ SameNodeInOrder(kept[n], w) /\ SameNodeInOrder(v, w)
        BY <1>4, <2>2 DEF ClocksInv
      <4> QED BY <1>4, <2>2, <3>1, <4>1, <4>2, TwoNodesAreTransitive
    <3>2. CASE ~ShouldApplyVersion(v, kept[n])
      <4>1. SameNodeInOrder(v, kept[n])
        BY <1>4, <2>2 DEF ClocksInv
      <4>2. v = kept[n] \/ ShouldApplyVersion(kept[n], v)
        BY <1>4, <2>2, <3>2, <4>1, AcceptanceIsTotal
      <4> QED BY <1>2, <2>2, <3>2, <4>2
    <3> QED BY <3>1, <3>2
  <2> QED BY <2>1, <2>2 DEF KeptInv
<1> QED BY <1>3, <1>5 DEF KeptInv

LEMMA KeptStep ==
  ASSUME NEW a, NEW b, Nodes = {a, b}, ExchangeTypeOK, ClocksInv, KeptInv,
         [ExchangeNext]_exchangeVars
  PROVE  KeptInv'
<1>1. ASSUME NEW n \in Nodes, Tick(n) PROVE KeptInv'
  BY <1>1 DEF Tick, KeptInv
<1>2. ASSUME NEW n \in Nodes, TickVectorClock(n) PROVE KeptInv'
  <2>1. applied'[n] = applied[n] \union {NewVersion(n)} /\ kept'[n] = NewVersion(n)
    BY <1>2, TickVectorClockWrites DEF ExchangeTypeOK
  <2>2. \A m \in Nodes : m # n => applied'[m] = applied[m] /\ kept'[m] = kept[m]
    BY <1>2, TickVectorClockWrites DEF ExchangeTypeOK
  <2> QED BY <2>1, <2>2, NewVersionSupersedes DEF KeptInv
<1>3. ASSUME NEW n \in Nodes, NEW v \in made, UpdateClock(n, v) \/ UpdateVectorClock(n, v)
      PROVE  KeptInv'
  BY <1>3 DEF UpdateClock, UpdateVectorClock, KeptInv
<1>4. ASSUME UNCHANGED exchangeVars PROVE KeptInv'
  BY <1>4 DEF exchangeVars, KeptInv
<1> QED BY <1>1, <1>2, <1>3, <1>4, KeptApply DEF ExchangeNext

(* With two backends, stores that have seen the same versions have the     *)
(* same row, in whatever order the versions came and however often, though *)
(* the Lamport clocks need not agree with causality.  With three it fails. *)
THEOREM TwoStoresAgree ==
  ASSUME NEW a, NEW b, Nodes = {a, b}
  PROVE  ExchangeSpec => []StoresAgree
<1> DEFINE Inv == ExchangeTypeOK /\ ClocksInv /\ KeptInv
<1>1. ExchangeInit => Inv
  BY InitExchange
<1>2. Inv /\ [ExchangeNext]_exchangeVars => Inv'
  BY TypesStep, ClocksStep, KeptStep
<1>3. Inv => StoresAgree
  <2> SUFFICES ASSUME Inv, NEW n \in Nodes, NEW m \in Nodes, applied[n] = applied[m]
               PROVE  kept[n] = kept[m]
    BY DEF StoresAgree
  <2>1. CASE applied[n] = {}
    BY <2>1 DEF KeptInv
  <2>2. CASE applied[n] # {}
    <3>1. kept[n] \in applied[n] /\ kept[m] \in applied[n]
      BY <2>2 DEF KeptInv
    <3>2. kept[n] \in Versions /\ kept[m] \in Versions
      BY <3>1 DEF ExchangeTypeOK
    <3>3. kept[n] = kept[m] \/ (/\ ShouldApplyVersion(kept[n], kept[m])
                               /\ ShouldApplyVersion(kept[m], kept[n]))
      BY <2>2, <3>1 DEF KeptInv
    <3> QED BY <3>2, <3>3, VersionsNeverSwap DEF NeverSwapped
  <2> QED BY <2>1, <2>2
<1> HIDE DEF Inv
<1> QED BY <1>1, <1>2, <1>3, PTL DEF ExchangeSpec
=============================================================================
