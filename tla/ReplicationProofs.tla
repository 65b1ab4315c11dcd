-------------------------- MODULE ReplicationProofs --------------------------
(***************************************************************************)
(* Theorems about Replication, for any number of rows, handlers, copiers,  *)
(* failures and restarts, and about the types of the panels that are       *)
(* checked with it (MCReplicationPanels), with their proofs.               *)
(***************************************************************************)
EXTENDS MCReplicationPanels, FiniteSetTheorems, TLAPS

USE DEF PGs, Stores, Workers, Procs, Proc, Idle, Writing, Delivering, ProcStates, Other

(***************************************************************************)
(* The types need that a goroutine works on a row or on an event there is, *)
(* and RestoreClocks that the events it reads have a latest version.       *)
(***************************************************************************)
IsDelivering(p) == proc[p].pc \in {"read", "save", "mark", "answer"}

ProcsOK ==
  \A p \in Procs :
    /\ proc[p].pc = "write" => proc[p].key \in Keys
    /\ IsDelivering(p) => proc[p].n \in DOMAIN events

LatestExists ==
  \A U \in SUBSET Stores :
    (\E n \in DOMAIN events : events[n].db \in U) =>
      \E n \in DOMAIN events :
        /\ events[n].db \in U
        /\ \A m \in DOMAIN events : events[m].db \in U => events[m].row.v <= events[n].row.v

TInv == TypeOK /\ ProcsOK /\ LatestExists

(* What a step leaves of the events, unless it commits. *)
SameEvents ==
  /\ DOMAIN events' = DOMAIN events
  /\ \A n \in DOMAIN events : /\ events'[n].key = events[n].key
                              /\ events'[n].db = events[n].db
                              /\ events'[n].row = events[n].row

LEMMA InitTInv == Init => TInv
BY ReplicationAssumption
   DEF Init, TInv, TypeOK, ProcsOK, LatestExists, IsDelivering, NoRow, Row, Rows, NotCopying, Copies

(* Sequences, one of whose elements changes or that get one more. *)
LEMMA SeqDomain ==
  ASSUME NEW S, NEW q \in Seq(S)
  PROVE  DOMAIN q = 1 .. Len(q) /\ Len(q) \in Nat /\ \A n \in DOMAIN q : q[n] \in S
OBVIOUS

LEMMA SeqExcept ==
  ASSUME NEW S, NEW q \in Seq(S), NEW n \in DOMAIN q, NEW x \in S
  PROVE  /\ [q EXCEPT ![n] = x] \in Seq(S)
         /\ DOMAIN [q EXCEPT ![n] = x] = DOMAIN q
OBVIOUS

LEMMA SeqAppend ==
  ASSUME NEW S, NEW q \in Seq(S), NEW x \in S
  PROVE  /\ Append(q, x) \in Seq(S)
         /\ DOMAIN Append(q, x) = 1 .. Len(q) + 1
         /\ Append(q, x)[Len(q) + 1] = x
         /\ \A n \in DOMAIN q : Append(q, x)[n] = q[n]
OBVIOUS

LEMMA EventsDomain ==
  ASSUME TypeOK
  PROVE  /\ DOMAIN events = 1 .. Len(events)
         /\ Len(events) \in Nat
         /\ \A n \in DOMAIN events : events[n] \in Events /\ n \in Nat \ {0}
BY SeqDomain DEF TypeOK

(* What an event is made of. *)
LEMMA EventFields ==
  ASSUME TypeOK, NEW n \in DOMAIN events
  PROVE  /\ events[n].key \in Keys /\ events[n].db \in PGs
         /\ events[n].row \in Rows /\ events[n].row.v \in Nat
         /\ events[n].row.writes \in SUBSET (Nat \ {0})
BY EventsDomain DEF Events, Rows

(* A row of one store is replaced. *)
LEMMA UpdateType ==
  ASSUME TypeOK, NEW s \in Stores, NEW k, NEW r \in Rows, Update(s, k, r)
  PROVE  row' \in [Stores -> [Keys -> Rows]]
BY DEF Update, TypeOK

(* The next state of one goroutine. *)
LEMMA ProcUpdate ==
  ASSUME TypeOK, NEW p \in Procs, NEW t \in ProcStates, proc' = [proc EXCEPT ![p] = t]
  PROVE  /\ proc' \in [Procs -> ProcStates]
         /\ proc'[p] = t
         /\ \A q \in Procs : q # p => proc'[q] = proc[q]
BY DEF TypeOK

LEMMA SameLatest ==
  ASSUME LatestExists, SameEvents
  PROVE  LatestExists'
<1> SUFFICES ASSUME NEW U \in SUBSET Stores, \E m \in DOMAIN events' : events'[m].db \in U
             PROVE  \E m \in DOMAIN events' :
                      /\ events'[m].db \in U
                      /\ \A l \in DOMAIN events' :
                           events'[l].db \in U => events'[l].row.v <= events'[m].row.v
  BY DEF LatestExists
<1>1. /\ DOMAIN events' = DOMAIN events
      /\ \A m \in DOMAIN events : events'[m].db = events[m].db /\ events'[m].row = events[m].row
  BY DEF SameEvents
<1>2. PICK m \in DOMAIN events :
           /\ events[m].db \in U
           /\ \A l \in DOMAIN events : events[l].db \in U => events[l].row.v <= events[m].row.v
  BY <1>1 DEF LatestExists
<1> QED BY <1>1, <1>2

(* The change of the state of one event. *)
LEMMA SetStateKeeps ==
  ASSUME TypeOK, NEW n \in DOMAIN events, NEW state \in EventStates, SetState(n, state)
  PROVE  /\ SameEvents /\ events' \in Seq(Events)
         /\ \A m \in DOMAIN events : m # n => events'[m] = events[m]
         /\ events'[n].state = state
<1> DEFINE e == [events[n] EXCEPT !.state = state]
<1>1. /\ e \in Events /\ e.state = state
      /\ e.key = events[n].key /\ e.db = events[n].db /\ e.row = events[n].row
  BY EventsDomain DEF Events
<1>2. events' = [events EXCEPT ![n] = e]
  BY DEF SetState
<1> HIDE DEF e
<1>3. events' \in Seq(Events) /\ DOMAIN events' = DOMAIN events
  BY <1>1, <1>2, SeqExcept DEF TypeOK
<1>4. \A m \in DOMAIN events : events'[m] = IF m = n THEN e ELSE events[m]
  BY <1>2, EventsDomain
<1> QED BY <1>1, <1>3, <1>4 DEF SameEvents

(* The event that a commit appends. *)
LEMMA AppendKeeps ==
  ASSUME TypeOK, NEW e \in Events, events' = Append(events, e)
  PROVE  /\ events' \in Seq(Events)
         /\ DOMAIN events' = 1 .. Len(events) + 1
         /\ DOMAIN events' = DOMAIN events \union {Len(events) + 1}
         /\ events'[Len(events) + 1] = e
         /\ \A m \in DOMAIN events : events'[m] = events[m]
<1>1. events \in Seq(Events)
  BY DEF TypeOK
<1> QED BY <1>1, SeqAppend, EventsDomain

LEMMA LatestIsMax ==
  ASSUME TInv
  PROVE  /\ RestoredClock \in Nat
         /\ \A n \in DOMAIN events : events[n].db \in up => events[n].row.v <= RestoredClock
<1> DEFINE R == {events[n].row : n \in {m \in DOMAIN events : events[m].db \in up}}
<1>1. RestoredClock = Latest(R)
  BY DEF RestoredClock
<1>2. CASE R = {}
  BY <1>1, <1>2 DEF Latest
<1>3. CASE R # {}
  <2>1. PICK n \in DOMAIN events :
          /\ events[n].db \in up
          /\ \A m \in DOMAIN events : events[m].db \in up => events[m].row.v <= events[n].row.v
    <3>1. \E n \in DOMAIN events : events[n].db \in up
      BY <1>3
    <3>2. up \in SUBSET Stores
      BY DEF TInv, TypeOK
    <3> QED BY <3>1, <3>2 DEF TInv, LatestExists
  <2>2. events[n].row.v \in {r.v : r \in R} /\ \A r \in R : r.v <= events[n].row.v
    BY <2>1
  <2>3. /\ Latest(R) \in {r.v : r \in R}
        /\ \A r \in R : r.v <= Latest(R)
    BY <1>3, <2>2 DEF Latest
  <2>4. \A r \in R : r.v \in Nat
    BY EventFields DEF TInv
  <2> QED BY <1>1, <2>3, <2>4
<1> QED BY <1>2, <1>3

LEMMA NextTInv == TInv /\ [Next]_vars => TInv'
<1> SUFFICES ASSUME TInv, [Next]_vars PROVE TInv'
  OBVIOUS
<1> USE ReplicationAssumption
<1>0. TypeOK /\ ProcsOK /\ LatestExists
  BY DEF TInv
<1>1. ASSUME NEW h \in Handlers, NEW k \in Keys, NEW d \in PGs, Begin(h, k, d)
      PROVE  TInv'
  <2>1. clock + 1 \in Nat /\ Writing(k, d, Row(clock + 1, row[d][k].writes)) \in ProcStates
    BY <1>0 DEF TypeOK, Row, Rows
  <2>2. proc' = [proc EXCEPT ![h] = Writing(k, d, Row(clock + 1, row[d][k].writes))]
    BY <1>1 DEF Begin, Goto
  <2>3. TypeOK'
    BY <1>0, <1>1, <2>1, <2>2 DEF Begin, TypeOK
  <2>4. ProcsOK'
    BY <1>0, <1>1, <2>2 DEF Begin, TypeOK, ProcsOK, IsDelivering
  <2> QED BY <1>0, <1>1, <2>3, <2>4, SameLatest DEF Begin, TInv, SameEvents
<1>2. ASSUME NEW h \in Handlers, Commit(h)
      PROVE  TInv'
  <2> DEFINE k == proc[h].key
             d == proc[h].db
             n == Len(events) + 1
             r == Row(proc[h].row.v, proc[h].row.writes \union {n})
             e == Event(k, d, r, "new")
  <2>1. proc[h] \in ProcStates /\ proc[h].pc = "write" /\ k \in Keys /\ n \in Nat \ {0}
    <3>1. proc[h] \in ProcStates /\ proc[h].pc = "write"
      BY <1>0, <1>2 DEF Commit, TypeOK
    <3>2. n \in Nat \ {0}
      BY <1>0, EventsDomain
    <3> QED BY <1>0, <3>1, <3>2 DEF ProcsOK
  <2>2. r \in Rows /\ e \in Events
    BY <2>1 DEF Rows, Row, Event, Events, EventStates
  <2>3. events' = Append(events, e)
    BY <1>2 DEF Commit
  <2>4. /\ events' \in Seq(Events)
        /\ DOMAIN events' = DOMAIN events \union {n}
        /\ events'[n] = e
        /\ \A m \in DOMAIN events : events'[m] = events[m]
    BY <1>0, <2>2, <2>3, AppendKeeps
  <2>5. row' \in [Stores -> [Keys -> Rows]]
    BY <1>0, <1>2, <2>1, <2>2, UpdateType DEF Commit
  <2>6. proc' = [proc EXCEPT ![h] = Delivering("read", n, "AM", TRUE)] \/ proc' = [proc EXCEPT ![h] = Idle]
    BY <1>2 DEF Commit, Goto
  <2>7. Delivering("read", n, "AM", TRUE) \in ProcStates /\ Idle \in ProcStates
    BY <2>1 DEF NoRow, Row, Rows
  <2> HIDE DEF n, e, r, k, d
  <2>8. proc' \in [Procs -> ProcStates] /\ ProcsOK'
    <3> HIDE DEF ProcStates
    <3>1. PICK t \in ProcStates :
            /\ proc' = [proc EXCEPT ![h] = t]
            /\ t.pc # "write"
            /\ t.pc \in {"read", "save", "mark", "answer"} => t.n = n
      BY <2>6, <2>7
    <3>3. proc' \in [Procs -> ProcStates]
      BY <1>0, <3>1, ProcUpdate
    <3>4. proc'[h] = t /\ \A q \in Procs : q # h => proc'[q] = proc[q]
      BY <1>0, <3>1, ProcUpdate
    <3>5. ASSUME NEW q \in Procs
          PROVE  /\ proc'[q].pc = "write" => proc'[q].key \in Keys
                 /\ proc'[q].pc \in {"read", "save", "mark", "answer"} => proc'[q].n \in DOMAIN events'
      <4>1. CASE q = h
        BY <2>4, <3>1, <3>4, <4>1
      <4>2. CASE q # h
        BY <1>0, <2>4, <3>4, <4>2 DEF ProcsOK, IsDelivering
      <4> QED BY <4>1, <4>2
    <3> QED BY <3>3, <3>5 DEF ProcsOK, IsDelivering
  <2>10. TypeOK'
    BY <1>0, <1>2, <2>4, <2>5, <2>8 DEF Commit, TypeOK
  <2>9. LatestExists'
    <3>1. SUFFICES ASSUME NEW U \in SUBSET Stores, \E x \in DOMAIN events' : events'[x].db \in U
                   PROVE  \E x \in DOMAIN events' :
                            /\ events'[x].db \in U
                            /\ \A m \in DOMAIN events' : events'[m].db \in U =>
                                 events'[m].row.v <= events'[x].row.v
      BY DEF LatestExists
    <3>2. \A x \in DOMAIN events : events[x].row.v \in Nat
      BY <1>0, EventFields
    <3>3. e.row.v \in Nat
      BY <2>2 DEF Events, Rows
    <3>4. CASE \E x \in DOMAIN events : events[x].db \in U
      <4>1. PICK x \in DOMAIN events :
              /\ events[x].db \in U
              /\ \A m \in DOMAIN events : events[m].db \in U => events[m].row.v <= events[x].row.v
        BY <1>0, <3>4 DEF LatestExists
      <4>2. CASE e.db \in U /\ e.row.v > events[x].row.v
        BY <2>4, <3>2, <3>3, <4>1, <4>2
      <4>3. CASE ~(e.db \in U /\ e.row.v > events[x].row.v)
        BY <2>4, <3>2, <3>3, <4>1, <4>3
      <4> QED BY <4>2, <4>3
    <3>5. CASE ~\E x \in DOMAIN events : events[x].db \in U
      BY <2>4, <3>1, <3>3, <3>5
    <3> QED BY <3>4, <3>5
  <2> QED BY <2>8, <2>9, <2>10 DEF TInv
<1>3. ASSUME NEW p \in Procs, NEW t \in ProcStates, proc' = [proc EXCEPT ![p] = t],
             SameEvents, events' \in Seq(Events),
             t.pc # "write", t.pc \in {"read", "save", "mark", "answer"} => t.n \in DOMAIN events
      PROVE  proc' \in [Procs -> ProcStates] /\ ProcsOK' /\ LatestExists'
  BY <1>0, <1>3, SameLatest DEF TypeOK, ProcsOK, IsDelivering, SameEvents
<1>4. Idle \in ProcStates
  BY DEF NoRow, Row, Rows
<1>5. (events' = events => SameEvents /\ events' \in Seq(Events)) /\ events \in Seq(Events)
  BY <1>0 DEF SameEvents, TypeOK
<1>6. ASSUME NEW h \in Handlers, Rollback(h) PROVE TInv'
  BY <1>0, <1>3, <1>4, <1>5, <1>6 DEF Rollback, Goto, TInv, TypeOK
<1>7. ASSUME NEW h \in Handlers, Answer(h) PROVE TInv'
  <2>1. proc[h].n \in Nat
    BY <1>0 DEF TypeOK
  <2>2. /\ proc' = [proc EXCEPT ![h] = Idle] /\ h \in Procs
        /\ UNCHANGED <<up, clock, row, events, copying, fails, restarts>>
        /\ confirmed' = confirmed \/ confirmed' = confirmed \union {proc[h].n}
    BY <1>7 DEF Answer, Goto
  <2>3. SameEvents /\ events' \in Seq(Events)
    BY <1>5, <2>2
  <2>4. Idle.pc = "idle"
    OBVIOUS
  <2>5. proc' \in [Procs -> ProcStates] /\ ProcsOK' /\ LatestExists'
    <3> HIDE DEF ProcStates, Idle
    <3> QED BY <1>3, <1>4, <2>2, <2>3, <2>4
  <2>6. confirmed' \subseteq Nat
    BY <1>0, <2>1, <2>2 DEF TypeOK
  <2>7. TypeOK'
    <3> HIDE DEF ProcStates, Idle
    <3> QED BY <1>0, <2>2, <2>3, <2>5, <2>6 DEF TypeOK
  <2> QED BY <2>5, <2>7 DEF TInv
<1>8. ASSUME NEW d \in Workers, NEW n \in DOMAIN events, Claim(d, n) PROVE TInv'
  <2>1. n \in Nat /\ Delivering("read", n, "AM", TRUE) \in ProcStates
    BY <1>0, EventsDomain DEF NoRow, Row, Rows
  <2>2. SameEvents /\ events' \in Seq(Events)
    BY <1>0, <1>8, SetStateKeeps DEF Claim, EventStates
  <2>3. proc' \in [Procs -> ProcStates] /\ ProcsOK' /\ LatestExists'
    BY <1>3, <1>8, <2>1, <2>2 DEF Claim, Goto
  <2> QED BY <1>0, <1>8, <2>2, <2>3 DEF Claim, TInv, TypeOK
<1>9. ASSUME NEW d \in Workers, Mark(d) PROVE TInv'
  <2>1. SameEvents /\ events' \in Seq(Events)
    <3>1. CASE d \in up
      BY <1>0, <1>9, <3>1, SetStateKeeps DEF Mark, EventStates, ProcsOK, IsDelivering
    <3>2. CASE d \notin up
      BY <1>5, <1>9, <3>2 DEF Mark
    <3> QED BY <3>1, <3>2
  <2>2. proc' \in [Procs -> ProcStates] /\ ProcsOK' /\ LatestExists'
    BY <1>3, <1>4, <1>9, <2>1 DEF Mark, Goto
  <2> QED BY <1>0, <1>9, <2>1, <2>2 DEF Mark, TInv, TypeOK
<1>10. ASSUME NEW n \in DOMAIN events, LeaseExpires(n) PROVE TInv'
  <2>1. SameEvents /\ events' \in Seq(Events)
    BY <1>0, <1>10, SetStateKeeps DEF LeaseExpires, EventStates
  <2>2. ProcsOK' /\ LatestExists'
    BY <1>0, <1>10, <2>1, SameLatest DEF LeaseExpires, SameEvents, ProcsOK, IsDelivering
  <2> QED BY <1>0, <1>10, <2>1, <2>2 DEF LeaseExpires, TInv, TypeOK
<1>11. ASSUME NEW p \in Procs, proc[p].pc \in {"read", "save"}, NEW ok \in BOOLEAN
       PROVE  /\ AfterStore(p, ok) \in ProcStates
              /\ AfterStore(p, ok).pc \in {"read", "mark", "answer"}
              /\ AfterStore(p, ok).n = proc[p].n
              /\ proc[p].n \in DOMAIN events
  BY <1>0, <1>11 DEF AfterStore, TypeOK, ProcsOK, IsDelivering, NoRow, Row, Rows
<1>12. ASSUME NEW p \in Procs, ReadStore(p) PROVE TInv'
  <2>1. /\ proc[p] \in ProcStates /\ proc[p].pc = "read" /\ proc[p].n \in DOMAIN events
        /\ events[proc[p].n].row \in Rows
    BY <1>0, <1>12, EventFields DEF ReadStore, TypeOK, ProcsOK, IsDelivering
  <2>6. proc[p].ok \in BOOLEAN /\ FALSE \in BOOLEAN
    BY <2>1
  <2>2. clock' \in Nat
    BY <1>0, <1>12, <2>1 DEF ReadStore, TypeOK, Rows
  <2>3. PICK t \in {AfterStore(p, FALSE), AfterStore(p, proc[p].ok),
                    Delivering("save", proc[p].n, proc[p].at, proc[p].ok)} :
          proc' = [proc EXCEPT ![p] = t]
    BY <1>12 DEF ReadStore, Goto, Failed
  <2>4. t \in ProcStates /\ t.pc # "write" /\ t.n \in DOMAIN events
    <3>1. CASE t = Delivering("save", proc[p].n, proc[p].at, proc[p].ok)
      BY <2>1, <3>1 DEF NoRow, Row, Rows
    <3>2. CASE t # Delivering("save", proc[p].n, proc[p].at, proc[p].ok)
      <4>1. t \in {AfterStore(p, FALSE), AfterStore(p, proc[p].ok)}
        BY <3>2
      <4>2. proc[p].pc \in {"read", "save"}
        BY <2>1
      <4> HIDE DEF ProcStates, AfterStore
      <4>3. \A ok \in BOOLEAN :
              LET u == AfterStore(p, ok)
              IN  u \in ProcStates /\ u.pc # "write" /\ u.n \in DOMAIN events
        BY <1>11, <2>1, <4>2
      <4> QED BY <2>6, <4>1, <4>3
    <3> QED BY <3>1, <3>2
  <2>5. proc' \in [Procs -> ProcStates] /\ ProcsOK' /\ LatestExists'
    BY <1>3, <1>5, <1>12, <2>3, <2>4 DEF ReadStore
  <2> QED BY <1>0, <1>12, <2>2, <2>5 DEF ReadStore, TInv, TypeOK
<1>13. ASSUME NEW p \in Procs, SaveStore(p) PROVE TInv'
  <2>1. /\ proc[p] \in ProcStates /\ proc[p].pc = "save" /\ proc[p].n \in DOMAIN events
        /\ events[proc[p].n].row \in Rows
    BY <1>0, <1>13, EventFields DEF SaveStore, TypeOK, ProcsOK, IsDelivering
  <2>2. row' \in [Stores -> [Keys -> Rows]]
    BY <1>0, <1>13, <2>1, UpdateType DEF SaveStore, TypeOK
  <2>3. PICK t \in {AfterStore(p, FALSE), AfterStore(p, proc[p].ok)} :
          proc' = [proc EXCEPT ![p] = t]
    BY <1>13 DEF SaveStore, Goto, Failed
  <2>6. proc[p].ok \in BOOLEAN /\ FALSE \in BOOLEAN /\ proc[p].pc \in {"read", "save"}
    BY <2>1
  <2>4. t \in ProcStates /\ t.pc # "write" /\ t.n \in DOMAIN events
    <3> HIDE DEF ProcStates, AfterStore
    <3>1. \A ok \in BOOLEAN :
            LET u == AfterStore(p, ok)
            IN  u \in ProcStates /\ u.pc # "write" /\ u.n \in DOMAIN events
      BY <1>11, <2>1, <2>6
    <3> QED BY <2>3, <2>6, <3>1
  <2>5. proc' \in [Procs -> ProcStates] /\ ProcsOK' /\ LatestExists'
    BY <1>3, <1>5, <1>13, <2>3, <2>4 DEF SaveStore
  <2> QED BY <1>0, <1>13, <2>2, <2>5 DEF SaveStore, TInv, TypeOK
<1>14. ASSUME NEW s \in Stores, GoDown(s) PROVE TInv'
  <2>1. proc' \in [Procs -> ProcStates]
    BY <1>0, <1>4, <1>14 DEF GoDown, TypeOK
  <2>2. ProcsOK' /\ LatestExists'
    BY <1>0, <1>5, <1>14, SameLatest DEF GoDown, ProcsOK, IsDelivering
  <2> QED BY <1>0, <1>14, <2>1, <2>2 DEF GoDown, TInv, TypeOK
<1>15. ASSUME NEW p \in Procs, SaveUnanswered(p) PROVE TInv'
  <2>1. /\ proc[p] \in ProcStates /\ proc[p].pc = "save" /\ proc[p].n \in DOMAIN events
        /\ events[proc[p].n].row \in Rows
    BY <1>0, <1>15, EventFields DEF SaveUnanswered, TypeOK, ProcsOK, IsDelivering
  <2>2. row' \in [Stores -> [Keys -> Rows]]
    BY <1>0, <1>15, <2>1, UpdateType DEF SaveUnanswered, TypeOK
  <2>3. /\ AfterStore(p, FALSE) \in ProcStates /\ AfterStore(p, FALSE).pc # "write"
        /\ AfterStore(p, FALSE).n \in DOMAIN events
    BY <1>11, <2>1
  <2>4. \A q \in Procs : proc'[q] \in {AfterStore(p, FALSE), Idle, proc[q]}
    BY <1>15 DEF SaveUnanswered, Failed
  <2>5. DOMAIN proc' = Procs /\ proc' = [q \in Procs |-> proc'[q]]
    BY <1>15 DEF SaveUnanswered
  <2>6. /\ up' = up \ {proc[p].at} /\ fails' = fails + 1
        /\ UNCHANGED <<clock, events, copying, confirmed, restarts>>
    BY <1>15 DEF SaveUnanswered
  <2>7. proc \in [Procs -> ProcStates] /\ Idle.pc = "idle"
    BY <1>0 DEF TypeOK
  <2> HIDE DEF ProcStates, Idle
  <2>8. proc' \in [Procs -> ProcStates]
    BY <1>4, <2>3, <2>4, <2>5, <2>7
  <2>9. ProcsOK'
    BY <1>0, <2>3, <2>4, <2>6, <2>7 DEF ProcsOK, IsDelivering
  <2>10. TypeOK'
    <3>1. up' \subseteq Stores
      BY <1>0, <2>6 DEF TypeOK
    <3>2. fails' \in Nat
      BY <1>0, <2>6 DEF TypeOK
    <3> QED BY <1>0, <2>2, <2>6, <2>8, <3>1, <3>2 DEF TypeOK
  <2> QED BY <1>0, <1>5, <2>6, <2>9, <2>10, SameLatest DEF TInv
<1>16. ASSUME NEW s \in Stores, ComeBack(s) PROVE TInv'
  BY <1>0, <1>5, <1>16, SameLatest DEF ComeBack, TInv, TypeOK, ProcsOK, IsDelivering
<1>17. ASSUME NEW c \in Copiers, NEW k \in Keys, NEW s \in Stores, CopyRead(c, k, s) PROVE TInv'
  <2>1. copying' \in [Copiers -> Copies]
    BY <1>0, <1>17 DEF CopyRead, TypeOK, Copies
  <2> QED BY <1>0, <1>5, <1>17, <2>1, SameLatest DEF CopyRead, TInv, TypeOK, ProcsOK, IsDelivering
<1>18. ASSUME NEW c \in Copiers, CopyInsert(c) PROVE TInv'
  <2>1. row' \in [Stores -> [Keys -> Rows]]
    BY <1>0, <1>18, UpdateType DEF CopyInsert, TypeOK, Copies
  <2>2. copying' \in [Copiers -> Copies]
    BY <1>0, <1>18 DEF CopyInsert, TypeOK, Copies, NotCopying, NoRow, Row, Rows
  <2> QED BY <1>0, <1>5, <1>18, <2>1, <2>2, SameLatest DEF CopyInsert, TInv, TypeOK, ProcsOK, IsDelivering
<1>19. CASE Restart
  <2>1. clock' \in Nat
    BY <1>19, LatestIsMax DEF Restart
  <2>2. proc' \in [Procs -> ProcStates] /\ copying' \in [Copiers -> Copies]
    BY <1>4, <1>19 DEF Restart, NotCopying, Copies, NoRow, Row, Rows
  <2>3. ProcsOK' /\ LatestExists'
    BY <1>0, <1>5, <1>19, SameLatest DEF Restart, ProcsOK, IsDelivering
  <2> QED BY <1>0, <1>19, <2>1, <2>2, <2>3 DEF Restart, TInv, TypeOK
<1>20. CASE UNCHANGED vars
  BY <1>0, <1>5, <1>20, SameLatest DEF vars, TInv, TypeOK, ProcsOK, IsDelivering
<1> QED BY <1>1, <1>2, <1>6, <1>7, <1>8, <1>9, <1>10, <1>12, <1>13, <1>14, <1>15, <1>16,
           <1>17, <1>18, <1>19, <1>20 DEF Next, Deliver

(* The variables of the replication keep their types, whatever fails:      *)
(* a delivery is of an event there is, and the clock RestoreClocks finds   *)
(* is one.                                                                 *)
THEOREM TypeCorrect == Spec => []TypeOK
<1>1. TInv => TypeOK
  BY DEF TInv
<1> QED BY InitTInv, NextTInv, <1>1, PTL DEF Spec
-----------------------------------------------------------------------------
(***************************************************************************)
(* What follows needs that the owner of every row stays up.  Then only the *)
(* owner writes a row and queues its events, and what the other stores     *)
(* have of it is what some event says.                                     *)
(***************************************************************************)
OwnersStayUp == \A k \in Keys : Owner[k] \notin Fallible

EventsOf(k) == {n \in DOMAIN events : events[n].key = k}

OwnersOK ==
  /\ \A k \in Keys : Owner[k] \in up
  /\ \A n \in DOMAIN events : events[n].db = Owner[events[n].key]

(* An event has all writes of its row up to its own, and a clock later     *)
(* than those of the events of the row before it.                          *)
EventsOK ==
  \A n \in DOMAIN events :
    /\ events[n].row.writes = {m \in 1 .. n : events[m].key = events[n].key}
    /\ events[n].row.v > 0
    /\ \A m \in 1 .. n - 1 : events[m].key = events[n].key =>
         events[m].row.v < events[n].row.v

ClockOK == \A n \in DOMAIN events : events[n].row.v <= clock

(* What a store or a copier has of row k. *)
IsOfAnEvent(k, r) == r = NoRow \/ \E n \in EventsOf(k) : r = events[n].row

RowsOK == \A s \in Stores, k \in Keys : IsOfAnEvent(k, row[s][k])

(* The owner has every write of its rows, and their latest version. *)
OwnRow(k) == row[Owner[k]][k]

OwnerRowsOK ==
  \A k \in Keys :
    /\ OwnRow(k).writes = EventsOf(k)
    /\ \A n \in EventsOf(k) : events[n].row.v <= OwnRow(k).v

(* A transaction writes on the owner of its row, on what the owner has of  *)
(* it, with a later clock; no two write one row.                           *)
WriterOK(t) ==
  t.pc = "write" =>
    /\ t.db = Owner[t.key]
    /\ t.row.writes = OwnRow(t.key).writes
    /\ t.row.v > OwnRow(t.key).v
    /\ t.row.v <= clock

WritersOK ==
  /\ \A p \in Procs : WriterOK(proc[p])
  /\ \A d \in Workers : proc[d].pc # "write"
  /\ \A p, q \in Procs :
       proc[p].pc = "write" /\ proc[q].pc = "write" /\ proc[p].key = proc[q].key => p = q

(* No delivery saves on the owner: it has the row or a later one. *)
SavesOK ==
  \A p \in Procs : proc[p].pc = "save" => proc[p].at # Owner[events[proc[p].n].key]

(* A copy goes to a store that is not the owner of the row. *)
CopiesOK ==
  \A c \in Copiers : copying[c] # NotCopying =>
    /\ copying[c].key \in Keys
    /\ copying[c].to # Owner[copying[c].key]
    /\ IsOfAnEvent(copying[c].key, copying[c].row)

IInv == /\ OwnersOK /\ EventsOK /\ ClockOK /\ RowsOK /\ OwnerRowsOK
        /\ WritersOK /\ SavesOK /\ CopiesOK

LEMMA InitIInv == Init /\ OwnersStayUp => IInv
BY ReplicationAssumption
   DEF Init, IInv, OwnersOK, EventsOK, ClockOK, IsOfAnEvent, RowsOK, OwnRow, EventsOf, OwnerRowsOK,
       WriterOK, WritersOK, SavesOK, CopiesOK, NoRow, Row

(* The owner of a row is one of the stores. *)
LEMMA OwnerIsStore == \A k \in Keys : Owner[k] \in Stores /\ Owner[k] \in PGs
BY ReplicationAssumption

(* A step that does not commit keeps what is said of the events. *)
LEMMA EventsStay ==
  ASSUME TInv, TInv', IInv, SameEvents
  PROVE  /\ EventsOK'
         /\ \A k \in Keys : EventsOf(k)' = EventsOf(k)
         /\ \A k \in Keys, r \in Rows : IsOfAnEvent(k, r) => IsOfAnEvent(k, r)'
<1>1. \A k \in Keys : EventsOf(k)' = EventsOf(k)
  BY DEF EventsOf, SameEvents
<1>2. \A k \in Keys, r \in Rows : IsOfAnEvent(k, r) => IsOfAnEvent(k, r)'
  BY <1>1 DEF IsOfAnEvent, EventsOf, SameEvents
<1>3. ASSUME NEW n \in DOMAIN events
      PROVE  n \in Nat /\ \A m \in 1 .. n : m \in DOMAIN events
  BY EventsDomain DEF TInv
<1>4. EventsOK'
  <2>1. SUFFICES ASSUME NEW n \in DOMAIN events
                 PROVE  /\ events'[n].row.writes = {m \in 1 .. n : events'[m].key = events'[n].key}
                        /\ events'[n].row.v > 0
                        /\ \A m \in 1 .. n - 1 : events'[m].key = events'[n].key =>
                             events'[m].row.v < events'[n].row.v
    BY DEF EventsOK, SameEvents
  <2>2. \A m \in 1 .. n : events'[m].key = events[m].key /\ events'[m].row = events[m].row
    BY <1>3 DEF SameEvents
  <2>3. \A m \in 1 .. n - 1 : m \in 1 .. n
    BY <1>3
  <2>4. n \in 1 .. n
    BY <1>3, EventsDomain DEF TInv
  <2> QED BY <2>2, <2>3, <2>4 DEF IInv, EventsOK
<1> QED BY <1>1, <1>2, <1>4

(***************************************************************************)
(* The steps that leave the events (but for their states) and the owner's  *)
(* rows alone: they keep the invariant if what they change is as it says.  *)
(***************************************************************************)
LEMMA Frame ==
  ASSUME TInv, TInv', IInv, SameEvents,
         \A k \in Keys : Owner[k] \in up',
         \A k \in Keys : row'[Owner[k]][k] = row[Owner[k]][k],
         \A s \in Stores, k \in Keys : row'[s][k] = row[s][k] \/ IsOfAnEvent(k, row'[s][k]),
         ClockOK',
         \A p \in Procs : \/ proc'[p] = proc[p] /\ (proc[p].pc = "write" => clock' >= clock)
                          \/ /\ proc'[p].pc # "write"
                             /\ proc'[p].pc = "save" => proc'[p].at # Owner[events[proc'[p].n].key],
         \A c \in Copiers : \/ copying'[c] \in {copying[c], NotCopying}
                            \/ /\ copying'[c].key \in Keys
                               /\ copying'[c].to # Owner[copying'[c].key]
                               /\ copying'[c].row \in Rows
                               /\ IsOfAnEvent(copying'[c].key, copying'[c].row)
  PROVE  IInv'
<1> USE OwnerIsStore
<1>1. OwnersOK'
  BY DEF IInv, OwnersOK, SameEvents
<1>2. EventsOK' /\ \A k \in Keys : EventsOf(k)' = EventsOf(k)
  BY EventsStay
<1>3. RowsOK'
  <2> SUFFICES ASSUME NEW s \in Stores, NEW k \in Keys
               PROVE  IsOfAnEvent(k, row[s][k])'
    BY DEF RowsOK
  <2>1. row'[s][k] \in Rows
    BY DEF TInv, TypeOK
  <2>2. IsOfAnEvent(k, row'[s][k])
    BY DEF IInv, RowsOK
  <2> QED BY <2>1, <2>2, EventsStay DEF IsOfAnEvent
<1>4. \A k \in Keys : OwnRow(k)' = OwnRow(k)
  BY DEF OwnRow
<1>5. OwnerRowsOK'
  <2>1. SUFFICES ASSUME NEW k \in Keys
                 PROVE  /\ OwnRow(k)'.writes = EventsOf(k)'
                        /\ \A n \in EventsOf(k)' : events'[n].row.v <= OwnRow(k)'.v
    BY DEF OwnerRowsOK
  <2>2. \A n \in EventsOf(k) : events'[n].row = events[n].row
    BY DEF EventsOf, SameEvents
  <2> QED BY <1>2, <1>4, <2>2 DEF IInv, OwnerRowsOK
<1>6. WritersOK'
  <2>1. ASSUME NEW p \in Procs, proc'[p].pc = "write"
        PROVE  proc'[p] = proc[p] /\ clock' >= clock /\ proc[p].key \in Keys
    BY <2>1 DEF TInv, ProcsOK
  <2>2. ASSUME NEW p \in Procs, proc'[p].pc = "write"
        PROVE  WriterOK(proc[p])'
    <3>1. WriterOK(proc[p]) /\ proc[p].row.v \in Nat /\ clock \in Nat /\ clock' \in Nat
      BY DEF IInv, WritersOK, TInv, TypeOK, Rows
    <3>2. PICK k \in Keys : k = proc[p].key
      BY <2>1, <2>2
    <3>3. /\ proc[p].db = Owner[k] /\ proc[p].row.writes = row[Owner[k]][k].writes
          /\ proc[p].row.v > row[Owner[k]][k].v /\ proc[p].row.v <= clock
      BY <2>1, <2>2, <3>1, <3>2 DEF WriterOK, OwnRow
    <3>4. row'[Owner[k]][k] = row[Owner[k]][k] /\ proc'[p] = proc[p]
      BY <2>1, <2>2
    <3>5. proc[p].row.v <= clock'
      BY <2>1, <2>2, <3>1, <3>3
    <3> QED BY <3>2, <3>3, <3>4, <3>5 DEF WriterOK, OwnRow
  <2>3. \A p \in Procs : WriterOK(proc[p])'
    BY <2>2 DEF WriterOK
  <2>4. \A d \in Workers : d \in Procs
    OBVIOUS
  <2> QED BY <2>1, <2>3, <2>4 DEF IInv, WritersOK
<1>7. SavesOK'
  <2> SUFFICES ASSUME NEW p \in Procs, proc'[p].pc = "save"
               PROVE  proc'[p].at # Owner[events'[proc'[p].n].key]
    BY DEF SavesOK
  <2>1. proc'[p].n \in DOMAIN events
    BY DEF TInv, ProcsOK, IsDelivering, SameEvents
  <2>2. proc'[p].at # Owner[events[proc'[p].n].key]
    BY DEF IInv, SavesOK
  <2> QED BY <2>1, <2>2 DEF SameEvents
<1>8. CopiesOK'
  <2> SUFFICES ASSUME NEW c \in Copiers, copying'[c] # NotCopying
               PROVE  /\ copying'[c].key \in Keys
                      /\ copying'[c].to # Owner[copying'[c].key]
                      /\ IsOfAnEvent(copying[c].key, copying[c].row)'
    BY DEF CopiesOK
  <2>1. /\ copying'[c].key \in Keys
        /\ copying'[c].to # Owner[copying'[c].key]
        /\ copying'[c].row \in Rows
        /\ IsOfAnEvent(copying'[c].key, copying'[c].row)
    BY DEF IInv, CopiesOK, TInv, TypeOK, Copies
  <2> QED BY <2>1, EventsStay DEF IsOfAnEvent
<1> QED BY <1>1, <1>2, <1>3, <1>5, <1>6, <1>7, <1>8 DEF IInv

(* The steps that save row r of k on a store that is not its owner. *)
LEMMA UpdateElsewhere ==
  ASSUME TypeOK, NEW s \in Stores, NEW k \in Keys, NEW r, s # Owner[k], Update(s, k, r)
  PROVE  /\ \A x \in Keys : row'[Owner[x]][x] = row[Owner[x]][x]
         /\ row'[s][k] = r
         /\ \A y \in Stores, x \in Keys : <<y, x>> # <<s, k>> => row'[y][x] = row[y][x]
BY OwnerIsStore DEF Update, TypeOK

(* The owner has what it would be sent: a delivery saves nothing there. *)
LEMMA OwnerIsLatest ==
  ASSUME TInv, IInv, NEW n \in DOMAIN events
  PROVE  ~MayApply(events[n].row, row[Owner[events[n].key]][events[n].key])
<1> DEFINE k == events[n].key
           e == events[n].row
<1>1. k \in Keys /\ e \in Rows /\ n \in EventsOf(k)
  BY EventFields DEF TInv, EventsOf
<1>2. e.v <= OwnRow(k).v /\ e.v > 0
  BY <1>1 DEF IInv, OwnerRowsOK, EventsOK
<1>3. OwnRow(k) \in Rows /\ IsOfAnEvent(k, OwnRow(k))
  BY <1>1, OwnerIsStore DEF OwnRow, IInv, RowsOK, TInv, TypeOK
<1>4. CASE OwnRow(k) = NoRow
  BY <1>1, <1>2, <1>4 DEF NoRow, Row, Rows
<1>5. CASE OwnRow(k) # NoRow
  <2>1. PICK m \in EventsOf(k) : OwnRow(k) = events[m].row
    BY <1>3, <1>5 DEF IsOfAnEvent
  <2>2. m \in DOMAIN events /\ events[m].key = k /\ m \in Nat /\ n \in Nat /\ m >= 1 /\ n >= 1
    BY <2>1, EventsDomain DEF EventsOf, TInv
  <2>3. n < m => e.v < events[m].row.v
    BY <2>2 DEF IInv, EventsOK
  <2>4. m < n => events[m].row.v < e.v
    BY <2>2 DEF IInv, EventsOK
  <2>5. e.v \in Nat /\ events[m].row.v \in Nat
    BY <2>2, EventFields DEF TInv
  <2> QED BY <1>2, <2>1, <2>2, <2>3, <2>4, <2>5 DEF MayApply, OwnRow
<1> QED BY <1>4, <1>5

LEMMA NextIInv == OwnersStayUp /\ TInv /\ TInv' /\ IInv /\ [Next]_vars => IInv'
<1> SUFFICES ASSUME OwnersStayUp, TInv, TInv', IInv, [Next]_vars PROVE IInv'
  OBVIOUS
<1> USE ReplicationAssumption, OwnerIsStore
<1>0. TypeOK /\ TypeOK' /\ ProcsOK /\ LatestExists
  BY DEF TInv
<1>1. \A k \in Keys : Owner[k] \in up /\ Owner[k] \notin Fallible
  BY DEF IInv, OwnersOK, OwnersStayUp
<1>2. clock \in Nat /\ ClockOK
  BY <1>0 DEF TypeOK, IInv
<1>3. events' = events => SameEvents
  BY DEF SameEvents
<1>4. ASSUME SameEvents, clock' >= clock PROVE ClockOK'
  <2>1. clock' \in Nat /\ \A n \in DOMAIN events : events[n].row.v \in Nat
    BY <1>0, EventFields DEF TypeOK
  <2> QED BY <1>2, <1>4, <2>1 DEF ClockOK, SameEvents
<1>5. ASSUME NEW h \in Handlers, NEW k \in Keys, NEW d \in PGs, Begin(h, k, d)
      PROVE  IInv'
  <2> DEFINE t == Writing(k, d, Row(clock + 1, row[d][k].writes))
  <2>1. proc'[h] = t /\ \A q \in Procs : q # h => proc'[q] = proc[q]
    BY <1>0, <1>5 DEF Begin, Goto, TypeOK
  <2>2. d = Owner[k]
    <3>1. \A s \in Stores : Has(s, k) => EventsOf(k) # {}
      BY DEF Has, IInv, RowsOK, IsOfAnEvent
    <3>2. EventsOf(k) # {} => Has(Owner[k], k)
      BY DEF Has, IInv, OwnerRowsOK, OwnRow, NoRow, Row
    <3> QED BY <1>1, <1>5, <3>1, <3>2 DEF Begin, WritesOn, CreatesOn
  <2>3. clock' = clock + 1 /\ UNCHANGED <<up, row, events, copying>> /\ SameEvents
    BY <1>3, <1>5 DEF Begin
  <2>4. OwnRow(k).v <= clock /\ OwnRow(k) \in Rows
    <3>1. OwnRow(k) \in Rows /\ IsOfAnEvent(k, OwnRow(k))
      BY <1>0 DEF OwnRow, IInv, RowsOK, TypeOK
    <3>2. NoRow.v <= clock
      BY <1>2 DEF NoRow, Row
    <3> QED BY <1>2, <3>1, <3>2 DEF IsOfAnEvent, EventsOf, ClockOK
  <2>5. EventsOK' /\ \A x \in Keys : EventsOf(x)' = EventsOf(x)
    BY <2>3, EventsStay
  <2>6. OwnersOK' /\ RowsOK' /\ OwnerRowsOK' /\ CopiesOK' /\ ClockOK'
    BY <1>2, <1>4, <2>3 DEF IInv, OwnersOK, RowsOK, IsOfAnEvent, EventsOf, OwnerRowsOK, OwnRow, CopiesOK
  <2>7. WriterOK(proc[h])'
    BY <2>1, <2>2, <2>3, <2>4, <1>2 DEF WriterOK, OwnRow, Row, Rows
  <2>8. \A p \in Procs : p # h => WriterOK(proc[p])'
    <3>1. ASSUME NEW p \in Procs, p # h, proc[p].pc = "write"
          PROVE  proc[p].row.v \in Nat /\ WriterOK(proc[p])
      BY <1>0 DEF TypeOK, Rows, IInv, WritersOK
    <3> SUFFICES ASSUME NEW p \in Procs, p # h, proc'[p].pc = "write" PROVE WriterOK(proc[p])'
      BY DEF WriterOK
    <3>2. proc'[p] = proc[p] /\ OwnRow(proc[p].key)' = OwnRow(proc[p].key)
      BY <2>1, <2>3 DEF OwnRow
    <3>3. proc[p].row.v <= clock'
      BY <1>2, <2>3, <3>1, <3>2 DEF WriterOK
    <3> QED BY <3>1, <3>2, <3>3 DEF WriterOK
  <2>9. \A p \in Procs : p # h /\ proc[p].pc = "write" => proc[p].key # k
    <3> SUFFICES ASSUME NEW p \in Procs, proc[p].pc = "write", proc[p].key = k PROVE FALSE
      OBVIOUS
    <3>1. proc[p].db = d
      BY <2>2 DEF IInv, WritersOK, WriterOK
    <3>2. p \in Handlers
      BY DEF IInv, WritersOK
    <3> QED BY <1>5, <3>1, <3>2 DEF Begin, RowFree
  <2>10. WritersOK'
    <3>1. \A p \in Procs : WriterOK(proc[p])'
      BY <2>7, <2>8
    <3>2. \A w \in Workers : w \in Procs /\ w # h
      OBVIOUS
    <3> QED BY <2>1, <2>9, <3>1, <3>2 DEF IInv, WritersOK
  <2>11. SavesOK'
    BY <2>1, <2>3 DEF IInv, SavesOK
  <2> QED BY <2>5, <2>6, <2>10, <2>11 DEF IInv
<1>6. ASSUME NEW h \in Handlers, Commit(h) PROVE IInv'
  <2>0. PICK k : k = proc[h].key
    OBVIOUS
  <2> DEFINE d == Owner[k]
             n == Len(events) + 1
             r == Row(proc[h].row.v, proc[h].row.writes \union {n})
             e == Event(k, d, r, "new")
  <2>1. /\ proc[h] \in ProcStates /\ proc[h].pc = "write" /\ k \in Keys
        /\ proc[h].db = d
        /\ proc[h].row.writes = OwnRow(k).writes
        /\ proc[h].row.v > OwnRow(k).v /\ proc[h].row.v <= clock
    BY <1>0, <1>6, <2>0 DEF Commit, TypeOK, ProcsOK, IInv, WritersOK, WriterOK, OwnRow
  <2>2. n \in Nat \ {0} /\ DOMAIN events = 1 .. n - 1 /\ n \notin DOMAIN events
    BY <1>0, EventsDomain
  <2>3. /\ e \in Events /\ e.key = k /\ e.db = d /\ e.row = r
        /\ r \in Rows /\ r.v = proc[h].row.v /\ r.writes = proc[h].row.writes \union {n}
    BY <2>1, <2>2 DEF Row, Rows, Event, Events, EventStates
  <2>4. /\ DOMAIN events' = DOMAIN events \union {n}
        /\ events'[n] = e
        /\ \A m \in DOMAIN events : events'[m] = events[m]
    BY <1>0, <1>6, <2>0, <2>1, <2>3, AppendKeeps DEF Commit
  <2>5. /\ OwnRow(k)' = r
        /\ \A x \in Keys : x # k => OwnRow(x)' = OwnRow(x)
        /\ \A s \in Stores, x \in Keys : row'[s][x] = row[s][x] \/ (x = k /\ row'[s][x] = r)
    <3>1. Update(d, k, r) /\ d \in Stores
      BY <1>6, <2>0, <2>1 DEF Commit
    <3> HIDE DEF r
    <3> QED BY <1>0, <2>1, <3>1 DEF Update, OwnRow, TypeOK
  <2>6. /\ proc'[h].pc \in {"idle", "read"}
        /\ \A q \in Procs : q # h => proc'[q] = proc[q]
    BY <1>0, <1>6 DEF Commit, Goto, TypeOK
  <2>7. UNCHANGED <<up, clock, copying>>
    BY <1>6 DEF Commit
  <2>8. /\ r.writes = EventsOf(k) \union {n} /\ r.v > OwnRow(k).v /\ r.v <= clock
        /\ OwnRow(k) \in Rows
    <3>1. OwnRow(k) \in Rows
      BY <1>0, <2>1 DEF OwnRow, TypeOK
    <3>2. OwnRow(k).writes = EventsOf(k)
      BY <2>1 DEF IInv, OwnerRowsOK
    <3> HIDE DEF ProcStates, r, d
    <3> QED BY <2>1, <2>3, <3>1, <3>2
  <2> HIDE DEF d, r, e, n
  <2>9. /\ EventsOf(k)' = EventsOf(k) \union {n}
        /\ \A x \in Keys : x # k => EventsOf(x)' = EventsOf(x)
    BY <2>2, <2>3, <2>4 DEF EventsOf
  <2>10. \A x \in EventsOf(k) : /\ events[x].row.v < r.v
                                /\ x \in DOMAIN events
    <3> SUFFICES ASSUME NEW x \in EventsOf(k) PROVE events[x].row.v < r.v
      BY DEF EventsOf
    <3>1. x \in DOMAIN events /\ events[x].row.v <= OwnRow(k).v
      BY <2>1 DEF IInv, OwnerRowsOK, EventsOf
    <3>2. events[x].row.v \in Nat /\ OwnRow(k).v \in Nat /\ r.v \in Nat
      BY <1>0, <2>3, <2>8, <3>1, EventFields DEF Rows
    <3> QED BY <2>8, <3>1, <3>2
  <2>11. OwnersOK'
    BY <2>1, <2>3, <2>4, <2>7 DEF IInv, OwnersOK, d
  <2>12. ClockOK'
    BY <2>3, <2>4, <2>7, <2>8 DEF IInv, ClockOK
  <2>13. OwnerRowsOK'
    <3> SUFFICES ASSUME NEW x \in Keys
                 PROVE  /\ OwnRow(x)'.writes = EventsOf(x)'
                        /\ \A m \in EventsOf(x)' : events'[m].row.v <= OwnRow(x)'.v
      BY DEF OwnerRowsOK
    <3>1. CASE x = k
      <4>1. r.v \in Nat /\ \A m \in EventsOf(k) : events[m].row.v \in Nat
        BY <1>0, <2>3, <2>10, EventFields DEF Rows
      <4>2. OwnRow(k)' = r /\ EventsOf(k)' = EventsOf(k) \union {n}
        BY <2>5, <2>9
      <4>3. \A m \in EventsOf(k) \union {n} : events'[m].row.v <= r.v
        BY <2>3, <2>4, <2>10, <4>1
      <4> QED BY <2>8, <3>1, <4>2, <4>3
    <3>2. CASE x # k
      <4>1. OwnRow(x)' = OwnRow(x) /\ EventsOf(x)' = EventsOf(x)
        BY <2>5, <2>9, <3>2
      <4>2. \A m \in EventsOf(x) : events'[m] = events[m]
        BY <2>4 DEF EventsOf
      <4> QED BY <4>1, <4>2 DEF IInv, OwnerRowsOK
    <3> QED BY <3>1, <3>2
  <2>14. EventsOK'
    <3> SUFFICES ASSUME NEW x \in DOMAIN events'
                 PROVE  /\ events'[x].row.writes = {m \in 1 .. x : events'[m].key = events'[x].key}
                        /\ events'[x].row.v > 0
                        /\ \A m \in 1 .. x - 1 : events'[m].key = events'[x].key =>
                             events'[m].row.v < events'[x].row.v
      BY DEF EventsOK
    <3>1. CASE x = n
      <4>1. \A m \in 1 .. n - 1 : events'[m] = events[m] /\ (events[m].key = k => m \in EventsOf(k))
        BY <2>2, <2>4 DEF EventsOf
      <4>2. {m \in 1 .. n : events'[m].key = k} = EventsOf(k) \union {n}
        <5>1. 1 .. n = DOMAIN events \union {n}
          BY <2>2
        <5> QED BY <2>3, <2>4, <5>1 DEF EventsOf
      <4>3. r.v > 0
        BY <2>3, <2>8 DEF Rows
      <4> QED BY <2>3, <2>4, <2>8, <2>10, <3>1, <4>1, <4>2, <4>3
    <3>2. CASE x # n
      <4>1. x \in DOMAIN events /\ x \in Nat /\ \A m \in 1 .. x : m \in DOMAIN events
        BY <2>2, <2>4, <3>2
      <4>2. \A m \in 1 .. x : events'[m] = events[m]
        BY <2>4, <4>1
      <4>3. x \in 1 .. x /\ \A m \in 1 .. x - 1 : m \in 1 .. x
        BY <2>2, <4>1
      <4> QED BY <4>1, <4>2, <4>3 DEF IInv, EventsOK
    <3> QED BY <3>1, <3>2
  <2>15. \A x \in Keys, y \in Rows : IsOfAnEvent(x, y) => IsOfAnEvent(x, y)'
    BY <2>4, <2>9 DEF IsOfAnEvent, EventsOf
  <2>16. RowsOK'
    <3> SUFFICES ASSUME NEW s \in Stores, NEW x \in Keys
                 PROVE  IsOfAnEvent(x, row[s][x])'
      BY DEF RowsOK
    <3>1. CASE row'[s][x] = row[s][x]
      <4>1. row[s][x] \in Rows /\ IsOfAnEvent(x, row[s][x])
        BY <1>0 DEF TypeOK, IInv, RowsOK
      <4> QED BY <2>15, <3>1, <4>1 DEF IsOfAnEvent
    <3>2. CASE x = k /\ row'[s][x] = r
      BY <2>3, <2>4, <2>9, <3>2 DEF IsOfAnEvent
    <3> QED BY <2>5, <3>1, <3>2
  <2>17. WritersOK'
    <3>1. \A p \in Procs : p # h /\ proc[p].pc = "write" => proc[p].key # k
      BY <2>0, <2>1 DEF IInv, WritersOK
    <3>2. \A p \in Procs : WriterOK(proc[p])'
      <4> SUFFICES ASSUME NEW p \in Procs, proc'[p].pc = "write"
                   PROVE  WriterOK(proc[p])'
        BY DEF WriterOK
      <4>1. p # h /\ proc'[p] = proc[p] /\ WriterOK(proc[p]) /\ proc[p].key \in Keys /\ proc[p].key # k
        BY <1>0, <2>6, <3>1 DEF IInv, WritersOK, ProcsOK
      <4>2. row'[Owner[proc[p].key]][proc[p].key] = row[Owner[proc[p].key]][proc[p].key]
        BY <2>5, <4>1
      <4> QED BY <2>7, <4>1, <4>2 DEF WriterOK, OwnRow
    <3>3. \A p \in Procs : proc'[p].pc = "write" => proc'[p] = proc[p]
      BY <2>6
    <3>4. /\ \A x \in Workers : proc[x].pc # "write"
          /\ \A p, q \in Procs :
               proc[p].pc = "write" /\ proc[q].pc = "write" /\ proc[p].key = proc[q].key => p = q
      BY DEF IInv, WritersOK
    <3>5. \A x \in Workers : proc'[x].pc # "write"
      BY <3>3, <3>4
    <3>6. \A p, q \in Procs :
            proc'[p].pc = "write" /\ proc'[q].pc = "write" /\ proc'[p].key = proc'[q].key => p = q
      BY <3>3, <3>4
    <3> QED BY <3>2, <3>5, <3>6 DEF WritersOK
  <2>18. SavesOK'
    <3> SUFFICES ASSUME NEW p \in Procs, proc'[p].pc = "save"
                 PROVE  proc'[p].at # Owner[events'[proc'[p].n].key]
      BY DEF SavesOK
    <3>1. proc'[p] = proc[p] /\ proc[p].n \in DOMAIN events
      BY <1>0, <2>6 DEF ProcsOK, IsDelivering
    <3>2. events'[proc[p].n] = events[proc[p].n]
      BY <2>4, <3>1
    <3>3. proc[p].at # Owner[events[proc[p].n].key]
      BY <3>1 DEF IInv, SavesOK
    <3> QED BY <3>1, <3>2, <3>3
  <2>19. CopiesOK'
    <3> SUFFICES ASSUME NEW c \in Copiers, copying[c] # NotCopying
                 PROVE  /\ copying[c].key \in Keys
                        /\ copying[c].to # Owner[copying[c].key]
                        /\ IsOfAnEvent(copying[c].key, copying[c].row)'
      BY <2>7 DEF CopiesOK
    <3>1. /\ copying[c].key \in Keys /\ copying[c].to # Owner[copying[c].key]
          /\ copying[c].row \in Rows /\ IsOfAnEvent(copying[c].key, copying[c].row)
      BY <1>0 DEF IInv, CopiesOK, TypeOK, Copies
    <3> QED BY <2>7, <2>15, <3>1 DEF IsOfAnEvent
  <2> QED BY <2>11, <2>12, <2>13, <2>14, <2>16, <2>17, <2>18, <2>19 DEF IInv
<1> DEFINE Elsewhere(t) ==
      t.pc # "write" /\ (t.pc = "save" => t.at # Owner[events[t.n].key])
<1>7. Elsewhere(Idle) /\ \A n, at, ok : Elsewhere(Delivering("read", n, at, ok))
  OBVIOUS
<1>8. ASSUME NEW p \in Procs, NEW t \in ProcStates, proc' = [proc EXCEPT ![p] = t],
             Elsewhere(t), SameEvents, UNCHANGED <<up, row, copying>>, clock' = clock
      PROVE  IInv'
  <2>1. proc'[p] = t /\ \A q \in Procs : q # p => proc'[q] = proc[q]
    BY <1>0, <1>8 DEF TypeOK
  <2> QED BY <1>1, <1>2, <1>4, <1>8, <2>1, Frame
<1>9. Idle \in ProcStates
  BY DEF NoRow, Row, Rows
<1>10. ASSUME NEW h \in Handlers, Rollback(h) PROVE IInv'
  BY <1>3, <1>7, <1>8, <1>9, <1>10 DEF Rollback, Goto
<1>11. ASSUME NEW h \in Handlers, Answer(h) PROVE IInv'
  BY <1>3, <1>7, <1>8, <1>9, <1>11 DEF Answer, Goto
<1>12. ASSUME NEW d \in Workers, NEW n \in DOMAIN events, Claim(d, n) PROVE IInv'
  <2>1. Delivering("read", n, "AM", TRUE) \in ProcStates
    BY <1>0, EventsDomain DEF NoRow, Row, Rows
  <2>2. SameEvents
    BY <1>0, <1>12, SetStateKeeps DEF Claim, EventStates
  <2> QED BY <1>7, <1>8, <1>12, <2>1, <2>2 DEF Claim, Goto
<1>13. ASSUME NEW d \in Workers, Mark(d) PROVE IInv'
  <2>1. SameEvents
    <3>1. CASE d \in up
      BY <1>0, <1>13, <3>1, SetStateKeeps DEF Mark, EventStates, ProcsOK, IsDelivering
    <3>2. CASE d \notin up
      BY <1>3, <1>13, <3>2 DEF Mark
    <3> QED BY <3>1, <3>2
  <2> QED BY <1>7, <1>8, <1>9, <1>13, <2>1 DEF Mark, Goto
<1>14. ASSUME NEW n \in DOMAIN events, LeaseExpires(n) PROVE IInv'
  <2>1. SameEvents
    BY <1>0, <1>14, SetStateKeeps DEF LeaseExpires, EventStates
  <2> QED BY <1>1, <1>2, <1>4, <1>14, <2>1, Frame DEF LeaseExpires
<1>15. ASSUME NEW p \in Procs, proc[p].pc \in {"read", "save"}, NEW ok \in BOOLEAN
       PROVE  AfterStore(p, ok) \in ProcStates /\ Elsewhere(AfterStore(p, ok))
  BY <1>0, <1>15 DEF AfterStore, TypeOK, NoRow, Row, Rows
<1>16. ASSUME NEW p \in Procs, ReadStore(p) PROVE IInv'
  <2>1. /\ proc[p] \in ProcStates /\ proc[p].pc = "read" /\ proc[p].n \in DOMAIN events
        /\ events[proc[p].n].row.v \in Nat /\ events[proc[p].n].key \in Keys
    BY <1>0, <1>16, EventFields DEF ReadStore, TypeOK, ProcsOK, IsDelivering
  <2>2. clock' = clock
    BY <1>2, <1>16, <2>1 DEF ReadStore, ClockOK
  <2>3. PICK t \in {AfterStore(p, FALSE), AfterStore(p, proc[p].ok),
                    Delivering("save", proc[p].n, proc[p].at, proc[p].ok)} :
          /\ proc' = [proc EXCEPT ![p] = t]
          /\ t.pc = "save" => t.at # Owner[events[t.n].key]
    <3>1. CASE proc[p].at \in up /\ MayApply(events[proc[p].n].row, row[proc[p].at][events[proc[p].n].key])
      <4>1. proc[p].at # Owner[events[proc[p].n].key]
        BY <2>1, <3>1, OwnerIsLatest
      <4>2. Elsewhere(Delivering("save", proc[p].n, proc[p].at, proc[p].ok))
        BY <4>1
      <4>3. Elsewhere(AfterStore(p, FALSE)) /\ Elsewhere(AfterStore(p, proc[p].ok))
        <5>1. proc[p].ok \in BOOLEAN /\ proc[p].pc \in {"read", "save"}
          BY <2>1
        <5> HIDE DEF ProcStates, Elsewhere
        <5> QED BY <1>15, <5>1
      <4> QED BY <1>16, <4>2, <4>3 DEF ReadStore, Goto, Failed
    <3>2. CASE ~(proc[p].at \in up /\ MayApply(events[proc[p].n].row, row[proc[p].at][events[proc[p].n].key]))
      <4>1. proc' = [proc EXCEPT ![p] = AfterStore(p, FALSE)] \/ proc' = [proc EXCEPT ![p] = AfterStore(p, proc[p].ok)]
        BY <1>16, <3>2 DEF ReadStore, Goto, Failed
      <4>2. Elsewhere(AfterStore(p, FALSE)) /\ Elsewhere(AfterStore(p, proc[p].ok))
        <5>1. proc[p].ok \in BOOLEAN /\ proc[p].pc \in {"read", "save"}
          BY <2>1
        <5> HIDE DEF ProcStates, Elsewhere
        <5> QED BY <1>15, <5>1
      <4> QED BY <4>1, <4>2
    <3> QED BY <3>1, <3>2
  <2>4. t \in ProcStates /\ Elsewhere(t)
    <3>1. proc[p].ok \in BOOLEAN /\ FALSE \in BOOLEAN /\ proc[p].pc \in {"read", "save"}
      BY <2>1
    <3>2. AfterStore(p, FALSE) \in ProcStates /\ AfterStore(p, FALSE).pc # "write"
      BY <1>15, <3>1
    <3>3. AfterStore(p, proc[p].ok) \in ProcStates /\ AfterStore(p, proc[p].ok).pc # "write"
      BY <1>15, <3>1
    <3>4. LET u == Delivering("save", proc[p].n, proc[p].at, proc[p].ok)
          IN  u \in ProcStates /\ u.pc # "write"
      BY <2>1 DEF NoRow, Row, Rows
    <3> HIDE DEF ProcStates
    <3> QED BY <2>3, <3>2, <3>3, <3>4
  <2> QED BY <1>3, <1>8, <1>16, <2>2, <2>3, <2>4 DEF ReadStore
<1>17. ASSUME NEW p \in Procs, proc[p].pc = "save",
              Update(proc[p].at, events[proc[p].n].key, events[proc[p].n].row),
              events' = events, clock' = clock, copying' = copying,
              \A k \in Keys : Owner[k] \in up',
              \A q \in Procs : proc'[q] = proc[q] \/ Elsewhere(proc'[q])
       PROVE  IInv'
  <2> DEFINE e == events[proc[p].n]
             s == proc[p].at
  <2>1. /\ proc[p].n \in DOMAIN events /\ e.key \in Keys /\ s \in Stores /\ s # Owner[e.key]
    BY <1>0, <1>17, EventFields DEF TypeOK, ProcsOK, IsDelivering, IInv, SavesOK
  <2>2. IsOfAnEvent(e.key, e.row)
    BY <2>1 DEF IsOfAnEvent, EventsOf
  <2>3. /\ \A x \in Keys : row'[Owner[x]][x] = row[Owner[x]][x]
        /\ row'[s][e.key] = e.row
        /\ \A y \in Stores, x \in Keys : <<y, x>> # <<s, e.key>> => row'[y][x] = row[y][x]
    BY <1>0, <1>17, <2>1, UpdateElsewhere
  <2>4. \A y \in Stores, x \in Keys : row'[y][x] = row[y][x] \/ IsOfAnEvent(x, row'[y][x])
    <3> SUFFICES ASSUME NEW y \in Stores, NEW x \in Keys
                 PROVE  row'[y][x] = row[y][x] \/ IsOfAnEvent(x, row'[y][x])
      OBVIOUS
    <3>1. CASE y = s /\ x = e.key
      BY <2>2, <2>3, <3>1
    <3>2. CASE ~(y = s /\ x = e.key)
      BY <2>3, <3>2
    <3> QED BY <3>1, <3>2
  <2>5. SameEvents /\ ClockOK'
    BY <1>2, <1>3, <1>4, <1>17
  <2>6. \A c \in Copiers : copying'[c] \in {copying[c], NotCopying}
    BY <1>17
  <2>7. \A q \in Procs : \/ proc'[q] = proc[q] /\ (proc[q].pc = "write" => clock' >= clock)
                         \/ Elsewhere(proc'[q])
    BY <1>2, <1>17
  <2> QED BY <1>17, <2>3, <2>4, <2>5, <2>6, <2>7, Frame
<1>18. ASSUME NEW p \in Procs, SaveStore(p) PROVE IInv'
  <2>1. /\ proc[p] \in ProcStates /\ proc[p].pc = "save" /\ proc[p].ok \in BOOLEAN
    BY <1>0, <1>18 DEF SaveStore, TypeOK
  <2>2. /\ AfterStore(p, FALSE) \in ProcStates /\ Elsewhere(AfterStore(p, FALSE))
        /\ AfterStore(p, proc[p].ok) \in ProcStates /\ Elsewhere(AfterStore(p, proc[p].ok))
    <3> HIDE DEF ProcStates, Elsewhere
    <3> QED BY <1>15, <2>1
  <2>3. CASE proc[p].at \in up
    <3>1. proc' = [proc EXCEPT ![p] = AfterStore(p, proc[p].ok)]
      BY <1>18, <2>3 DEF SaveStore, Goto
    <3>2. \A q \in Procs : proc'[q] = proc[q] \/ Elsewhere(proc'[q])
      <4> HIDE DEF Elsewhere, ProcStates
      <4> QED BY <1>0, <2>2, <3>1, ProcUpdate
    <3> QED BY <1>1, <1>17, <1>18, <2>1, <2>3, <3>2 DEF SaveStore
  <2>4. CASE proc[p].at \notin up
    BY <1>3, <1>8, <1>18, <2>2, <2>4 DEF SaveStore, Goto, Failed
  <2> QED BY <2>3, <2>4
<1>19. ASSUME NEW p \in Procs, SaveUnanswered(p) PROVE IInv'
  <2>1. /\ proc[p] \in ProcStates /\ proc[p].pc = "save" /\ proc[p].at \in Fallible
        /\ up' = up \ {proc[p].at}
    BY <1>0, <1>19 DEF SaveUnanswered, TypeOK
  <2>2. Elsewhere(AfterStore(p, FALSE))
    BY <1>15, <2>1
  <2>3. \A q \in Procs : proc'[q] = proc[q] \/ Elsewhere(proc'[q])
    BY <1>19, <2>2, <1>7 DEF SaveUnanswered, Failed
  <2>4. \A k \in Keys : Owner[k] \in up'
    BY <1>1, <2>1
  <2> QED BY <1>17, <1>19, <2>1, <2>3, <2>4 DEF SaveUnanswered
<1>20. ASSUME NEW s \in Stores, GoDown(s) PROVE IInv'
  <2>1. \A q \in Procs : proc'[q] = proc[q] \/ Elsewhere(proc'[q])
    BY <1>7, <1>20 DEF GoDown
  <2>2. (\A k \in Keys : Owner[k] \in up') /\ UNCHANGED <<clock, row, events, copying>>
    BY <1>1, <1>20 DEF GoDown
  <2> QED BY <1>2, <1>3, <1>4, <2>1, <2>2, Frame
<1>21. ASSUME NEW s \in Stores, ComeBack(s) PROVE IInv'
  BY <1>1, <1>2, <1>3, <1>4, <1>21, Frame DEF ComeBack
<1>22. ASSUME NEW c \in Copiers, NEW k \in Keys, NEW s \in Stores, CopyRead(c, k, s) PROVE IInv'
  <2>1. PICK r : /\ copying' = [copying EXCEPT ![c] = [key |-> k, to |-> s, row |-> r]]
                 /\ r \in {row["AM"][k], row["EU"][k], row[Owner[k]][k]}
    BY <1>22 DEF CopyRead
  <2>2. s # Owner[k]
    BY <1>22 DEF CopyRead
  <2>3. r \in Rows /\ IsOfAnEvent(k, r)
    BY <1>0, <2>1 DEF TypeOK, IInv, RowsOK
  <2>4. copying'[c] = [key |-> k, to |-> s, row |-> r] /\ \A x \in Copiers : x # c => copying'[x] = copying[x]
    BY <1>0, <2>1 DEF TypeOK
  <2> QED BY <1>1, <1>2, <1>3, <1>4, <1>22, <2>2, <2>3, <2>4, Frame DEF CopyRead
<1>23. ASSUME NEW c \in Copiers, CopyInsert(c) PROVE IInv'
  <2> DEFINE k == copying[c].key
             s == copying[c].to
  <2>1. /\ k \in Keys /\ s \in Stores /\ s # Owner[k] /\ IsOfAnEvent(k, copying[c].row)
    BY <1>0, <1>23 DEF CopyInsert, IInv, CopiesOK, TypeOK, Copies
  <2>2. \A x \in Copiers : copying'[x] \in {copying[x], NotCopying}
    BY <1>0, <1>23 DEF CopyInsert, TypeOK
  <2>3. /\ \A x \in Keys : row'[Owner[x]][x] = row[Owner[x]][x]
        /\ \A y \in Stores, x \in Keys : row'[y][x] = row[y][x] \/ IsOfAnEvent(x, row'[y][x])
    <3>1. CASE Update(s, k, copying[c].row)
      BY <1>0, <2>1, <3>1, UpdateElsewhere
    <3>2. CASE UNCHANGED row
      BY <3>2
    <3> QED BY <1>23, <3>1, <3>2 DEF CopyInsert
  <2> QED BY <1>1, <1>2, <1>3, <1>4, <1>23, <2>2, <2>3, Frame DEF CopyInsert
<1>24. CASE Restart
  <2>1. UNCHANGED <<up, row, events>>
    BY <1>24 DEF Restart
  <2>2. ClockOK'
    <3>1. \A n \in DOMAIN events : events[n].db \in up
      BY <1>0, <1>1, EventFields DEF IInv, OwnersOK
    <3> QED BY <1>24, <2>1, <3>1, LatestIsMax DEF Restart, ClockOK
  <2>3. \A q \in Procs : Elsewhere(proc'[q])
    BY <1>24, <1>7 DEF Restart
  <2>4. \A x \in Copiers : copying'[x] = NotCopying
    BY <1>24 DEF Restart
  <2> QED BY <1>1, <1>3, <2>1, <2>2, <2>3, <2>4, Frame
<1>25. CASE UNCHANGED vars
  BY <1>1, <1>2, <1>3, <1>4, <1>25, Frame DEF vars
<1> QED BY <1>5, <1>6, <1>10, <1>11, <1>12, <1>13, <1>14, <1>16, <1>18, <1>19, <1>20, <1>21,
           <1>22, <1>23, <1>24, <1>25 DEF Next, Deliver

(***************************************************************************)
(* Without confirmations an event is delivered by its owner's worker       *)
(* alone: what it saves on a store is later than what it found there.      *)
(***************************************************************************)
WorkersOnly ==
  /\ \A h \in Handlers : ~IsDelivering(h)
  /\ \A d \in Workers : IsDelivering(d) => events[proc[d].n].db = d

(* The stores a delivery has been at. *)
Passed(t) ==
  IF t.pc \in {"mark", "answer"} THEN Stores
  ELSE IF t.at = "AM" THEN {} ELSE IF t.at = "EU" THEN {"AM"} ELSE PGs

PassedHaveIt ==
  \A d \in Workers : IsDelivering(d) /\ proc[d].ok =>
    \A s \in Passed(proc[d]) : proc[d].n \in row[s][events[proc[d].n].key].writes

(* What a worker is about to save has every delivered write of the row. *)
SavesKnowDelivered ==
  \A d \in Workers : proc[d].pc = "save" =>
    \A m \in EventsOf(events[proc[d].n].key) :
      events[m].state = "delivered" => m \in events[proc[d].n].row.writes

DInv == WorkersOnly /\ PassedHaveIt /\ SavesKnowDelivered /\ DeliveredIsEverywhere

(* The types and what both invariants rest on. *)
LEMMA SpecIInv ==
  ASSUME OwnersStayUp
  PROVE  Spec => [](TInv /\ IInv)
<1>1. Init => TInv /\ IInv
  BY InitTInv, InitIInv
<1>2. TInv /\ IInv /\ [Next]_vars => (TInv /\ IInv)'
  BY NextTInv, NextIInv
<1> QED BY <1>1, <1>2, PTL DEF Spec

(* A write never gets a clock that is not later than the row it replaces,  *)
(* also after a restart, as long as the owners stay up (RestoreClocks).    *)
THEOREM ClocksAdvance ==
  ASSUME OwnersStayUp
  PROVE  Spec => []WritesAdvanceTheClock
<1>1. IInv => WritesAdvanceTheClock
  BY DEF IInv, WritersOK, WriterOK, OwnRow, WritesAdvanceTheClock
<1> QED BY SpecIInv, <1>1, PTL

(* Every event has the writes that were committed before it, as long as    *)
(* the owners stay up (the locks of the handlers on the owner's row).      *)
THEOREM WritesAreKept ==
  ASSUME OwnersStayUp
  PROVE  Spec => []NoWriteIsLost
<1>1. TInv /\ IInv => NoWriteIsLost
  <2> SUFFICES ASSUME TInv, IInv, NEW n \in DOMAIN events, NEW m \in 1 .. n - 1,
                      events[m].key = events[n].key
               PROVE  m \in events[n].row.writes
    BY DEF NoWriteIsLost
  <2>1. n \in Nat
    BY EventsDomain DEF TInv
  <2>2. m \in 1 .. n
    BY <2>1
  <2> QED BY <2>2 DEF IInv, EventsOK
<1> QED BY SpecIInv, <1>1, PTL

LEMMA InitDInv == Init => DInv
BY ReplicationAssumption
   DEF Init, DInv, WorkersOnly, IsDelivering, PassedHaveIt, SavesKnowDelivered, DeliveredIsEverywhere

(* A step that takes no write of a delivered event away, changes only the  *)
(* goroutines of handlers and lets workers stop keeps the invariant.       *)
LEMMA DeliveryFrame ==
  ASSUME TInv, TInv', DInv,
         DOMAIN events \subseteq DOMAIN events',
         \A n \in DOMAIN events : /\ events'[n].key = events[n].key /\ events'[n].db = events[n].db
                                  /\ events'[n].row = events[n].row
                                  /\ events'[n].state = "delivered" => events[n].state = "delivered",
         \A n \in DOMAIN events' : n \notin DOMAIN events => events'[n].state # "delivered",
         \A s \in Stores, k \in Keys : row[s][k].writes \subseteq row'[s][k].writes,
         \A h \in Handlers : proc'[h].pc \notin {"read", "save", "mark", "answer"},
         \A d \in Workers : proc'[d] = proc[d] \/ proc'[d].pc \notin {"read", "save", "mark", "answer"}
  PROVE  DInv'
<1>1. WorkersOnly'
  <2>1. \A d \in Workers : IsDelivering(d)' => proc'[d] = proc[d] /\ IsDelivering(d) /\ proc[d].n \in DOMAIN events
    BY DEF TInv, ProcsOK, IsDelivering
  <2>2. \A h \in Handlers : ~IsDelivering(h)'
    BY DEF IsDelivering
  <2> QED BY <2>1, <2>2 DEF DInv, WorkersOnly
<1>2. PassedHaveIt'
  <2> SUFFICES ASSUME NEW d \in Workers, IsDelivering(d)', proc'[d].ok, NEW s \in Passed(proc[d])'
               PROVE  proc'[d].n \in row'[s][events'[proc'[d].n].key].writes
    BY DEF PassedHaveIt
  <2>1. proc'[d] = proc[d] /\ IsDelivering(d) /\ proc[d].n \in DOMAIN events /\ s \in Passed(proc[d])
    BY DEF TInv, ProcsOK, IsDelivering, Passed
  <2>2. s \in Stores
    BY <2>1 DEF Passed
  <2>3. events[proc[d].n].key \in Keys
    BY <2>1, EventFields DEF TInv
  <2> QED BY <2>1, <2>2, <2>3 DEF DInv, PassedHaveIt
<1>3. SavesKnowDelivered'
  <2> SUFFICES ASSUME NEW d \in Workers, proc'[d].pc = "save",
                      NEW m \in DOMAIN events', events'[m].key = events'[proc'[d].n].key,
                      events'[m].state = "delivered"
               PROVE  m \in events'[proc'[d].n].row.writes
    BY DEF SavesKnowDelivered, EventsOf
  <2>1. proc'[d] = proc[d] /\ proc[d].n \in DOMAIN events
    BY DEF TInv, ProcsOK, IsDelivering
  <2>2. m \in DOMAIN events
    OBVIOUS
  <2>3. m \in EventsOf(events[proc[d].n].key) /\ events[m].state = "delivered"
    BY <2>1, <2>2 DEF EventsOf
  <2> QED BY <2>1, <2>3 DEF DInv, SavesKnowDelivered
<1>4. DeliveredIsEverywhere'
  <2> SUFFICES ASSUME NEW n \in DOMAIN events', events'[n].state = "delivered", NEW s \in Stores
               PROVE  n \in row'[s][events'[n].key].writes
    BY DEF DeliveredIsEverywhere
  <2>1. n \in DOMAIN events /\ events[n].state = "delivered" /\ events[n].key \in Keys
    BY EventFields DEF TInv
  <2> QED BY <2>1 DEF DInv, DeliveredIsEverywhere
<1> QED BY <1>1, <1>2, <1>3, <1>4 DEF DInv

(* What store s has of the row of event n, when it is not older than n,    *)
(* has the writes of n; when it is older, n has its writes.                *)
LEMMA WritesAreOrdered ==
  ASSUME TInv, IInv, NEW n \in DOMAIN events, NEW s \in Stores
  PROVE  LET r == row[s][events[n].key]
         IN  /\ MayReject(events[n].row, r) => n \in r.writes
             /\ MayApply(events[n].row, r) => r.writes \subseteq events[n].row.writes
<1> DEFINE k == events[n].key
           r == row[s][k]
<1>1. k \in Keys /\ r \in Rows /\ events[n].row \in Rows /\ n \in Nat /\ n > 0
  BY EventFields, EventsDomain DEF TInv, TypeOK
<1>2. events[n].row.v > 0 /\ events[n].row.v \in Nat /\ events[n].row.writes = {m \in 1 .. n : events[m].key = k}
  BY <1>1 DEF IInv, EventsOK, Rows
<1>3. CASE r = NoRow
  BY <1>2, <1>3 DEF MayReject, NoRow, Row
<1>4. CASE r # NoRow
  <2>1. PICK m \in EventsOf(k) : r = events[m].row
    BY <1>1, <1>4 DEF IInv, RowsOK, IsOfAnEvent
  <2>2. m \in DOMAIN events /\ events[m].key = k /\ m \in Nat /\ m > 0
    BY <2>1, EventsDomain DEF EventsOf, TInv
  <2>3. r.v \in Nat /\ r.writes = {x \in 1 .. m : events[x].key = k}
    BY <1>1, <2>1, <2>2 DEF IInv, EventsOK, Rows
  <2>4. n < m => events[n].row.v < r.v
    BY <1>1, <2>1, <2>2 DEF IInv, EventsOK
  <2>5. m < n => r.v < events[n].row.v
    BY <1>1, <2>1, <2>2 DEF IInv, EventsOK
  <2>6. CASE m < n
    BY <1>1, <1>2, <2>2, <2>3, <2>5, <2>6 DEF MayReject
  <2>7. CASE n <= m
    <3>1. n \in r.writes
      BY <1>1, <2>2, <2>3, <2>7
    <3>2. ~MayApply(events[n].row, r)
      <4>1. CASE n = m
        BY <1>2, <2>1, <4>1 DEF MayApply
      <4>2. CASE n # m
        BY <1>1, <1>2, <2>2, <2>3, <2>4, <2>7, <4>2 DEF MayApply
      <4> QED BY <4>1, <4>2
    <3> QED BY <3>1, <3>2
  <2> QED BY <1>1, <2>2, <2>6, <2>7
<1> QED BY <1>3, <1>4

(* Two workers deliver events of different rows. *)
LEMMA OneDelivererPerRow ==
  ASSUME TInv, IInv, WorkersOnly, NEW d \in Workers, NEW q \in Workers, q # d,
         IsDelivering(d), IsDelivering(q)
  PROVE  events[proc[q].n].key # events[proc[d].n].key
BY DEF TInv, ProcsOK, IInv, OwnersOK, WorkersOnly

(* A step of a delivery, from one store to the next or to its save. *)
LEMMA DeliveryStep ==
  ASSUME TInv, TInv', IInv, DInv, events' = events,
         NEW d \in Workers, NEW n, NEW k, n = proc[d].n, k = events[n].key,
         IsDelivering(d), IsDelivering(d)', proc'[d].n = n,
         \A s \in Stores, x \in Keys :
            row'[s][x] = row[s][x] \/ (x = k /\ proc[d].pc = "save" /\ row'[s][x] = events[n].row),
         proc'[d].ok => proc[d].ok /\ \A s \in Passed(proc[d])' : s \notin Passed(proc[d]) =>
                                         n \in row'[s][k].writes,
         proc'[d].pc = "save" => \A m \in EventsOf(k) :
            events[m].state = "delivered" => m \in events[n].row.writes,
         \A h \in Handlers : proc'[h].pc \notin {"read", "save", "mark", "answer"},
         \A q \in Workers : q # d =>
            proc'[q] = proc[q] \/ proc'[q].pc \notin {"read", "save", "mark", "answer"}
  PROVE  DInv'
<1>1. n \in DOMAIN events /\ k \in Keys /\ n \in events[n].row.writes
  <2>1. n \in DOMAIN events
    BY DEF TInv, ProcsOK
  <2>2. n \in Nat /\ n > 0
    BY <2>1, EventsDomain DEF TInv
  <2> QED BY <2>1, <2>2, EventFields DEF TInv, IInv, EventsOK
<1>2. ASSUME NEW q \in Workers, q # d, IsDelivering(q)'
      PROVE  proc'[q] = proc[q] /\ IsDelivering(q) /\ proc[q].n \in DOMAIN events
             /\ events[proc[q].n].key \in Keys /\ events[proc[q].n].key # k
  <2>1. proc'[q] = proc[q] /\ IsDelivering(q) /\ proc[q].n \in DOMAIN events
    BY <1>2 DEF TInv, ProcsOK, IsDelivering
  <2>2. events[proc[q].n].key # k
    BY <1>2, <2>1, OneDelivererPerRow DEF DInv
  <2> QED BY <2>1, <2>2, EventFields DEF TInv
<1>3. WorkersOnly'
  <2>1. \A h \in Handlers : ~IsDelivering(h)'
    BY DEF IsDelivering
  <2> QED BY <1>2, <2>1 DEF DInv, WorkersOnly
<1>4. PassedHaveIt'
  <2> SUFFICES ASSUME NEW q \in Workers, IsDelivering(q)', proc'[q].ok, NEW s \in Passed(proc[q])'
               PROVE  proc'[q].n \in row'[s][events'[proc'[q].n].key].writes
    BY DEF PassedHaveIt
  <2>1. s \in Stores
    BY DEF Passed
  <2>2. CASE q = d
    <3>1. CASE s \in Passed(proc[d])
      <4>1. n \in row[s][k].writes
        BY <2>2, <3>1 DEF DInv, PassedHaveIt
      <4>2. row'[s][k] = row[s][k] \/ row'[s][k] = events[n].row
        BY <1>1, <2>1
      <4>3. n \in row'[s][k].writes
        BY <1>1, <4>1, <4>2
      <4> QED BY <2>2, <4>3
    <3>2. CASE s \notin Passed(proc[d])
      BY <2>2, <3>2
    <3> QED BY <3>1, <3>2
  <2>3. CASE q # d
    <3>1. /\ proc'[q] = proc[q] /\ IsDelivering(q) /\ s \in Passed(proc[q])
          /\ events[proc[q].n].key \in Keys /\ events[proc[q].n].key # k
      BY <1>2, <2>3 DEF Passed
    <3>2. proc[q].n \in row[s][events[proc[q].n].key].writes
      BY <3>1 DEF DInv, PassedHaveIt
    <3>3. row'[s][events[proc[q].n].key] = row[s][events[proc[q].n].key]
      BY <2>1, <3>1
    <3> QED BY <3>1, <3>2, <3>3
  <2> QED BY <2>2, <2>3
<1>5. SavesKnowDelivered'
  <2> SUFFICES ASSUME NEW q \in Workers, proc'[q].pc = "save",
                      NEW m \in DOMAIN events, events[m].key = events[proc'[q].n].key,
                      events[m].state = "delivered"
               PROVE  m \in events[proc'[q].n].row.writes
    BY DEF SavesKnowDelivered, EventsOf
  <2>1. CASE q = d
    BY <2>1 DEF EventsOf
  <2>2. CASE q # d
    <3>1. proc'[q] = proc[q]
      BY <1>2, <2>2 DEF IsDelivering
    <3>2. m \in EventsOf(events[proc[q].n].key)
      BY <3>1 DEF EventsOf
    <3> QED BY <3>1, <3>2 DEF DInv, SavesKnowDelivered
  <2> QED BY <2>1, <2>2
<1>6. DeliveredIsEverywhere'
  <2> SUFFICES ASSUME NEW m \in DOMAIN events, events[m].state = "delivered", NEW s \in Stores
               PROVE  m \in row'[s][events[m].key].writes
    BY DEF DeliveredIsEverywhere
  <2>1. events[m].key \in Keys /\ m \in row[s][events[m].key].writes
    BY EventFields DEF TInv, DInv, DeliveredIsEverywhere
  <2>2. CASE row'[s][events[m].key] = row[s][events[m].key]
    BY <2>1, <2>2
  <2>3. CASE row'[s][events[m].key] # row[s][events[m].key]
    <3>1. events[m].key = k /\ proc[d].pc = "save" /\ row'[s][k] = events[n].row
      BY <2>1, <2>3
    <3>2. m \in EventsOf(k)
      BY <3>1 DEF EventsOf
    <3> QED BY <3>1, <3>2 DEF DInv, SavesKnowDelivered
  <2> QED BY <2>2, <2>3
<1> QED BY <1>3, <1>4, <1>5, <1>6 DEF DInv

LEMMA NextDInv ==
  ASSUME Tickets = {}, TInv, TInv', IInv, IInv', DInv, [Next]_vars
  PROVE  DInv'
<1> USE ReplicationAssumption, OwnerIsStore
<1>0. TypeOK /\ TypeOK' /\ ProcsOK
  BY DEF TInv
<1> DEFINE Busy(t) == t.pc \in {"read", "save", "mark", "answer"}
<1>1. \A h \in Handlers : ~Busy(proc[h])
  BY DEF DInv, WorkersOnly, IsDelivering
<1>2. ASSUME events' = events, UNCHANGED row,
             \A p \in Procs : proc'[p] = proc[p] \/ ~Busy(proc'[p])
      PROVE  DInv'
  <2>1. /\ \A h \in Handlers : ~Busy(proc'[h])
        /\ \A d \in Workers : proc'[d] = proc[d] \/ ~Busy(proc'[d])
    BY <1>1, <1>2
  <2> QED BY <1>2, <2>1, DeliveryFrame
<1>3. ~Busy(Idle)
  OBVIOUS
<1>4. ASSUME NEW h \in Handlers, NEW k \in Keys, NEW d \in PGs, Begin(h, k, d) PROVE DInv'
  <2>1. \A p \in Procs : proc'[p] = proc[p] \/ ~Busy(proc'[p])
    BY <1>0, <1>4 DEF Begin, Goto, TypeOK
  <2> QED BY <1>2, <1>4, <2>1 DEF Begin
<1>5. ASSUME NEW h \in Handlers, Commit(h) PROVE DInv'
  <2>a. PICK k : k = proc[h].key
    OBVIOUS
  <2>b. PICK d : d = proc[h].db
    OBVIOUS
  <2>c. PICK n : n = Len(events) + 1
    OBVIOUS
  <2>d. PICK r : r = Row(proc[h].row.v, proc[h].row.writes \union {n})
    OBVIOUS
  <2>0. /\ k = proc[h].key /\ d = proc[h].db /\ n = Len(events) + 1
        /\ r = Row(proc[h].row.v, proc[h].row.writes \union {n})
    BY <2>a, <2>b, <2>c, <2>d
  <2>1. /\ proc[h] \in ProcStates /\ proc[h].pc = "write" /\ k \in Keys /\ d \in Stores
        /\ r.writes = row[d][k].writes \union {n} /\ n \in Nat \ {0} /\ r \in Rows
    <3>1. proc[h] \in ProcStates /\ proc[h].pc = "write" /\ k \in Keys
      BY <1>0, <1>5, <2>0 DEF Commit, TypeOK, ProcsOK
    <3>2. d = Owner[k] /\ proc[h].row.writes = row[d][k].writes
      <4>1. WriterOK(proc[h])
        BY DEF IInv, WritersOK
      <4> QED BY <2>0, <3>1, <4>1 DEF WriterOK, OwnRow
    <3>3. n \in Nat \ {0}
      BY <1>0, <2>0, EventsDomain
    <3> QED BY <2>0, <3>1, <3>2, <3>3 DEF Row, Rows
  <2>2. /\ Event(k, d, r, "new") \in Events /\ Event(k, d, r, "new").state = "new"
        /\ events' = Append(events, Event(k, d, r, "new"))
    BY <1>5, <2>0, <2>1 DEF Commit, Event, Events, EventStates
  <2>3. /\ DOMAIN events' = DOMAIN events \union {n}
        /\ events'[n].state # "delivered"
        /\ \A m \in DOMAIN events : events'[m] = events[m]
    <3> HIDE DEF Event
    <3> QED BY <1>0, <2>0, <2>2, AppendKeeps
  <2>4. \A p \in Procs : proc'[p] = proc[p] \/ ~Busy(proc'[p])
    <3>1. proc' = [proc EXCEPT ![h] = Idle]
      BY <1>5 DEF Commit, Goto
    <3> QED BY <1>0, <3>1 DEF TypeOK
  <2>5. \A s \in Stores, x \in Keys : row[s][x].writes \subseteq row'[s][x].writes
    <3>1. Update(d, k, r)
      BY <1>5, <2>0 DEF Commit
    <3>2. \A s \in Stores, x \in Keys : row'[s][x] = row[s][x] \/ (s = d /\ x = k /\ row'[s][x] = r)
      BY <1>0, <2>1, <3>1 DEF Update, TypeOK
    <3> QED BY <2>1, <3>2
  <2>6. /\ \A x \in Handlers : ~Busy(proc'[x])
        /\ \A x \in Workers : proc'[x] = proc[x] \/ ~Busy(proc'[x])
    BY <1>1, <2>4
  <2> QED BY <2>3, <2>5, <2>6, DeliveryFrame
<1>6. ASSUME NEW h \in Handlers, Rollback(h) PROVE DInv'
  <2>1. \A p \in Procs : proc'[p] = proc[p] \/ ~Busy(proc'[p])
    BY <1>0, <1>6 DEF Rollback, Goto, TypeOK
  <2> QED BY <1>2, <1>6, <2>1 DEF Rollback
<1>7. ASSUME NEW h \in Handlers, Answer(h) PROVE DInv'
  BY <1>1, <1>7 DEF Answer
<1>8. ASSUME NEW n \in DOMAIN events, LeaseExpires(n) PROVE DInv'
  <2>1. /\ SameEvents /\ events'[n].state = "retry"
        /\ \A m \in DOMAIN events : m # n => events'[m] = events[m]
    BY <1>0, <1>8, SetStateKeeps DEF LeaseExpires, EventStates
  <2> QED BY <1>1, <1>8, <2>1, DeliveryFrame DEF LeaseExpires, SameEvents
<1>9. ASSUME NEW d \in Workers, NEW n \in DOMAIN events, Claim(d, n) PROVE DInv'
  <2>1. /\ SameEvents /\ events'[n].state = "leased"
        /\ \A m \in DOMAIN events : m # n => events'[m] = events[m]
    BY <1>0, <1>9, SetStateKeeps DEF Claim, EventStates
  <2>2. /\ proc'[d] = Delivering("read", n, "AM", TRUE)
        /\ \A q \in Procs : q # d => proc'[q] = proc[q]
        /\ UNCHANGED row /\ events[n].db = d
    BY <1>0, <1>9 DEF Claim, Claimable, Goto, TypeOK
  <2>3. WorkersOnly'
    <3>1. \A q \in Workers : q # d /\ IsDelivering(q) => proc[q].n \in DOMAIN events
      BY <1>0 DEF ProcsOK
    <3>2. \A h \in Handlers : h # d /\ h \in Procs
      OBVIOUS
    <3>3. \A h \in Handlers : ~IsDelivering(h)'
      BY <1>1, <2>2, <3>2 DEF IsDelivering
    <3>4. ASSUME NEW q \in Workers, IsDelivering(q)' PROVE events'[proc'[q].n].db = q
      <4>1. CASE q = d
        BY <2>1, <2>2, <4>1 DEF SameEvents
      <4>2. CASE q # d
        BY <2>1, <2>2, <3>1, <3>4, <4>2 DEF DInv, WorkersOnly, IsDelivering, SameEvents
      <4> QED BY <4>1, <4>2
    <3> QED BY <3>3, <3>4 DEF WorkersOnly
  <2>4. PassedHaveIt'
    <3> SUFFICES ASSUME NEW q \in Workers, IsDelivering(q)', proc'[q].ok, NEW s \in Passed(proc[q])'
                 PROVE  proc'[q].n \in row'[s][events'[proc'[q].n].key].writes
      BY DEF PassedHaveIt
    <3>1. q # d
      BY <2>2 DEF Passed
    <3>2. proc'[q] = proc[q] /\ IsDelivering(q) /\ proc[q].n \in DOMAIN events /\ s \in Passed(proc[q])
      BY <1>0, <2>2, <3>1 DEF ProcsOK, IsDelivering, Passed
    <3> QED BY <2>1, <2>2, <3>2 DEF DInv, PassedHaveIt, SameEvents
  <2>5. SavesKnowDelivered'
    <3> SUFFICES ASSUME NEW q \in Workers, proc'[q].pc = "save",
                        NEW m \in DOMAIN events', events'[m].key = events'[proc'[q].n].key,
                        events'[m].state = "delivered"
                 PROVE  m \in events'[proc'[q].n].row.writes
      BY DEF SavesKnowDelivered, EventsOf
    <3>1. q # d
      BY <2>2
    <3>2. proc'[q] = proc[q] /\ proc[q].n \in DOMAIN events
      BY <1>0, <2>2, <3>1 DEF ProcsOK, IsDelivering
    <3>3. m \in EventsOf(events[proc[q].n].key) /\ events[m].state = "delivered"
      BY <2>1, <3>2 DEF EventsOf, SameEvents
    <3> QED BY <2>1, <3>2, <3>3 DEF DInv, SavesKnowDelivered, SameEvents
  <2>6. DeliveredIsEverywhere'
    BY <2>1, <2>2 DEF DInv, DeliveredIsEverywhere, SameEvents
  <2> QED BY <2>3, <2>4, <2>5, <2>6 DEF DInv
<1>10. ASSUME NEW d \in Workers, Mark(d) PROVE DInv'
  <2>1. PICK n : n = proc[d].n
    OBVIOUS
  <2>2. n \in DOMAIN events /\ IsDelivering(d) /\ proc[d].pc = "mark"
    BY <1>0, <1>10, <2>1 DEF Mark, ProcsOK, IsDelivering
  <2>3. /\ SameEvents
        /\ \A m \in DOMAIN events : m # n => events'[m] = events[m]
        /\ events'[n].state = "delivered" => proc[d].ok \/ events[n].state = "delivered"
    <3>1. CASE d \in up
      BY <1>0, <1>10, <2>1, <2>2, <3>1, SetStateKeeps DEF Mark, EventStates
    <3>2. CASE d \notin up
      BY <1>10, <3>2 DEF Mark, SameEvents
    <3> QED BY <3>1, <3>2
  <2>4. /\ ~Busy(proc'[d]) /\ \A q \in Procs : q # d => proc'[q] = proc[q]
        /\ UNCHANGED row
    BY <1>0, <1>10 DEF Mark, Goto, TypeOK
  <2>5. proc[d].ok => \A s \in Stores : n \in row[s][events[n].key].writes
    BY <2>1, <2>2 DEF DInv, PassedHaveIt, Passed
  <2>6. ASSUME NEW q \in Workers, IsDelivering(q)'
        PROVE  /\ proc'[q] = proc[q] /\ IsDelivering(q) /\ proc[q].n \in DOMAIN events
               /\ events[proc[q].n].key # events[n].key
    <3>1. q # d
      BY <2>4, <2>6 DEF IsDelivering
    <3>2. proc'[q] = proc[q] /\ IsDelivering(q) /\ proc[q].n \in DOMAIN events
      BY <1>0, <2>4, <2>6, <3>1 DEF ProcsOK, IsDelivering
    <3> QED BY <2>1, <2>2, <3>1, <3>2, OneDelivererPerRow DEF DInv
  <2>7. WorkersOnly'
    <3>1. \A h \in Handlers : ~IsDelivering(h)'
      BY <1>0, <1>1, <2>4 DEF IsDelivering
    <3> QED BY <2>3, <2>6, <3>1 DEF DInv, WorkersOnly, SameEvents
  <2>8. PassedHaveIt'
    <3> SUFFICES ASSUME NEW q \in Workers, IsDelivering(q)', proc'[q].ok, NEW s \in Passed(proc[q])'
                 PROVE  proc'[q].n \in row'[s][events'[proc'[q].n].key].writes
      BY DEF PassedHaveIt
    <3>1. s \in Passed(proc[q])
      BY <2>6 DEF Passed
    <3> QED BY <2>3, <2>4, <2>6, <3>1 DEF DInv, PassedHaveIt, SameEvents
  <2>9. SavesKnowDelivered'
    <3> SUFFICES ASSUME NEW q \in Workers, proc'[q].pc = "save",
                        NEW m \in DOMAIN events', events'[m].key = events'[proc'[q].n].key,
                        events'[m].state = "delivered"
                 PROVE  m \in events'[proc'[q].n].row.writes
      BY DEF SavesKnowDelivered, EventsOf
    <3>1. /\ proc'[q] = proc[q] /\ proc[q].n \in DOMAIN events
          /\ events[proc[q].n].key # events[n].key
      BY <2>6 DEF IsDelivering
    <3>2. m # n /\ m \in EventsOf(events[proc[q].n].key) /\ events[m].state = "delivered"
      BY <2>3, <3>1 DEF EventsOf, SameEvents
    <3> QED BY <2>3, <3>1, <3>2 DEF DInv, SavesKnowDelivered, SameEvents
  <2>10. DeliveredIsEverywhere'
    <3> SUFFICES ASSUME NEW m \in DOMAIN events, events'[m].state = "delivered", NEW s \in Stores
                 PROVE  m \in row[s][events[m].key].writes
      BY <2>3, <2>4 DEF DeliveredIsEverywhere, SameEvents
    <3>1. CASE events[m].state = "delivered"
      BY <3>1 DEF DInv, DeliveredIsEverywhere
    <3>2. CASE events[m].state # "delivered"
      BY <2>3, <2>5, <3>2
    <3> QED BY <3>1, <3>2
  <2> QED BY <2>7, <2>8, <2>9, <2>10 DEF DInv
<1>11. ASSUME NEW p \in Procs, proc[p].pc \in {"read", "save"}
       PROVE  /\ p \in Workers /\ IsDelivering(p)
              /\ proc[p].at \in Stores /\ proc[p].n \in DOMAIN events
              /\ \A ok \in BOOLEAN : LET t == AfterStore(p, ok)
                                     IN  /\ Busy(t) /\ t.n = proc[p].n /\ t.ok = ok /\ t.pc # "save"
                                         /\ Passed(t) \subseteq Passed(proc[p]) \union {proc[p].at}
  <2>1. p \in Workers /\ IsDelivering(p) /\ proc[p] \in ProcStates
    BY <1>0, <1>1, <1>11 DEF IsDelivering, TypeOK
  <2>2. proc[p].n \in DOMAIN events
    BY <1>0, <2>1 DEF ProcsOK
  <2> QED BY <1>11, <2>1, <2>2 DEF AfterStore, Passed
<1>12. ASSUME NEW p \in Procs, ReadStore(p) PROVE DInv'
  <2>1. PICK n : n = proc[p].n
    OBVIOUS
  <2>2. PICK k : k = events[n].key
    OBVIOUS
  <2>3. PICK s : s = proc[p].at
    OBVIOUS
  <2>4. PICK r : r = row[s][k]
    OBVIOUS
  <2>5. /\ proc[p].pc = "read" /\ p \in Workers /\ IsDelivering(p) /\ proc[p].ok \in BOOLEAN
        /\ s \in Stores /\ n \in DOMAIN events
    BY <1>0, <1>11, <1>12, <2>1, <2>3 DEF ReadStore, TypeOK
  <2>6. UNCHANGED <<row, events>>
    BY <1>12 DEF ReadStore
  <2>7. PICK t : /\ proc' = [proc EXCEPT ![p] = t]
                 /\ \/ t = AfterStore(p, FALSE)
                    \/ t = AfterStore(p, proc[p].ok) /\ MayReject(events[n].row, r)
                    \/ t = Delivering("save", n, s, proc[p].ok) /\ MayApply(events[n].row, r)
    <3>1. CASE s \notin up /\ proc' = [proc EXCEPT ![p] = AfterStore(p, FALSE)]
      BY <3>1
    <3>2. CASE /\ MayApply(events[n].row, r)
               /\ proc' = [proc EXCEPT ![p] = Delivering("save", n, s, proc[p].ok)]
      BY <3>2
    <3>3. CASE /\ MayReject(events[n].row, r)
               /\ proc' = [proc EXCEPT ![p] = AfterStore(p, proc[p].ok)]
      BY <3>3
    <3> HIDE DEF AfterStore, MayApply, MayReject, Delivering
    <3>4. \/ s \notin up /\ proc' = [proc EXCEPT ![p] = AfterStore(p, FALSE)]
          \/ /\ MayApply(events[n].row, r)
             /\ proc' = [proc EXCEPT ![p] = Delivering("save", n, s, proc[p].ok)]
          \/ /\ MayReject(events[n].row, r)
             /\ proc' = [proc EXCEPT ![p] = AfterStore(p, proc[p].ok)]
      BY <1>12, <2>1, <2>2, <2>3, <2>4 DEF ReadStore, Goto, Failed
    <3> QED BY <3>1, <3>2, <3>3, <3>4
  <2>8. proc'[p] = t /\ \A q \in Procs : q # p => proc'[q] = proc[q]
    BY <1>0, <2>7 DEF TypeOK
  <2>9. /\ MayReject(events[n].row, r) => n \in r.writes
        /\ MayApply(events[n].row, r) => r.writes \subseteq events[n].row.writes
    BY <2>2, <2>4, <2>5, WritesAreOrdered
  <2>10. \A m \in EventsOf(k) : events[m].state = "delivered" => m \in r.writes
    BY <2>4, <2>5 DEF DInv, DeliveredIsEverywhere, EventsOf
  <2>11. /\ Busy(t) /\ t.n = n
         /\ t.ok => proc[p].ok /\ \A x \in Passed(t) : x \notin Passed(proc[p]) => n \in row[x][k].writes
         /\ t.pc = "save" => \A m \in EventsOf(k) : events[m].state = "delivered" => m \in events[n].row.writes
    <3>1. CASE t = AfterStore(p, FALSE)
      BY <1>11, <2>1, <2>5, <3>1
    <3>2. CASE t = AfterStore(p, proc[p].ok) /\ MayReject(events[n].row, r)
      BY <1>11, <2>1, <2>3, <2>4, <2>5, <2>9, <3>2
    <3>3. CASE t = Delivering("save", n, s, proc[p].ok) /\ MayApply(events[n].row, r)
      BY <2>3, <2>5, <2>9, <2>10, <3>3 DEF Passed
    <3> QED BY <2>7, <3>1, <3>2, <3>3
  <2>12. Passed(proc[p])' = Passed(t)
    BY <2>8 DEF Passed
  <2>13. IsDelivering(p)' /\ proc'[p].n = n
    BY <2>8, <2>11 DEF IsDelivering
  <2>14. /\ \A h \in Handlers : ~Busy(proc'[h])
         /\ \A q \in Workers : q # p => proc'[q] = proc[q]
    <3>1. \A h \in Handlers : h # p
      BY <2>5
    <3> QED BY <1>1, <2>8, <3>1
  <2> QED BY <2>1, <2>2, <2>5, <2>6, <2>8, <2>11, <2>12, <2>13, <2>14, DeliveryStep
<1>13. ASSUME NEW p \in Procs, proc[p].pc = "save", events' = events,
              Update(proc[p].at, events[proc[p].n].key, events[proc[p].n].row),
              NEW ok \in {FALSE, proc[p].ok}, proc'[p] = AfterStore(p, ok),
              \A q \in Procs : q # p => proc'[q] = proc[q] \/ ~Busy(proc'[q])
       PROVE  DInv'
  <2>1. PICK n : n = proc[p].n
    OBVIOUS
  <2>2. PICK k : k = events[n].key
    OBVIOUS
  <2>3. PICK s : s = proc[p].at
    OBVIOUS
  <2>4. /\ p \in Workers /\ IsDelivering(p) /\ proc[p].ok \in BOOLEAN /\ ok \in BOOLEAN
        /\ s \in Stores /\ n \in DOMAIN events
    <3>1. proc[p].ok \in BOOLEAN
      BY <1>0 DEF TypeOK
    <3> QED BY <1>11, <1>13, <2>1, <2>3, <3>1
  <2>5. k \in Keys /\ n \in events[n].row.writes
    <3>1. n \in Nat /\ n > 0
      BY <1>0, <2>4, EventsDomain
    <3> QED BY <1>0, <2>2, <2>4, <3>1, EventFields DEF IInv, EventsOK
  <2>6. s # Owner[k]
    BY <1>13, <2>1, <2>2, <2>3 DEF IInv, SavesOK
  <2>7. /\ row'[s][k] = events[n].row
        /\ \A y \in Stores, x \in Keys : row'[y][x] = row[y][x] \/ (x = k /\ row'[y][x] = events[n].row)
    <3>1. Update(s, k, events[n].row)
      BY <1>13, <2>1, <2>2, <2>3
    <3>2. /\ row'[s][k] = events[n].row
          /\ \A y \in Stores, x \in Keys : <<y, x>> # <<s, k>> => row'[y][x] = row[y][x]
      BY <1>0, <2>4, <2>5, <2>6, <3>1, UpdateElsewhere
    <3> QED BY <3>2
  <2>8. /\ IsDelivering(p)' /\ proc'[p].n = n /\ proc'[p].ok = ok /\ proc'[p].pc # "save"
        /\ Passed(proc[p])' \subseteq Passed(proc[p]) \union {s}
    <3>1. /\ Busy(proc'[p]) /\ proc'[p].n = n /\ proc'[p].ok = ok /\ proc'[p].pc # "save"
          /\ Passed(AfterStore(p, ok)) \subseteq Passed(proc[p]) \union {s}
      BY <1>11, <1>13, <2>1, <2>3, <2>4
    <3>2. Passed(proc[p])' = Passed(AfterStore(p, ok))
      BY <1>13 DEF Passed
    <3> QED BY <3>1, <3>2 DEF IsDelivering
  <2>9. proc'[p].ok => proc[p].ok /\ \A x \in Passed(proc[p])' : x \notin Passed(proc[p]) =>
                                        n \in row'[x][k].writes
    BY <2>4, <2>5, <2>7, <2>8
  <2>10. /\ \A h \in Handlers : ~Busy(proc'[h])
         /\ \A q \in Workers : q # p => proc'[q] = proc[q] \/ ~Busy(proc'[q])
    <3>1. \A h \in Handlers : h # p
      BY <2>4
    <3> QED BY <1>1, <1>13, <3>1
  <2>11. \A y \in Stores, x \in Keys :
           row'[y][x] = row[y][x] \/ (x = k /\ proc[p].pc = "save" /\ row'[y][x] = events[n].row)
    BY <1>13, <2>7
  <2>12. /\ events' = events
         /\ proc'[p].ok => proc[p].ok /\ \A x \in Passed(proc[p])' : x \notin Passed(proc[p]) =>
                                            n \in row'[x][k].writes
    BY <1>13, <2>9
  <2>13. IsDelivering(p) /\ IsDelivering(p)' /\ proc'[p].n = n /\ proc'[p].pc # "save"
    BY <2>4, <2>8
  <2> HIDE DEF AfterStore
  <2> QED BY <2>1, <2>2, <2>4, <2>10, <2>11, <2>12, <2>13, DeliveryStep
<1>14. ASSUME NEW p \in Procs, SaveStore(p) PROVE DInv'
  <2>1. proc[p].pc = "save" /\ events' = events
    BY <1>14 DEF SaveStore
  <2>2. PICK t \in {AfterStore(p, FALSE), AfterStore(p, proc[p].ok)} : proc' = [proc EXCEPT ![p] = t]
    BY <1>14 DEF SaveStore, Goto, Failed
  <2>3. proc'[p] = t /\ \A q \in Procs : q # p => proc'[q] = proc[q]
    BY <1>0, <2>2 DEF TypeOK
  <2>4. CASE proc[p].at \in up
    <3>1. Update(proc[p].at, events[proc[p].n].key, events[proc[p].n].row)
      BY <1>14, <2>4 DEF SaveStore
    <3> HIDE DEF Busy
    <3> QED BY <1>13, <2>1, <2>2, <2>3, <3>1
  <2>5. CASE proc[p].at \notin up
    <3>1. PICK n : n = proc[p].n
      OBVIOUS
    <3>2. PICK k : k = events[n].key
      OBVIOUS
    <3>3. proc'[p] = AfterStore(p, FALSE) /\ UNCHANGED row
      BY <1>0, <1>14, <2>5 DEF SaveStore, Goto, Failed, TypeOK
    <3>4. /\ p \in Workers /\ IsDelivering(p) /\ IsDelivering(p)' /\ proc'[p].n = n
          /\ ~proc'[p].ok /\ proc'[p].pc # "save"
      <4>1. proc[p].pc \in {"read", "save"}
        BY <2>1
      <4>2. proc'[p] = AfterStore(p, FALSE)
        BY <3>3
      <4> HIDE DEF AfterStore, Busy
      <4>3. p \in Workers /\ IsDelivering(p)
        BY <1>11, <4>1
      <4>4. LET u == AfterStore(p, FALSE)
            IN  Busy(u) /\ u.n = proc[p].n /\ u.ok = FALSE /\ u.pc # "save"
        BY <1>11, <4>1
      <4>5. IsDelivering(p)'
        BY <4>2, <4>4 DEF IsDelivering, Busy
      <4> QED BY <3>1, <4>2, <4>3, <4>4, <4>5
    <3>5. /\ \A h \in Handlers : ~Busy(proc'[h])
          /\ \A q \in Workers : q # p => proc'[q] = proc[q]
      <4>1. \A h \in Handlers : h # p
        BY <3>4
      <4> QED BY <1>1, <2>3, <4>1
    <3> QED BY <2>1, <3>1, <3>2, <3>3, <3>4, <3>5, DeliveryStep
  <2> QED BY <2>4, <2>5
<1>15. ASSUME NEW p \in Procs, SaveUnanswered(p) PROVE DInv'
  <2>1. /\ proc[p].pc = "save" /\ events' = events
        /\ Update(proc[p].at, events[proc[p].n].key, events[proc[p].n].row)
        /\ proc'[p] = AfterStore(p, FALSE)
        /\ \A q \in Procs : q # p => proc'[q] \in {proc[q], Idle}
    BY <1>15 DEF SaveUnanswered, Failed
  <2>2. \A q \in Procs : q # p => proc'[q] = proc[q] \/ ~Busy(proc'[q])
    BY <1>3, <2>1
  <2> HIDE DEF Busy
  <2> QED BY <1>13, <2>1, <2>2
<1>16. ASSUME NEW s \in Stores, GoDown(s) PROVE DInv'
  <2>1. \A p \in Procs : proc'[p] = proc[p] \/ ~Busy(proc'[p])
    BY <1>3, <1>16 DEF GoDown
  <2>2. events' = events /\ UNCHANGED row
    BY <1>16 DEF GoDown
  <2> QED BY <1>2, <2>1, <2>2
<1>17. ASSUME NEW s \in Stores, ComeBack(s) PROVE DInv'
  BY <1>2, <1>17 DEF ComeBack
<1>18. ASSUME NEW c \in Copiers, NEW k \in Keys, NEW s \in Stores, CopyRead(c, k, s) PROVE DInv'
  BY <1>2, <1>18 DEF CopyRead
<1>19. ASSUME NEW c \in Copiers, CopyInsert(c) PROVE DInv'
  <2> DEFINE k == copying[c].key
             s == copying[c].to
  <2>1. /\ k \in Keys /\ s \in Stores /\ s # Owner[k]
    BY <1>0, <1>19 DEF CopyInsert, IInv, CopiesOK, TypeOK, Copies
  <2>2. \A y \in Stores, x \in Keys : row[y][x].writes \subseteq row'[y][x].writes
    <3>1. CASE UNCHANGED row
      BY <3>1
    <3>2. CASE Update(s, k, copying[c].row) /\ row[s][k] = NoRow
      <4>1. \A y \in Stores, x \in Keys : <<y, x>> # <<s, k>> => row'[y][x] = row[y][x]
        BY <1>0, <2>1, <3>2, UpdateElsewhere
      <4>2. row[s][k].writes = {}
        BY <3>2 DEF NoRow, Row
      <4> QED BY <4>1, <4>2
    <3> QED BY <1>19, <3>1, <3>2 DEF CopyInsert, Has
  <2>3. events' = events /\ proc' = proc
    BY <1>19 DEF CopyInsert
  <2> QED BY <1>1, <2>2, <2>3, DeliveryFrame
<1>20. CASE Restart
  <2>1. \A p \in Procs : ~Busy(proc'[p])
    BY <1>3, <1>20 DEF Restart
  <2> QED BY <1>2, <1>20, <2>1 DEF Restart
<1>21. CASE UNCHANGED vars
  BY <1>2, <1>21 DEF vars
<1> QED BY <1>4, <1>5, <1>6, <1>7, <1>8, <1>9, <1>10, <1>12, <1>14, <1>15, <1>16, <1>17,
           <1>18, <1>19, <1>20, <1>21 DEF Next, Deliver

(* What a delivered event wrote is in all stores and stays there, through  *)
(* retries, lost answers, restarts and copies, where events are delivered  *)
(* by the outbox workers alone and the owners stay up (drainOutbox).  With *)
(* confirmations it is false, as the run replication_stalecopy shows.      *)
THEOREM DeliveredStays ==
  ASSUME OwnersStayUp, Tickets = {}
  PROVE  Spec => []DeliveredIsEverywhere
<1>1. TInv /\ TInv' /\ IInv /\ IInv' /\ DInv /\ [Next]_vars => DInv'
  BY NextDInv
<1>2. DInv => DeliveredIsEverywhere
  BY DEF DInv
<1> QED BY InitDInv, SpecIInv, <1>1, <1>2, PTL DEF Spec
-----------------------------------------------------------------------------
(***************************************************************************)
(* A confirmed purchase is the creation of its ticket.  Every later write  *)
(* of the ticket contains it, so that any row of the ticket does.          *)
(***************************************************************************)
IsCreation(n) ==
  n \in DOMAIN events /\ \A m \in 1 .. n - 1 : events[m].key # events[n].key

(* A store that does not own the ticket of n has it. *)
HasCopy(n) == \E s \in Stores : s # Owner[events[n].key] /\ Has(s, events[n].key)

CInv ==
  /\ \A h \in Handlers : IsDelivering(h) => IsCreation(proc[h].n)
  /\ \A n \in confirmed : IsCreation(n) /\ HasCopy(n)

LEMMA InitCInv == Init => CInv
BY ReplicationAssumption DEF Init, CInv, IsDelivering

(* Whatever row a store has of the ticket, it contains the creation. *)
LEMMA RowsHaveCreation ==
  ASSUME TInv, IInv, NEW n, IsCreation(n), NEW s \in Stores, Has(s, events[n].key)
  PROVE  n \in row[s][events[n].key].writes
<1> DEFINE k == events[n].key
<1>1. n \in DOMAIN events /\ k \in Keys /\ n \in Nat \ {0}
  BY EventFields, EventsDomain DEF IsCreation, TInv
<1>2. PICK m \in EventsOf(k) : row[s][k] = events[m].row
  BY <1>1 DEF IInv, RowsOK, IsOfAnEvent, Has
<1>3. m \in DOMAIN events /\ events[m].key = k /\ m \in Nat \ {0}
  BY <1>2, EventsDomain DEF EventsOf, TInv
<1>4. n <= m
  BY <1>1, <1>3 DEF IsCreation
<1>5. n \in 1 .. m
  BY <1>1, <1>3, <1>4
<1> QED BY <1>2, <1>3, <1>5 DEF IInv, EventsOK

(* An event of a row is never the row that is not there. *)
LEMMA EventRowsAreRows ==
  ASSUME TInv, IInv, NEW n \in DOMAIN events
  PROVE  events[n].row # NoRow /\ events[n].key \in Keys /\ events[n].row \in Rows
BY EventFields DEF TInv, IInv, EventsOK, NoRow, Row

(* Nothing takes a row away from a store. *)
LEMMA RowsStay ==
  ASSUME TInv, IInv, [Next]_vars, NEW s \in Stores, NEW k \in Keys, Has(s, k)
  PROVE  row'[s][k] # NoRow
<1>1. row \in [Stores -> [Keys -> Rows]] /\ row[s][k] # NoRow
  BY DEF TInv, TypeOK, Has
<1>2. ASSUME NEW d \in Stores, NEW x \in Keys, NEW r \in Rows, Update(d, x, r), r # NoRow
      PROVE  row'[s][k] # NoRow
  BY <1>1, <1>2 DEF Update
<1>3. ASSUME NEW p \in Procs, IsDelivering(p), Update(proc[p].at, events[proc[p].n].key, events[proc[p].n].row)
      PROVE  row'[s][k] # NoRow
  <2>1. proc[p].n \in DOMAIN events /\ proc[p].at \in Stores
    BY <1>3 DEF TInv, TypeOK, ProcsOK
  <2> QED BY <1>2, <1>3, <2>1, EventRowsAreRows
<1>4. ASSUME NEW h \in Handlers, Commit(h) PROVE row'[s][k] # NoRow
  <2> DEFINE r == Row(proc[h].row.v, proc[h].row.writes \union {Len(events) + 1})
  <2>1. proc[h].key \in Keys /\ proc[h].db \in Stores /\ proc[h].row \in Rows
    BY <1>4 DEF Commit, TInv, TypeOK, ProcsOK
  <2>2. Len(events) \in Nat
    BY EventsDomain DEF TInv
  <2>3. r \in Rows /\ r # NoRow
    BY <2>1, <2>2 DEF Row, Rows, NoRow
  <2>4. Update(proc[h].db, proc[h].key, r)
    BY <1>4 DEF Commit
  <2> HIDE DEF r
  <2> QED BY <1>2, <2>1, <2>3, <2>4
<1>5. ASSUME NEW p \in Procs, SaveStore(p) PROVE row'[s][k] # NoRow
  BY <1>1, <1>3, <1>5 DEF SaveStore, IsDelivering
<1>6. ASSUME NEW p \in Procs, SaveUnanswered(p) PROVE row'[s][k] # NoRow
  BY <1>3, <1>6 DEF SaveUnanswered, IsDelivering
<1>7. ASSUME NEW c \in Copiers, CopyInsert(c) PROVE row'[s][k] # NoRow
  <2>1. CASE row' = row
    BY <1>1, <2>1
  <2>2. CASE ~Has(copying[c].to, copying[c].key)
             /\ Update(copying[c].to, copying[c].key, copying[c].row)
    <3>1. copying[c].to # s \/ copying[c].key # k
      BY <1>1, <2>2 DEF Has
    <3> QED BY <1>1, <2>2, <3>1 DEF Update
  <2> QED BY <1>7, <2>1, <2>2 DEF CopyInsert
<1>8. CASE row' = row
  BY <1>1, <1>8
<1>9. \/ row' = row
      \/ \E h \in Handlers : Commit(h)
      \/ \E p \in Procs : SaveStore(p) \/ SaveUnanswered(p)
      \/ \E c \in Copiers : CopyInsert(c)
  BY DEF Next, Deliver, Begin, Rollback, Answer, Mark, Claim, ReadStore, LeaseExpires, CopyRead,
         Restart, GoDown, ComeBack, vars
<1> QED BY <1>4, <1>5, <1>6, <1>7, <1>8, <1>9

(* A step keeps the events there are, but for their states. *)
LEMMA EventsRemain ==
  ASSUME TInv, [Next]_vars, NEW n \in DOMAIN events
  PROVE  n \in DOMAIN events' /\ events'[n].key = events[n].key
<1>1. \A m \in DOMAIN events, state \in EventStates : SetState(m, state) => SameEvents
  BY SetStateKeeps DEF TInv
<1>2. ASSUME NEW h \in Handlers, Commit(h) PROVE n \in DOMAIN events' /\ events'[n] = events[n]
  <2>1. events \in Seq(Events)
    BY DEF TInv, TypeOK
  <2>2. PICK e : events' = Append(events, e)
    BY <1>2 DEF Commit
  <2> QED BY <2>1, <2>2
<1>3. ASSUME NEW d \in Workers, Mark(d) PROVE SameEvents
  <2>1. proc[d].n \in DOMAIN events
    BY <1>3 DEF Mark, TInv, ProcsOK, IsDelivering
  <2>2. events' = events => SameEvents
    BY DEF SameEvents
  <2> QED BY <1>1, <1>3, <2>1, <2>2 DEF Mark, EventStates
<1>4. ASSUME NEW d \in Workers, NEW m \in DOMAIN events, Claim(d, m) PROVE SameEvents
  BY <1>1, <1>4 DEF Claim, EventStates
<1>5. ASSUME NEW m \in DOMAIN events, LeaseExpires(m) PROVE SameEvents
  BY <1>1, <1>5 DEF LeaseExpires, EventStates
<1>6. \/ events' = events
      \/ \E h \in Handlers : Commit(h)
      \/ \E d \in Workers : Mark(d) \/ \E m \in DOMAIN events : Claim(d, m)
      \/ \E m \in DOMAIN events : LeaseExpires(m)
  BY DEF Next, Deliver, Begin, Rollback, Answer, SaveStore, SaveUnanswered, ReadStore, CopyRead,
         CopyInsert, Restart, GoDown, ComeBack, vars
<1> QED BY <1>2, <1>3, <1>4, <1>5, <1>6 DEF SameEvents

LEMMA CreationStays ==
  ASSUME TInv, [Next]_vars, NEW n, IsCreation(n)
  PROVE  /\ IsCreation(n)' /\ events'[n].key = events[n].key
         /\ IInv /\ HasCopy(n) => HasCopy(n)'
<1>1. n \in DOMAIN events /\ \A m \in 1 .. n - 1 : m \in DOMAIN events
  BY EventsDomain DEF IsCreation, TInv
<1>2. IsCreation(n)' /\ events'[n].key = events[n].key
  BY <1>1, EventsRemain DEF IsCreation
<1>3. events[n].key \in Keys
  BY <1>1, EventFields DEF TInv
<1> QED BY <1>2, <1>3, RowsStay DEF HasCopy, Has

(* Only a commit starts a confirmation, and it is of a creation. *)
LEMMA HandlersDeliver ==
  ASSUME TInv, IInv, [Next]_vars, NEW h \in Handlers, IsDelivering(h)'
  PROVE  \/ IsDelivering(h) /\ proc'[h].n = proc[h].n
         \/ IsCreation(proc[h].n)'
<1> USE ReplicationAssumption
<1>1. proc \in [Procs -> ProcStates] /\ h \in Procs
  BY DEF TInv, TypeOK
<1> DEFINE Keeps(p) == /\ \A q \in Procs : q # p => proc'[q] = proc[q]
                       /\ proc'[p].pc = "idle" \/ (IsDelivering(p) /\ proc'[p].n = proc[p].n)
<1>2. ASSUME NEW p \in Procs, Keeps(p) PROVE IsDelivering(h) /\ proc'[h].n = proc[h].n
  BY <1>1, <1>2 DEF IsDelivering
<1>3. ASSUME NEW g \in Handlers, NEW k \in Keys, NEW d \in PGs, Begin(g, k, d)
      PROVE  IsDelivering(h) /\ proc'[h].n = proc[h].n
  BY <1>1, <1>3 DEF Begin, Goto, IsDelivering
<1>4. ASSUME NEW g \in Handlers, Commit(g)
      PROVE  (IsDelivering(h) /\ proc'[h].n = proc[h].n) \/ IsCreation(proc[h].n)'
  <2> DEFINE n == Len(events) + 1
             k == proc[g].key
  <2>1. CASE proc' = [proc EXCEPT ![g] = Idle]
    BY <1>1, <2>1 DEF IsDelivering
  <2>2. CASE proc[g].row.writes = {} /\ proc' = [proc EXCEPT ![g] = Delivering("read", n, "AM", TRUE)]
    <3>1. CASE g # h
      BY <1>1, <2>2, <3>1 DEF IsDelivering
    <3>2. CASE g = h
      <4>1. proc'[h].n = n
        BY <1>1, <2>2, <3>2
      <4>2. k \in Keys /\ OwnRow(k).writes = {}
        BY <1>4, <2>2 DEF Commit, TInv, ProcsOK, IInv, WritersOK, WriterOK
      <4>3. EventsOf(k) = {}
        BY <4>2 DEF IInv, OwnerRowsOK
      <4>4. PICK e : events' = Append(events, e) /\ e.key = k
        BY <1>4 DEF Commit, Event
      <4>5. /\ events \in Seq(Events) /\ DOMAIN events = 1 .. n - 1
            /\ n \in Nat
        BY EventsDomain DEF TInv, TypeOK
      <4>6. n \in DOMAIN events' /\ events'[n].key = k /\ \A m \in 1 .. n - 1 : events'[m] = events[m]
        BY <4>4, <4>5
      <4>7. \A m \in 1 .. n - 1 : events'[m].key # k
        BY <4>3, <4>5, <4>6 DEF EventsOf
      <4> HIDE DEF n, k
      <4>8. IsCreation(proc[h].n)'
        BY <4>1, <4>6, <4>7 DEF IsCreation
      <4> QED BY <4>8
    <3> QED BY <3>1, <3>2
  <2> QED BY <1>4, <2>1, <2>2 DEF Commit, Goto
<1>5. ASSUME NEW g \in Handlers, Rollback(g) \/ Answer(g) PROVE Keeps(g)
  BY <1>1, <1>5 DEF Rollback, Answer, Goto
<1>6. ASSUME NEW d \in Workers, Mark(d) PROVE Keeps(d)
  BY <1>1, <1>6 DEF Mark, Goto
<1>7. ASSUME NEW d \in Workers, NEW n \in DOMAIN events, Claim(d, n)
      PROVE  IsDelivering(h) /\ proc'[h].n = proc[h].n
  BY <1>1, <1>7 DEF Claim, Goto, IsDelivering
<1>8. ASSUME NEW p \in Procs, IsDelivering(p), NEW ok
      PROVE  AfterStore(p, ok).n = proc[p].n
  BY <1>1, <1>8 DEF AfterStore
<1>9. ASSUME NEW p \in Procs, ReadStore(p) \/ SaveStore(p) PROVE Keeps(p)
  <2>1. IsDelivering(p)
    BY <1>9 DEF ReadStore, SaveStore, IsDelivering
  <2>2. \E t : proc' = [proc EXCEPT ![p] = t] /\ t.n = proc[p].n
    BY <1>8, <1>9, <2>1 DEF ReadStore, SaveStore, Goto, Failed
  <2> QED BY <1>1, <2>1, <2>2
<1>10. ASSUME NEW p \in Procs, SaveUnanswered(p) PROVE IsDelivering(h) /\ proc'[h].n = proc[h].n
  <2>1. /\ proc[p].pc = "save"
        /\ \A q \in Procs : \/ q = p /\ proc'[q] = Failed(p)
                            \/ proc'[q] = Idle
                            \/ proc'[q] = proc[q]
    BY <1>10 DEF SaveUnanswered
  <2>2. IsDelivering(p) /\ Failed(p).n = proc[p].n
    BY <1>8, <1>10, <2>1 DEF Failed, IsDelivering
  <2>3. proc'[h].pc # "idle" /\ proc'[h] # Idle
    BY DEF IsDelivering, Idle, Proc
  <2>4. (h = p /\ proc'[h] = Failed(p)) \/ proc'[h] = proc[h]
    BY <1>1, <2>1, <2>3
  <2>5. CASE h = p /\ proc'[h] = Failed(p)
    BY <2>2, <2>5
  <2>6. CASE proc'[h] = proc[h]
    <3>1. IsDelivering(h)
      BY <2>6 DEF IsDelivering
    <3> QED BY <2>6, <3>1
  <2> QED BY <2>4, <2>5, <2>6
<1>11. CASE Restart
  BY <1>1, <1>11 DEF Restart, IsDelivering
<1>12. ASSUME NEW s \in Stores, GoDown(s) PROVE IsDelivering(h) /\ proc'[h].n = proc[h].n
  BY <1>1, <1>12 DEF GoDown, IsDelivering
<1>13. CASE proc' = proc
  BY <1>13 DEF IsDelivering
<1> HIDE DEF Keeps
<1>14. ASSUME NEW p \in Procs, Deliver(p) PROVE Keeps(p)
  BY <1>9, <1>14 DEF Deliver
<1>15. ASSUME NEW d \in Workers, Mark(d) PROVE IsDelivering(h) /\ proc'[h].n = proc[h].n
  BY <1>2, <1>6, <1>15
<1>16. ASSUME NEW g \in Handlers, Rollback(g) \/ Answer(g) PROVE IsDelivering(h) /\ proc'[h].n = proc[h].n
  BY <1>2, <1>5, <1>16
<1>17. (\E n \in DOMAIN events : LeaseExpires(n))
       \/ (\E c \in Copiers : CopyInsert(c) \/ \E k \in Keys, s \in Stores : CopyRead(c, k, s))
       \/ (\E s \in Stores : ComeBack(s)) \/ UNCHANGED vars => proc' = proc
  BY DEF LeaseExpires, CopyInsert, CopyRead, ComeBack, vars
<1> QED BY <1>2, <1>3, <1>4, <1>7, <1>10, <1>11, <1>12, <1>13, <1>14, <1>15, <1>16, <1>17 DEF Next

LEMMA NextCInv == TInv /\ IInv /\ CInv /\ [Next]_vars => CInv'
<1> SUFFICES ASSUME TInv, IInv, CInv, [Next]_vars PROVE CInv'
  OBVIOUS
<1>1. ASSUME NEW h \in Handlers, IsDelivering(h)' PROVE IsCreation(proc[h].n)'
  <2>1. CASE IsDelivering(h) /\ proc'[h].n = proc[h].n
    <3>1. IsCreation(proc[h].n)
      BY <2>1 DEF CInv
    <3>2. \A n : IsCreation(n) => IsCreation(n)'
      BY CreationStays
    <3> QED BY <2>1, <3>1, <3>2 DEF IsCreation
  <2>2. CASE IsCreation(proc[h].n)'
    BY <2>2
  <2> QED BY <1>1, <2>1, <2>2, HandlersDeliver
<1>2. ASSUME NEW n \in confirmed PROVE IsCreation(n)' /\ HasCopy(n)'
  BY <1>2, CreationStays DEF CInv
<1>3. ASSUME NEW h \in Handlers, Answer(h), NEW n \in confirmed', n \notin confirmed
      PROVE  IsCreation(n) /\ HasCopy(n)
  <2>1. n = proc[h].n /\ IsDelivering(h) /\ h \in Procs
    BY <1>3 DEF Answer, IsDelivering
  <2>2. IsCreation(n) /\ n \in DOMAIN events
    BY <2>1 DEF CInv, IsCreation
  <2>3. PICK s \in SecondCopies(events[n]) : row[s][events[n].key] = events[n].row
    BY <1>3, <2>1 DEF Answer
  <2>4. events[n].db = Owner[events[n].key] /\ events[n].db \in PGs
    BY <2>2, EventFields DEF IInv, OwnersOK, TInv
  <2>5. s \in Stores /\ s # Owner[events[n].key]
    BY <2>3, <2>4 DEF SecondCopies
  <2>6. Has(s, events[n].key)
    BY <2>2, <2>3, EventRowsAreRows DEF Has
  <2> QED BY <2>2, <2>5, <2>6 DEF HasCopy
<1>4. (\E h \in Handlers : Answer(h)) \/ confirmed' = confirmed
  BY DEF Next, Deliver, Begin, Commit, Rollback, Mark, Claim, ReadStore, SaveStore, SaveUnanswered,
         LeaseExpires, CopyRead, CopyInsert, Restart, GoDown, ComeBack, vars
<1>5. ASSUME NEW n \in confirmed' PROVE IsCreation(n)' /\ HasCopy(n)'
  BY <1>2, <1>3, <1>4, <1>5, CreationStays
<1> QED BY <1>1, <1>5 DEF CInv

LEMMA TwoOfThree ==
  ASSUME NEW S \in SUBSET Stores, NEW a \in S, NEW b \in S, a # b
  PROVE  Cardinality(S) >= 2
<1>1. IsFiniteSet({"AM", "EU", "Mongo"})
  <2>1. IsFiniteSet({"AM"})
    BY FS_Singleton
  <2>2. IsFiniteSet({"AM"} \union {"EU"})
    BY <2>1, FS_AddElement
  <2>3. IsFiniteSet({"AM"} \union {"EU"} \union {"Mongo"})
    BY <2>2, FS_AddElement
  <2>4. {"AM"} \union {"EU"} \union {"Mongo"} = {"AM", "EU", "Mongo"}
    OBVIOUS
  <2> QED BY <2>3, <2>4
<1>2. IsFiniteSet(S)
  <2>1. S \in SUBSET {"AM", "EU", "Mongo"}
    OBVIOUS
  <2> QED BY <1>1, <2>1, FS_Subset
<1>3. IsFiniteSet({a}) /\ Cardinality({a}) = 1
  BY FS_Singleton
<1>4. IsFiniteSet({a, b}) /\ Cardinality({a, b}) = 2
  <2>1. {a, b} = {a} \union {b}
    OBVIOUS
  <2> QED BY <1>3, <2>1, FS_AddElement
<1>5. Cardinality({a, b}) <= Cardinality(S)
  BY <1>2, FS_Subset
<1>6. Cardinality(S) \in Nat
  BY <1>2, FS_CardinalityType
<1> QED BY <1>4, <1>5, <1>6

(* A purchase answered with 200 is on two stores from then on, whatever is *)
(* delivered, copied or restarted later, as long as the owners stay up     *)
(* (ConfirmTicketReplication).                                             *)
THEOREM ConfirmedStays ==
  ASSUME OwnersStayUp
  PROVE  Spec => []ConfirmedHasTwoCopies
<1>1. TInv /\ IInv /\ CInv /\ [Next]_vars => CInv'
  BY NextCInv
<1>2. TInv /\ IInv /\ CInv => ConfirmedHasTwoCopies
  <2> SUFFICES ASSUME TInv, IInv, CInv, NEW n \in confirmed
               PROVE  Cardinality({s \in Stores : n \in row[s][events[n].key].writes}) >= 2
    BY DEF ConfirmedHasTwoCopies
  <2> DEFINE k == events[n].key
  <2>1. IsCreation(n) /\ HasCopy(n) /\ n \in DOMAIN events /\ k \in Keys
    BY EventFields DEF CInv, IsCreation, TInv
  <2>2. PICK s \in Stores : s # Owner[k] /\ Has(s, k)
    BY <2>1 DEF HasCopy
  <2>3. n \in row[s][k].writes
    BY <2>1, <2>2, RowsHaveCreation
  <2>4. n \in row[Owner[k]][k].writes
    BY <2>1 DEF IInv, OwnerRowsOK, OwnRow, EventsOf
  <2>5. Owner[k] \in Stores
    BY <2>1, OwnerIsStore
  <2> QED BY <2>2, <2>3, <2>4, <2>5, TwoOfThree
<1> QED BY InitCInv, SpecIInv, <1>1, <1>2, PTL DEF Spec
-----------------------------------------------------------------------------
(***************************************************************************)
(* The panels.                                                             *)
(***************************************************************************)
LEMMA ReadingsType ==
  /\ NoReads \in [1..MaxReads -> 0..MaxDatos]
  /\ PanelTypeOK => \A r \in 1..MaxReads, v \in 0..MaxDatos :
                      [reads EXCEPT ![r] = v] \in [1..MaxReads -> 0..MaxDatos]
BY PanelsAssumption DEF NoReads, PanelTypeOK

LEMMA PanelInitType == PanelInit => PanelTypeOK
<1> SUFFICES ASSUME PanelInit PROVE PanelTypeOK
  OBVIOUS
<1>1. 1 \in 1..MaxDatos /\ 0 \in 0..MaxDatos
  BY PanelsAssumption
<1> QED BY <1>1, ReadingsType DEF PanelInit, PanelTypeOK

LEMMA PanelNextType == PanelTypeOK /\ [PanelNext]_panelVars => PanelTypeOK'
<1> SUFFICES ASSUME PanelTypeOK, [PanelNext]_panelVars PROVE PanelTypeOK'
  OBVIOUS
<1>1. /\ panel \in Panels \cup {NoPanel} /\ datos \in 1..MaxDatos /\ datos \in 0..MaxDatos
      /\ 0 \in 0..MaxDatos /\ 1 \in 1..MaxReads /\ MaxDatos \in Nat
      /\ reads \in [1..MaxReads -> 0..MaxDatos]
      /\ cargando \in BOOLEAN /\ fallo \in BOOLEAN
  BY PanelsAssumption DEF PanelTypeOK
<1>2. CASE UNCHANGED panelVars
  BY <1>2 DEF panelVars, PanelTypeOK
<1>3. ASSUME NEW p \in Panels, OpenPanel(p) PROVE PanelTypeOK'
  <2>1. reads' \in [1..MaxReads -> 0..MaxDatos]
    BY <1>1, <1>3, ReadingsType DEF OpenPanel
  <2> QED BY <1>1, <1>3, <2>1 DEF OpenPanel, PanelTypeOK
<1>4. ASSUME NEW r \in 1..MaxReads, ReadAgain(r) PROVE PanelTypeOK'
  <2>1. reads' \in [1..MaxReads -> 0..MaxDatos]
    BY <1>1, <1>4, ReadingsType DEF ReadAgain
  <2> QED BY <1>4, <2>1 DEF ReadAgain, PanelTypeOK
<1>5. ASSUME NEW r \in 1..MaxReads, ReadAnswered(r) PROVE PanelTypeOK'
  <2>1. reads' \in [1..MaxReads -> 0..MaxDatos]
    BY <1>1, <1>5, ReadingsType DEF ReadAnswered
  <2>2. visto' \in 0..MaxDatos
    <3>1. visto' \in reads[r]..datos /\ reads[r] \in 0..MaxDatos
      BY <1>1, <1>5 DEF ReadAnswered
    <3> QED BY <1>1, <3>1
  <2>3. huecos' \in BOOLEAN /\ (huecos' => panel \in WithDetails)
    BY <1>5 DEF ReadAnswered, Gaps
  <2> QED BY <1>1, <1>5, <2>1, <2>2, <2>3 DEF ReadAnswered, PanelTypeOK
<1>6. ASSUME NEW r \in 1..MaxReads, ReadFails(r) PROVE PanelTypeOK'
  <2>1. reads' \in [1..MaxReads -> 0..MaxDatos]
    BY <1>1, <1>6, ReadingsType DEF ReadFails
  <2>2. fallo' \in BOOLEAN /\ cargando' \in BOOLEAN
    BY <1>1, <1>6 DEF ReadFails, FailureShown
  <2> QED BY <1>6, <2>1, <2>2 DEF ReadFails, PanelTypeOK
<1>7. CASE ServerChanges
  <2>1. datos' \in 1..MaxDatos
    BY <1>1, <1>7 DEF ServerChanges
  <2> QED BY <1>7, <2>1 DEF ServerChanges, PanelTypeOK
<1> QED BY <1>2, <1>3, <1>4, <1>5, <1>6, <1>7 DEF PanelNext

(* The types of the stores and the handlers, with those of the panels: a   *)
(* gap is only in the panel that reads details (app/page.tsx).             *)
THEOREM BothTypes == BothSpec => []TypesOK
<1> DEFINE Inv == TInv /\ PanelTypeOK
<1>1. BothInit => Inv
  BY InitTInv, PanelInitType DEF BothInit
<1>2. Inv /\ [BothNext]_bothVars => Inv'
  <2> SUFFICES ASSUME Inv, [BothNext]_bothVars PROVE Inv'
    OBVIOUS
  <2>1. [Next]_vars /\ [PanelNext]_panelVars
    BY DEF BothNext, bothVars
  <2> QED BY <2>1, NextTInv, PanelNextType
<1>3. Inv => TypesOK
  BY DEF TInv, TypesOK
<1> QED BY <1>1, <1>2, <1>3, PTL DEF BothSpec
=============================================================================
