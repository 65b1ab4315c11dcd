----------------------------- MODULE Replication -----------------------------
(***************************************************************************)
(* How a committed row reaches the other PostgreSQL server and MongoDB:    *)
(* the transactions that write it and its event, the two outbox workers,   *)
(* the confirmation of a purchase, the copy of missing rows, the restart   *)
(* of the backend, and servers that go away and come back.                 *)
(*                                                                         *)
(* The deployment has one backend, so that vectors are counters and        *)
(* ShouldApplyVersion compares them (OneNodeComparesCounters of            *)
(* VersionsProofs).  The content of a row is the set of the writes it      *)
(* contains.  A server that is down keeps what it has.                     *)
(*                                                                         *)
(* A definition whose name has a suffix (Failed_ignored) is a plausible    *)
(* mistake in the one it precedes; no other definition uses it.            *)
(***************************************************************************)
EXTENDS Integers, Sequences, FiniteSets

CONSTANTS
  NoKey,        \* no row
  Keys,         \* rows of vuelos, boletos and ocupaciones_vuelo
  Tickets,      \* those whose creation is a purchase, confirmed by its handler
  Owner,        \* Owner[k]: the server whose range of identifiers has k
  Handlers,     \* goroutines of HTTP handlers and of the refund worker
  Copiers,      \* goroutines in reconcilePostgresReplicas and bootstrapMongo
  Fallible,     \* the servers that may go down
  MaxClock,     \* bound: ticks of the clock
  MaxFails,     \* bound: how often a server goes down
  MaxRestarts   \* bound: how often the backend restarts

PGs    == {"AM", "EU"}
Stores == PGs \union {"Mongo"}

Other(d) == IF d = "AM" THEN "EU" ELSE "AM"

(* The outbox worker of a server is named after it. *)
Workers == PGs
Procs   == Workers \union Handlers

ASSUME ReplicationAssumption ==
  /\ NoKey \notin Keys
  /\ Tickets \subseteq Keys
  /\ Owner \in [Keys -> PGs]
  /\ Handlers \intersect Workers = {}
  /\ Fallible \subseteq Stores
  /\ MaxClock \in Nat /\ MaxFails \in Nat /\ MaxRestarts \in Nat

VARIABLES
  up,         \* the servers that answer
  clock,      \* GlobalVectorClock[NodeID]
  row,        \* row[s][k]: the row k of server s
  events,     \* the events of sync_outbox, in the order of their commits
  proc,       \* what each goroutine is doing
  copying,    \* the row each copier has read
  confirmed,  \* the purchases answered with HTTP 200
  fails, restarts

vars == <<up, clock, row, events, proc, copying, confirmed, fails, restarts>>
-----------------------------------------------------------------------------
Row(v, writes) == [v |-> v, writes |-> writes]
NoRow == Row(0, {})
Rows  == [v : Nat, writes : SUBSET (Nat \ {0})]

Has(s, k) == row[s][k] # NoRow

(* An event is new until it is claimed; a delivery that failed or whose    *)
(* lease ran out leaves it to be retried.                                  *)
EventStates == {"new", "retry", "leased", "delivered"}
Event(k, d, r, state) == [key |-> k, db |-> d, row |-> r, state |-> state]
Events == [key : Keys, db : PGs, row : Rows, state : EventStates]

(* A goroutine writes row r of k on server d, or delivers event n and is   *)
(* at store at, with ok telling whether no store failed so far.            *)
Proc(pc, k, d, r, n, at, ok) ==
  [pc |-> pc, key |-> k, db |-> d, row |-> r, n |-> n, at |-> at, ok |-> ok]

Idle  == Proc("idle", NoKey, "AM", NoRow, 0, "AM", TRUE)
Writing(k, d, r)          == Proc("write", k, d, r, 0, "AM", TRUE)
Delivering(pc, n, at, ok) == Proc(pc, NoKey, "AM", NoRow, n, at, ok)

ProcStates == [pc : {"idle", "write", "read", "save", "mark", "answer"},
               key : Keys \union {NoKey}, db : PGs, row : Rows, n : Nat,
               at : Stores, ok : BOOLEAN]

NotCopying    == [key |-> NoKey, to |-> "AM", row |-> NoRow]
Copies        == [key : Keys \union {NoKey}, to : Stores, row : Rows]

Update(s, k, r) == row' = [row EXCEPT ![s][k] = r]
Goto(p, state)  == proc' = [proc EXCEPT ![p] = state]
SetState(n, state) == events' = [events EXCEPT ![n].state = state]

(* The greatest of the counters in a set of rows. *)
Latest(rows) == IF rows = {} THEN 0
                ELSE CHOOSE v \in {r.v : r \in rows} : \A r \in rows : r.v <= v
-----------------------------------------------------------------------------
Init ==
  /\ up = Stores
  /\ clock = 0
  /\ row = [s \in Stores |-> [k \in Keys |-> NoRow]]
  /\ events = <<>>
  /\ proc = [p \in Procs |-> Idle]
  /\ copying = [c \in Copiers |-> NotCopying]
  /\ confirmed = {}
  /\ fails = 0
  /\ restarts = 0

(* GetDBForTicketWrite and GetDBForFlightWrite: the first of the owner and *)
(* the other server that is up and has the row.                            *)
WritesOn(d, k) ==
  /\ d \in up /\ Has(d, k)
  /\ d # Owner[k] => Owner[k] \notin up \/ ~Has(Owner[k], k)

(* GetDBForOriginWrite, or the server that has the flight of a ticket; the *)
(* identifier is one NextDomainID of that server has not given yet.        *)
CreatesOn(d, k) ==
  /\ d \in up /\ ~Has(d, k)
  /\ d # Owner[k] => Owner[k] \notin up

(* SELECT ... FOR UPDATE: nobody else has row k of server d locked. *)
RowFree_noLock(d, k) == TRUE
RowFree(d, k) ==
  \A h \in Handlers : ~(proc[h].pc = "write" /\ proc[h].db = d /\ proc[h].key = k)

(* A transaction reads its row under the lock and ticks the clocks. *)
Begin(h, k, d) ==
  /\ proc[h].pc = "idle"
  /\ clock < MaxClock
  /\ WritesOn(d, k) \/ CreatesOn(d, k)
  /\ RowFree(d, k)
  /\ clock' = clock + 1
  /\ Goto(h, Writing(k, d, Row(clock', row[d][k].writes)))
  /\ UNCHANGED <<up, row, events, copying, confirmed, fails, restarts>>

(* Save, QueueOutboxEvent and COMMIT; the creation of a ticket is then     *)
(* confirmed (ConfirmTicketReplication) before its handler answers.        *)
Commit(h) ==
  LET k == proc[h].key
      d == proc[h].db
      n == Len(events) + 1
      r == Row(proc[h].row.v, proc[h].row.writes \union {n})
  IN  /\ proc[h].pc = "write"
      /\ d \in up
      /\ Update(d, k, r)
      /\ events' = Append(events, Event(k, d, r, "new"))
      /\ IF k \in Tickets /\ proc[h].row.writes = {}
           THEN Goto(h, Delivering("read", n, "AM", TRUE))
           ELSE Goto(h, Idle)
      /\ UNCHANGED <<up, clock, copying, confirmed, fails, restarts>>

Rollback(h) ==
  /\ proc[h].pc = "write"
  /\ Goto(h, Idle)
  /\ UNCHANGED <<up, clock, row, events, copying, confirmed, fails, restarts>>
-----------------------------------------------------------------------------
(* drainOutbox takes the oldest event that is due: one that failed before  *)
(* may still be waiting, a new one is due at once.                         *)
Claimable_newOnly(d, n) ==
  /\ events[n].db = d
  /\ events[n].state = "new"
  /\ \A m \in 1 .. n - 1 : events[m].db = d => events[m].state # "new"

Claimable(d, n) ==
  /\ events[n].db = d
  /\ events[n].state \in {"new", "retry"}
  /\ \A m \in 1 .. n - 1 : events[m].db = d => events[m].state # "new"

Claim(d, n) ==
  /\ proc[d].pc = "idle"
  /\ d \in up
  /\ Claimable(d, n)
  /\ SetState(n, "leased")
  /\ Goto(d, Delivering("read", n, "AM", TRUE))
  /\ UNCHANGED <<up, clock, row, copying, confirmed, fails, restarts>>

(* ApplySyncEvent goes to every store in turn, whatever the others said. *)
AfterStore(p, ok) ==
  LET n == proc[p].n
  IN  CASE proc[p].at = "AM"    -> Delivering("read", n, "EU", ok)
        [] proc[p].at = "EU"    -> Delivering("read", n, "Mongo", ok)
        [] proc[p].at = "Mongo" ->
             Delivering(IF p \in Workers THEN "mark" ELSE "answer", n, "Mongo", ok)

Failed_ignored(p) == AfterStore(p, proc[p].ok)
Failed(p) == AfterStore(p, FALSE)

(* ShouldApplyVersion between versions of one node; where different        *)
(* versions have one counter, their Lamport clocks decide either way.      *)
MayApply(x, y)  == x.v > y.v \/ (x.v = y.v /\ x # y)
MayReject(x, y) == x.v <= y.v

(* syncToPostgres and syncToMongo: the clock is merged, and the version    *)
(* the store has is read ...                                               *)
ReadStore(p) ==
  LET e == events[proc[p].n]
      s == proc[p].at
  IN  /\ proc[p].pc = "read"
      /\ clock' = IF e.row.v > clock THEN e.row.v ELSE clock
      /\ \/ s \notin up /\ Goto(p, Failed(p))
         \/ /\ s \in up /\ MayApply(e.row, row[s][e.key])
            /\ Goto(p, Delivering("save", proc[p].n, s, proc[p].ok))
         \/ /\ s \in up /\ MayReject(e.row, row[s][e.key])
            /\ Goto(p, AfterStore(p, proc[p].ok))
      /\ UNCHANGED <<up, row, events, copying, confirmed, fails, restarts>>

(* ... and the row of the event is saved over whatever is there by now. *)
SaveStore(p) ==
  LET e == events[proc[p].n]
      s == proc[p].at
  IN  /\ proc[p].pc = "save"
      /\ IF s \in up
           THEN /\ RowFree(s, e.key)
                /\ Update(s, e.key, e.row)
                /\ Goto(p, AfterStore(p, proc[p].ok))
           ELSE Goto(p, Failed(p)) /\ UNCHANGED row
      /\ UNCHANGED <<up, clock, events, copying, confirmed, fails, restarts>>

(* delivered_at, or the time of the next attempt, if the outbox answers. *)
Mark(d) ==
  /\ proc[d].pc = "mark"
  /\ IF d \in up
       THEN SetState(proc[d].n, IF proc[d].ok THEN "delivered" ELSE "retry")
       ELSE UNCHANGED events
  /\ Goto(d, Idle)
  /\ UNCHANGED <<up, clock, row, copying, confirmed, fails, restarts>>

(* The lease of an event nobody delivers any more runs out. *)
LeaseExpires(n) ==
  /\ events[n].state = "leased"
  /\ \A d \in Workers : proc[d].pc = "idle" \/ proc[d].n # n
  /\ SetState(n, "retry")
  /\ UNCHANGED <<up, clock, row, proc, copying, confirmed, fails, restarts>>

(* ConfirmTicketReplication, after ApplySyncEvent: 200 if the purchase is  *)
(* on the other server or in MongoDB, else 202.  It compares the ticket's  *)
(* Estado, of which every write gives a ticket one it has not had: the     *)
(* same as comparing the row.                                              *)
SecondCopies_source(e) == {e.db, "Mongo"}
SecondCopies(e) == {Other(e.db), "Mongo"}

Answer(h) ==
  LET e == events[proc[h].n]
  IN  /\ proc[h].pc = "answer"
      /\ confirmed' = IF \E s \in SecondCopies(e) \intersect up : row[s][e.key] = e.row
                        THEN confirmed \union {proc[h].n}
                        ELSE confirmed
      /\ Goto(h, Idle)
      /\ UNCHANGED <<up, clock, row, events, copying, fails, restarts>>
-----------------------------------------------------------------------------
(* reconcilePostgresReplicas reads the rows of the owner, bootstrapMongo   *)
(* the later row of the two servers ...                                    *)
CopyRead(c, k, to) ==
  /\ copying[c] = NotCopying
  /\ PGs \subseteq up
  /\ to = Other(Owner[k]) \/ (to = "Mongo" /\ "Mongo" \in up)
  /\ \E r \in IF to = "Mongo" THEN {row["AM"][k], row["EU"][k]} ELSE {row[Owner[k]][k]} :
       /\ r # NoRow
       /\ to = "Mongo" => \A d \in PGs : row[d][k].v <= r.v
       /\ copying' = [copying EXCEPT ![c] = [key |-> k, to |-> to, row |-> r]]
  /\ UNCHANGED <<up, clock, row, events, proc, confirmed, fails, restarts>>

(* ... and insert them where there is none (ON CONFLICT DO NOTHING,        *)
(* $setOnInsert).                                                          *)
CopyInsert(c) ==
  LET k == copying[c].key
      s == copying[c].to
  IN  /\ copying[c] # NotCopying
      /\ IF s \in up /\ ~Has(s, k) THEN Update(s, k, copying[c].row) ELSE UNCHANGED row
      /\ copying' = [copying EXCEPT ![c] = NotCopying]
      /\ UNCHANGED <<up, clock, events, proc, confirmed, fails, restarts>>

(* RestoreClocks: the latest version in the outboxes that can be read. *)
RestoredClock_zero == 0
RestoredClock == Latest({events[n].row : n \in {m \in DOMAIN events : events[m].db \in up}})

(* The backend stops, at any point of its goroutines, and starts. *)
Restart ==
  /\ restarts < MaxRestarts
  /\ restarts' = restarts + 1
  /\ clock' = RestoredClock
  /\ proc' = [p \in Procs |-> Idle]
  /\ copying' = [c \in Copiers |-> NotCopying]
  /\ UNCHANGED <<up, row, events, confirmed, fails>>

(* A server goes down; what is being written on it is undone. *)
GoDown(s) ==
  /\ s \in up \intersect Fallible
  /\ fails < MaxFails
  /\ fails' = fails + 1
  /\ up' = up \ {s}
  /\ proc' = [p \in Procs |-> IF proc[p].pc = "write" /\ proc[p].db = s THEN Idle ELSE proc[p]]
  /\ UNCHANGED <<clock, row, events, copying, confirmed, restarts>>

(* A save is applied, but its server goes down before it answers. *)
SaveUnanswered(p) ==
  LET e == events[proc[p].n]
      s == proc[p].at
  IN  /\ proc[p].pc = "save"
      /\ s \in up \intersect Fallible
      /\ fails < MaxFails
      /\ RowFree(s, e.key)
      /\ Update(s, e.key, e.row)
      /\ proc' = [q \in Procs |->
           IF q = p THEN Failed(p)
           ELSE IF proc[q].pc = "write" /\ proc[q].db = s THEN Idle ELSE proc[q]]
      /\ fails' = fails + 1
      /\ up' = up \ {s}
      /\ UNCHANGED <<clock, events, copying, confirmed, restarts>>

ComeBack(s) ==
  /\ s \notin up
  /\ up' = up \union {s}
  /\ UNCHANGED <<clock, row, events, proc, copying, confirmed, fails, restarts>>

Deliver(p) == ReadStore(p) \/ SaveStore(p)

Next ==
  \/ \E h \in Handlers :
       \/ \E k \in Keys, d \in PGs : Begin(h, k, d)
       \/ Commit(h) \/ Rollback(h) \/ Answer(h)
  \/ \E d \in Workers : Mark(d) \/ \E n \in DOMAIN events : Claim(d, n)
  \/ \E p \in Procs : Deliver(p) \/ SaveUnanswered(p)
  \/ \E n \in DOMAIN events : LeaseExpires(n)
  \/ \E c \in Copiers : CopyInsert(c) \/ \E k \in Keys, s \in Stores : CopyRead(c, k, s)
  \/ Restart
  \/ \E s \in Stores : GoDown(s) \/ ComeBack(s)

Spec == Init /\ [][Next]_vars

(* A server that went down comes back, as the design assumes of every      *)
(* single failure; the workers run; leases run out.  Nothing makes a       *)
(* client write, a copier run or the backend restart.                      *)
Fairness ==
  /\ \A s \in Stores : WF_vars(ComeBack(s))
  /\ \A d \in Workers :
       WF_vars(Deliver(d)) /\ WF_vars(Mark(d)) /\ WF_vars(\E n \in DOMAIN events : Claim(d, n))
  /\ \A h \in Handlers : WF_vars(Commit(h))
  /\ WF_vars(\E n \in DOMAIN events : LeaseExpires(n))

FairSpec == Spec /\ Fairness
-----------------------------------------------------------------------------
(* The types of the variables. *)
TypeOK ==
  /\ up \subseteq Stores
  /\ clock \in Nat
  /\ row \in [Stores -> [Keys -> Rows]]
  /\ events \in Seq(Events)
  /\ proc \in [Procs -> ProcStates]
  /\ copying \in [Copiers -> Copies]
  /\ confirmed \subseteq Nat
  /\ fails \in Nat /\ restarts \in Nat

(* What an event that is marked delivered wrote is in all three stores,    *)
(* and stays there: no retry, no crash between the save and the mark, and  *)
(* no save that was decided on an older row takes it away (drainOutbox,    *)
(* ApplySyncEvent).                                                        *)
DeliveredIsEverywhere ==
  \A n \in DOMAIN events : events[n].state = "delivered" =>
    \A s \in Stores : n \in row[s][events[n].key].writes

(* No write is lost: each is made on a row that contains every write that  *)
(* was committed before it, so that the latest version has them all (the   *)
(* single writer of GetDBForFlightWrite and GetDBForTicketWrite, and the   *)
(* locks of the handlers).                                                 *)
NoWriteIsLost ==
  \A n \in DOMAIN events : \A m \in 1 .. n - 1 :
    events[m].key = events[n].key => m \in events[n].row.writes

(* A write never gets a clock that is not later than the row it replaces,  *)
(* also after a restart (RestoreClocks).                                   *)
WritesAdvanceTheClock ==
  \A h \in Handlers : proc[h].pc = "write" =>
    proc[h].row.v > row[proc[h].db][proc[h].key].v

(* A purchase answered with 200 is on two stores from then on, so that it  *)
(* outlives the loss of any one of them (ConfirmTicketReplication).        *)
ConfirmedHasTwoCopies ==
  \A n \in confirmed :
    Cardinality({s \in Stores : n \in row[s][events[n].key].writes}) >= 2

(* Every committed event is delivered in the end, whatever failed before. *)
EventsAreDelivered ==
  \A n \in 1 .. MaxClock :
    n \in DOMAIN events ~> (n \in DOMAIN events /\ events[n].state = "delivered")

(* Once the last write is done and the servers are up, the three stores    *)
(* come to have the same rows and keep them.                               *)
StoresConverge == <>[](\A s \in Stores : row[s] = row["AM"])
=============================================================================
