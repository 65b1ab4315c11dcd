---------------------------- MODULE SeatBooking ----------------------------
(***************************************************************************)
(* The sale of the seats of one flight on the PostgreSQL server that owns  *)
(* it: the HTTP handlers of reserva_handler.go and UpdateEstadoVuelo, the  *)
(* refund worker, the generation of the flight's manifest, and restarts of *)
(* the one backend process they all run in.                                *)
(*                                                                         *)
(* A transaction is a sequence of steps of a process: what it reads is the *)
(* committed state of that moment (READ COMMITTED), what it writes stays   *)
(* in its own record until the commit, and a row it locked or wrote is     *)
(* locked for the others until it ends.  Locks are therefore read off the  *)
(* records of the processes, and a process that dies releases them.        *)
(*                                                                         *)
(* A definition whose name has a suffix (Due_early) is a plausible mistake *)
(* in the one it precedes; no other definition uses it.                    *)
(***************************************************************************)
EXTENDS Naturals, FiniteSets

CONSTANTS
  Sessions,     \* HTTP handlers, and the background fill of the manifests
  Refunder,     \* the refund worker's goroutine
  Seats,        \* the seats of the flight's plane
  MaxId,        \* the identifiers of the ticket range are 1 .. MaxId
  MaxMatrix,    \* the contents matrices.json has in turn are 1 .. MaxMatrix
  Eligible(_),  \* Eligible(m): the seats whose class has a fare in matrix m
  Manifest(_, _, _),  \* Manifest(m, sold, held): the seats BuildFlightManifest
                      \* fills under m when those seats have active tickets
  Departure,    \* the flight's salida_programada
  RefundDelay,  \* REFUND_DELAY_MINUTES
  MaxNow,       \* bound: the last instant
  MaxRestarts   \* bound: how often the backend restarts

NoSeat   == 0   \* no seat has this number
Matrices == 1 .. MaxMatrix

ASSUME SeatBookingAssumption ==
  /\ Refunder \notin Sessions
  /\ NoSeat \notin Seats
  /\ MaxId \in Nat
  /\ MaxMatrix \in Nat \ {0}
  /\ Departure \in Nat /\ RefundDelay \in Nat /\ MaxNow \in Nat
  /\ MaxRestarts \in Nat

(* Eligible seats are seats of the plane; and what Occupancy shows of       *)
(* BuildFlightManifest: it fills eligible seats that no active ticket holds. *)
ASSUME EligibleAssumption == \A m \in Matrices : Eligible(m) \in SUBSET Seats

ASSUME ManifestAssumption ==
  \A m \in Matrices : \A sold, held \in SUBSET Seats :
    Manifest(m, sold, held) \in SUBSET (Eligible(m) \ (sold \union held))

Procs == Sessions \union {Refunder}
Ids   == 1 .. MaxId

VARIABLES
  now,          \* the clock of the machine
  flightOpen,   \* the flight's id_estado_vuelo is 1 or 8
  boletos,      \* the committed rows of boletos, by identifier
  nextValue,    \* next_value of the flight's ticket range in id_allocators
  ocupacion,    \* the committed row of ocupaciones_vuelo
  matrix,       \* the matrix the running backend has read
  outbox,       \* the events committed to sync_outbox
  proc,         \* the transaction each process is in
  due,          \* the tickets releaseRefunds has still to look at
  restarts      \* how often the backend has restarted

vars == <<now, flightOpen, boletos, nextValue, ocupacion, matrix, outbox,
          proc, due, restarts>>
data == <<boletos, nextValue, ocupacion, outbox>>
-----------------------------------------------------------------------------
Estados == {"RESERVED", "SALED", "REFUNDED", "ANNULLED"}

(* The states for which unique_active_seat and the queries hold a seat. *)
Activos_bought == {"RESERVED", "SALED"}

Activos == {"RESERVED", "SALED", "REFUNDED"}

Boleto(estado, seat, availableAt) ==
  [estado |-> estado, seat |-> seat, availableAt |-> availableAt]

NoBoleto    == Boleto("NONE", NoSeat, 0)
NoOcupacion == [hash |-> 0, seats |-> {}]

Boletos == [estado : Estados \union {"NONE"}, seat : Seats \union {NoSeat},
            availableAt : Nat]
Ocupaciones == [hash : Matrices \union {0}, seats : SUBSET Seats]

(* The transaction of a process:                                           *)
(*   pc      where it is                                                   *)
(*   id, row the ticket it will write, and its identifier if it has one    *)
(*   view    the manifest it works with                                    *)
(*   existed it found a manifest row when it looked                        *)
(*   wrote   it has written view, so it holds the manifest row             *)
Booking(pc, row, view, existed, wrote) ==
  [pc |-> pc, id |-> 0, row |-> row, view |-> view,
   existed |-> existed, wrote |-> wrote]

Saving(id, row) ==
  [pc |-> "save", id |-> id, row |-> row, view |-> NoOcupacion,
   existed |-> FALSE, wrote |-> FALSE]

Idle == Booking("idle", NoBoleto, NoOcupacion, FALSE, FALSE)

Steps == {"idle", "ensure", "build", "write", "check", "insert", "end", "save"}

Transactions == [pc : Steps, id : Ids \union {0}, row : Boletos,
                 view : Ocupaciones, existed : BOOLEAN, wrote : BOOLEAN]

BoletoEvent(id, estado) == <<"Boleto", id, estado>>
OcupacionEvent(o)       == <<"OcupacionVuelo", o.hash, o.seats>>
VueloEvent(open)        == <<"Vuelo", open>>

(* A booking holds the flight's row from its first statement to its end. *)
Books(p)        == proc[p].pc \in {"ensure", "build", "write", "check", "insert"}
                     /\ proc[p].row.seat # NoSeat
FlightFree_noLock == TRUE
FlightFree      == \A p \in Procs : ~Books(p)
BoletoFree_noLock(id) == TRUE
BoletoFree(id)  == \A p \in Procs : ~(proc[p].pc = "save" /\ proc[p].id = id)
OcupacionFree   == \A p \in Procs : ~proc[p].wrote

ActiveOn(s)     == \E id \in Ids : boletos[id].seat = s /\ boletos[id].estado \in Activos
SeatsIn(states) == {s \in Seats : \E id \in Ids :
                      boletos[id].seat = s /\ boletos[id].estado \in states}

FlightSells == flightOpen /\ now < Departure
-----------------------------------------------------------------------------
Init ==
  /\ now = 0
  /\ flightOpen = TRUE
  /\ boletos = [id \in Ids |-> NoBoleto]
  /\ nextValue = 1
  /\ ocupacion = NoOcupacion
  /\ matrix = 1
  /\ outbox = {}
  /\ proc = [p \in Procs |-> Idle]
  /\ due = {}
  /\ restarts = 0

(* ReservarAsiento: the flight's row is locked, then ValidateBooking. *)
ReservarAsiento(c, s, estado) ==
  /\ proc[c].pc = "idle"
  /\ FlightFree
  /\ FlightSells
  /\ proc' = [proc EXCEPT ![c] =
       Booking("ensure", Boleto(estado, s, 0), NoOcupacion, FALSE, FALSE)]
  /\ UNCHANGED <<now, flightOpen, data, matrix, due, restarts>>

(* ListAsientos and seedMissingOccupancy: the manifest, without the lock. *)
ListAsientos(c) ==
  /\ proc[c].pc = "idle"
  /\ proc' = [proc EXCEPT ![c] =
       Booking("ensure", NoBoleto, NoOcupacion, FALSE, FALSE)]
  /\ UNCHANGED <<now, flightOpen, data, matrix, due, restarts>>

(* The step after EnsureFlightOccupancy: a booking looks at its seat; a    *)
(* reader ends, with a commit if it wrote the manifest.                    *)
AfterEnsure_again(c) == IF proc[c].row.seat # NoSeat THEN "check" ELSE "ensure"
AfterEnsure(c) == IF proc[c].row.seat # NoSeat THEN "check" ELSE "end"

(* EnsureFlightOccupancy: a manifest of the current matrix is used as is. *)
EnsureRead(c) ==
  /\ proc[c].pc = "ensure"
  /\ proc' = [proc EXCEPT ![c] =
       IF ocupacion.hash = matrix
         THEN Booking(AfterEnsure(c), proc[c].row, ocupacion, FALSE, FALSE)
         ELSE Booking("build", proc[c].row, NoOcupacion, ocupacion.hash # 0, FALSE)]
  /\ UNCHANGED <<now, flightOpen, data, matrix, due, restarts>>

BuildFlightManifest ==
  [hash  |-> matrix,
   seats |-> Manifest(matrix, SeatsIn({"SALED"}), SeatsIn({"RESERVED", "REFUNDED"}))]

(* Otherwise the active tickets are read and a manifest is built ... *)
EnsureBuild(c) ==
  /\ proc[c].pc = "build"
  /\ proc' = [proc EXCEPT ![c] =
       Booking("write", proc[c].row, BuildFlightManifest, proc[c].existed, FALSE)]
  /\ UNCHANGED <<now, flightOpen, data, matrix, due, restarts>>

(* ... and written, behind any other writer of the row: over the row that *)
(* existed, or as a new one unless somebody else's is there by now.       *)
EnsureWrite(c) ==
  /\ proc[c].pc = "write"
  /\ OcupacionFree
  /\ proc' = [proc EXCEPT ![c] =
       IF proc[c].existed \/ ocupacion.hash = 0
         THEN Booking(AfterEnsure(c), proc[c].row, proc[c].view, FALSE, TRUE)
         ELSE Booking(AfterEnsure(c), proc[c].row, ocupacion, FALSE, FALSE)]
  /\ UNCHANGED <<now, flightOpen, data, matrix, due, restarts>>

(* The manifest and its event become visible with the commit. *)
CommitOcupacion(c) ==
  /\ ocupacion' = IF proc[c].wrote THEN proc[c].view ELSE ocupacion

OcupacionEvents(c) == IF proc[c].wrote THEN {OcupacionEvent(proc[c].view)} ELSE {}

EnsureCommit(c) ==
  /\ proc[c].pc = "end"
  /\ CommitOcupacion(c)
  /\ outbox' = outbox \union OcupacionEvents(c)
  /\ proc' = [proc EXCEPT ![c] = Idle]
  /\ UNCHANGED <<now, flightOpen, boletos, nextValue, matrix, due, restarts>>

(* The seat must be outside the manifest the booking works with, without   *)
(* an active ticket, and of a class with a fare.                           *)
SeatAvailable_noManifest(c, s) == ~ActiveOn(s) /\ s \in Eligible(matrix)

SeatAvailable(c, s) ==
  /\ s \notin proc[c].view.seats
  /\ ~ActiveOn(s)
  /\ s \in Eligible(matrix)

(* Otherwise the transaction is rolled back. *)
SeatCheck(c) ==
  /\ proc[c].pc = "check"
  /\ proc' = [proc EXCEPT ![c] =
       IF SeatAvailable(c, proc[c].row.seat)
         THEN Booking("insert", proc[c].row, proc[c].view, FALSE, proc[c].wrote)
         ELSE Idle]
  /\ UNCHANGED <<now, flightOpen, data, matrix, due, restarts>>

(* v is what NextDomainID returns: the counter's value, or the identifier  *)
(* after the last row of the range when that is greater.                   *)
NextDomainID(v) ==
  LET used == {id \in Ids : boletos[id].estado # "NONE"}
  IN  /\ nextValue <= v
      /\ \A id \in used : id < v
      /\ v = nextValue \/ v - 1 \in used

(* The commit of a booking: its row, the counter, and the two events. *)
CommitBoleto(c, v) ==
  /\ boletos' = [boletos EXCEPT ![v] = proc[c].row]
  /\ nextValue' = v + 1
  /\ CommitOcupacion(c)
  /\ outbox' = outbox \union OcupacionEvents(c)
                 \union {BoletoEvent(v, proc[c].row.estado)}

(* The insert, guarded by unique_active_seat; the transaction is undone    *)
(* when the range has no identifier left.                                  *)
InsertBoleto(c) ==
  /\ proc[c].pc = "insert"
  /\ \E v \in 1 .. MaxId + 1 :
       /\ NextDomainID(v)
       /\ IF v \in Ids /\ ~ActiveOn(proc[c].row.seat)
            THEN CommitBoleto(c, v)
            ELSE UNCHANGED data
  /\ proc' = [proc EXCEPT ![c] = Idle]
  /\ UNCHANGED <<now, flightOpen, matrix, due, restarts>>
-----------------------------------------------------------------------------
(* CancelarReserva, to the commit: the ticket is locked, the flight read. *)
CancelarReserva(c, id) ==
  /\ proc[c].pc = "idle"
  /\ BoletoFree(id)
  /\ FlightSells
  /\ boletos[id].estado \in {"RESERVED", "SALED"}
  /\ proc' = [proc EXCEPT ![c] =
       Saving(id, Boleto("REFUNDED", boletos[id].seat, now + RefundDelay))]
  /\ UNCHANGED <<now, flightOpen, data, matrix, due, restarts>>

(* UpdateEstadoBoleto: its only transition is RESERVED to SALED. *)
UpdateEstadoBoleto(c, id) ==
  /\ proc[c].pc = "idle"
  /\ BoletoFree(id)
  /\ FlightSells
  /\ boletos[id].estado = "RESERVED"
  /\ proc' = [proc EXCEPT ![c] =
       Saving(id, Boleto("SALED", boletos[id].seat, boletos[id].availableAt))]
  /\ UNCHANGED <<now, flightOpen, data, matrix, due, restarts>>

Due_early(id)   == boletos[id].estado = "REFUNDED"
Due_exactly(id) == boletos[id].estado = "REFUNDED" /\ boletos[id].availableAt = now

Due(id) == boletos[id].estado = "REFUNDED" /\ boletos[id].availableAt <= now

(* releaseRefunds: the query for the due tickets ... *)
ScanRefunds ==
  /\ proc[Refunder].pc = "idle"
  /\ due = {}
  /\ due' = {id \in Ids : Due(id)}
  /\ UNCHANGED <<now, flightOpen, data, matrix, proc, restarts>>

(* ... and a transaction for each, which looks again under the lock. *)
ReleaseRefund(id) ==
  /\ proc[Refunder].pc = "idle"
  /\ id \in due
  /\ BoletoFree(id)
  /\ due' = due \ {id}
  /\ IF Due(id)
       THEN proc' = [proc EXCEPT ![Refunder] =
              Saving(id, Boleto("ANNULLED", boletos[id].seat, boletos[id].availableAt))]
       ELSE UNCHANGED proc
  /\ UNCHANGED <<now, flightOpen, data, matrix, restarts>>

SaveBoleto_noEvent(p) ==
  /\ proc[p].pc = "save"
  /\ boletos' = [boletos EXCEPT ![proc[p].id] = proc[p].row]
  /\ proc' = [proc EXCEPT ![p] = Idle]
  /\ UNCHANGED <<now, flightOpen, nextValue, ocupacion, matrix, outbox, due, restarts>>

(* Save, QueueOutboxEvent and the commit of the two. *)
SaveBoleto(p) ==
  /\ proc[p].pc = "save"
  /\ boletos' = [boletos EXCEPT ![proc[p].id] = proc[p].row]
  /\ outbox' = outbox \union {BoletoEvent(proc[p].id, proc[p].row.estado)}
  /\ proc' = [proc EXCEPT ![p] = Idle]
  /\ UNCHANGED <<now, flightOpen, nextValue, ocupacion, matrix, due, restarts>>

(* UpdateEstadoVuelo: a flight that has not left is always scheduled. *)
UpdateEstadoVuelo(open) ==
  /\ FlightFree
  /\ flightOpen' = (open \/ now < Departure)
  /\ outbox' = outbox \union {VueloEvent(flightOpen')}
  /\ UNCHANGED <<now, boletos, nextValue, ocupacion, matrix, proc, due, restarts>>

(* A statement fails, or its connection does: the transaction is undone. *)
Rollback(p) ==
  /\ proc[p].pc # "idle"
  /\ proc' = [proc EXCEPT ![p] = Idle]
  /\ UNCHANGED <<now, flightOpen, data, matrix, due, restarts>>

(* The backend stops and starts, perhaps with the next matrices.json. *)
Restart ==
  /\ restarts < MaxRestarts
  /\ restarts' = restarts + 1
  /\ matrix' \in {matrix, matrix + 1} \intersect Matrices
  /\ proc' = [p \in Procs |-> Idle]
  /\ due' = {}
  /\ UNCHANGED <<now, flightOpen, data>>

Tick ==
  /\ now < MaxNow
  /\ now' = now + 1
  /\ UNCHANGED <<flightOpen, data, matrix, proc, due, restarts>>

Ensure(c) == EnsureRead(c) \/ EnsureBuild(c) \/ EnsureWrite(c) \/ EnsureCommit(c)

Session(c) ==
  \/ \E s \in Seats, estado \in {"RESERVED", "SALED"} : ReservarAsiento(c, s, estado)
  \/ ListAsientos(c)
  \/ Ensure(c)
  \/ SeatCheck(c)
  \/ InsertBoleto(c)
  \/ \E id \in Ids : CancelarReserva(c, id) \/ UpdateEstadoBoleto(c, id)

Next ==
  \/ \E c \in Sessions : Session(c)
  \/ ScanRefunds
  \/ \E id \in Ids : ReleaseRefund(id)
  \/ \E p \in Procs : SaveBoleto(p) \/ Rollback(p)
  \/ \E open \in BOOLEAN : UpdateEstadoVuelo(open)
  \/ Restart
  \/ Tick

Spec == Init /\ [][Next]_vars

(* What the handlers and workers are owed.  A process that can take its    *)
(* next step takes it; PostgreSQL hands a contended row to every waiter in *)
(* turn; and a refund is not rolled back for ever.  No client has to call, *)
(* and the backend never has to restart.                                   *)
Fairness ==
  /\ WF_vars(Tick)
  /\ \A c \in Sessions :
       /\ WF_vars(EnsureRead(c) \/ EnsureBuild(c) \/ EnsureCommit(c)
                    \/ SeatCheck(c) \/ InsertBoleto(c) \/ SaveBoleto(c))
       /\ SF_vars(EnsureWrite(c))
  /\ SF_vars(ScanRefunds)
  /\ \A id \in Ids : SF_vars(ReleaseRefund(id))
  /\ SF_vars(SaveBoleto(Refunder))

FairSpec == Spec /\ Fairness
-----------------------------------------------------------------------------
(* The types of the variables. *)
TypeOK ==
  /\ now \in Nat
  /\ flightOpen \in BOOLEAN
  /\ boletos \in [Ids -> Boletos]
  /\ nextValue \in Nat \ {0}
  /\ ocupacion \in Ocupaciones
  /\ matrix \in Matrices
  /\ proc \in [Procs -> Transactions]
  /\ due \in SUBSET Ids
  /\ restarts \in Nat

(* Two tickets that are not annulled never have the same seat, whatever    *)
(* the interleaving of purchases, payments, refunds and restarts: the      *)
(* promise of ReservarAsiento, the flight lock and unique_active_seat.     *)
OneTicketPerSeat ==
  \A t, u \in Ids :
    (/\ boletos[t].estado \notin {"NONE", "ANNULLED"}
     /\ boletos[u].estado \notin {"NONE", "ANNULLED"}
     /\ boletos[t].seat = boletos[u].seat) => t = u

(* The seat a booking has checked is still free when it inserts: the lock  *)
(* on the flight alone excludes the double sale, and no purchase is ever   *)
(* turned down by unique_active_seat after its check succeeded.            *)
CheckedSeatStaysFree ==
  \A c \in Sessions : proc[c].pc = "insert" =>
    \A id \in Ids : boletos[id].seat = proc[c].row.seat =>
      boletos[id].estado \in {"NONE", "ANNULLED"}

(* A seat is never both in the flight's manifest and on an active ticket:  *)
(* nobody is sold the seat of a seeded passenger, and a manifest that is   *)
(* generated keeps the purchases made before (EnsureFlightOccupancy).      *)
ManifestKeepsPurchases ==
  \A id \in Ids : boletos[id].estado \in Activos =>
    boletos[id].seat \notin ocupacion.seats

(* The events of a ticket in sync_outbox lead to its row: the last state   *)
(* of its life that was queued is the state it is in, so a replica that    *)
(* applies them all ends with the row of the owner.                        *)
Rank(estado) == CASE estado = "RESERVED" -> 1 [] estado = "SALED"    -> 2
                  [] estado = "REFUNDED" -> 3 [] estado = "ANNULLED" -> 4
                  [] OTHER -> 0

OutboxLeadsToRow ==
  \A id \in Ids :
    /\ boletos[id].estado # "NONE" => BoletoEvent(id, boletos[id].estado) \in outbox
    /\ \A estado \in Estados : BoletoEvent(id, estado) \in outbox =>
         Rank(estado) <= Rank(boletos[id].estado)

(* A seat that a ticket held is sold again only once that ticket was       *)
(* annulled and the refund window it was given at its cancellation is over.*)
ResoldOnlyAfterRefundWindow ==
  [][\A t, u \in Ids :
       (/\ boletos[t].estado = "NONE" /\ boletos'[t].estado # "NONE"
        /\ boletos[u].estado # "NONE" /\ boletos[u].seat = boletos'[t].seat)
       => /\ boletos[u].estado = "ANNULLED"
          /\ boletos[u].availableAt > 0 => boletos[u].availableAt <= now]_vars

(* Every refund that has started ends, and its seat returns to the sale,   *)
(* even when the backend restarts and the worker's list is lost.           *)
RefundsAreReleased ==
  \A id \in Ids : boletos[id].estado = "REFUNDED" ~> boletos[id].estado = "ANNULLED"

(* No handler waits for ever: neither the flight's lock, nor the ticket's, *)
(* nor the manifest row's is held by processes that wait for each other.   *)
RequestsEnd == \A c \in Sessions : proc[c].pc # "idle" ~> proc[c].pc = "idle"

(* The handlers implement SeatInventory: a seat is what the one ticket     *)
(* that is active on it says.                                              *)
HolderOf(s) == CHOOSE id \in Ids : boletos[id].seat = s /\ boletos[id].estado \in Activos

seatBar == [s \in Seats |-> IF ActiveOn(s)
              THEN [state |-> boletos[HolderOf(s)].estado, by |-> HolderOf(s)]
              ELSE [state |-> "free", by |-> 0]]

grantedBar == {id \in Ids : boletos[id].estado # "NONE"}

Inventory == INSTANCE SeatInventory WITH seat <- seatBar, granted <- grantedBar

ImplementsInventory == Inventory!Spec
=============================================================================
