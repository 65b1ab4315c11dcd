------------------------- MODULE SeatBookingProofs -------------------------
(***************************************************************************)
(* Theorems about SeatBooking, for every plane, every number of handlers   *)
(* and every range of identifiers, with their proofs.                      *)
(***************************************************************************)
EXTENDS SeatBooking, TLAPS

USE DEF Estados, Activos, Boleto, NoBoleto, NoOcupacion, Booking, Saving, Idle,
        Steps, Ids, Procs

(* The manifest a process builds is one. *)
LEMMA BuildType ==
  ASSUME NEW m \in Matrices, NEW sold \in SUBSET Seats, NEW held \in SUBSET Seats
  PROVE  Manifest(m, sold, held) \in SUBSET Seats
BY ManifestAssumption, EligibleAssumption

LEMMA SeatsInType ==
  ASSUME NEW states
  PROVE  SeatsIn(states) \in SUBSET Seats
BY DEF SeatsIn

LEMMA InitType == Init => TypeOK
BY SeatBookingAssumption
   DEF Init, TypeOK, Boletos, Ocupaciones, Transactions, Matrices

(* A change of the record of one process. *)
LEMMA ProcUpdate ==
  ASSUME TypeOK, NEW p \in Procs, NEW t \in Transactions,
         proc' = [proc EXCEPT ![p] = t]
  PROVE  /\ proc' \in [Procs -> Transactions]
         /\ proc'[p] = t
         /\ \A q \in Procs : q # p => proc'[q] = proc[q]
BY DEF TypeOK

LEMMA IdleType == Idle \in Transactions
BY SeatBookingAssumption DEF Transactions, Boletos, Ocupaciones

LEMMA SessionIsProc == Sessions \subseteq Procs /\ Refunder \in Procs
OBVIOUS

LEMMA NextType == TypeOK /\ [Next]_vars => TypeOK'
<1> SUFFICES ASSUME TypeOK, [Next]_vars PROVE TypeOK'
  OBVIOUS
<1> USE SeatBookingAssumption DEF TypeOK, Boletos, Ocupaciones, Transactions, data, Matrices
<1>1. ASSUME NEW c \in Sessions, Session(c) PROVE TypeOK'
  <2>1. ASSUME NEW s \in Seats, NEW estado \in {"RESERVED", "SALED"},
               ReservarAsiento(c, s, estado)
        PROVE  TypeOK'
    BY <2>1 DEF ReservarAsiento
  <2>2. CASE ListAsientos(c)
    BY <2>2 DEF ListAsientos
  <2>3. CASE EnsureRead(c)
    BY <2>3 DEF EnsureRead, AfterEnsure
  <2>4. CASE EnsureBuild(c)
    <3>1. BuildFlightManifest \in Ocupaciones
      BY BuildType, SeatsInType DEF BuildFlightManifest
    <3> QED BY <3>1, <2>4 DEF EnsureBuild
  <2>5. CASE EnsureWrite(c)
    BY <2>5 DEF EnsureWrite, AfterEnsure
  <2>6. CASE EnsureCommit(c)
    BY <2>6 DEF EnsureCommit, CommitOcupacion
  <2>7. CASE SeatCheck(c)
    BY <2>7 DEF SeatCheck
  <2>8. CASE InsertBoleto(c)
    <3>1. proc[c].row \in Boletos /\ proc[c].view \in Ocupaciones
      OBVIOUS
    <3>2. PICK v \in 1 .. MaxId + 1 : IF v \in Ids /\ ~ActiveOn(proc[c].row.seat)
                                        THEN CommitBoleto(c, v)
                                        ELSE UNCHANGED data
      BY <2>8 DEF InsertBoleto
    <3>3. boletos' \in [Ids -> Boletos] /\ nextValue' \in Nat \ {0} /\ ocupacion' \in Ocupaciones
      <4> HIDE DEF Boletos, Ocupaciones, Transactions
      <4> QED BY <3>1, <3>2 DEF CommitBoleto, CommitOcupacion
    <3> QED BY <3>3, <2>8 DEF InsertBoleto
  <2>9. ASSUME NEW id \in Ids, CancelarReserva(c, id) PROVE TypeOK'
    BY <2>9 DEF CancelarReserva
  <2>10. ASSUME NEW id \in Ids, UpdateEstadoBoleto(c, id) PROVE TypeOK'
    BY <2>10 DEF UpdateEstadoBoleto
  <2> QED BY <1>1, <2>1, <2>2, <2>3, <2>4, <2>5, <2>6, <2>7, <2>8, <2>9, <2>10
          DEF Session, Ensure
<1>2. CASE ScanRefunds
  BY <1>2 DEF ScanRefunds
<1>3. ASSUME NEW id \in Ids, ReleaseRefund(id) PROVE TypeOK'
  <2>1. boletos[id] \in Boletos /\ Refunder \in Procs
    OBVIOUS
  <2>2. Saving(id, Boleto("ANNULLED", boletos[id].seat, boletos[id].availableAt))
          \in Transactions
    BY <2>1
  <2>3. proc' \in [Procs -> Transactions]
    <3> HIDE DEF Saving, Transactions
    <3> QED BY <1>3, <2>1, <2>2 DEF ReleaseRefund
  <2> QED BY <1>3, <2>3 DEF ReleaseRefund
<1>4. ASSUME NEW p \in Procs, SaveBoleto(p) PROVE TypeOK'
  BY <1>4 DEF SaveBoleto
<1>5. ASSUME NEW p \in Procs, Rollback(p) PROVE TypeOK'
  BY <1>5 DEF Rollback
<1>6. ASSUME NEW open \in BOOLEAN, UpdateEstadoVuelo(open) PROVE TypeOK'
  BY <1>6 DEF UpdateEstadoVuelo
<1>7. CASE Restart
  BY <1>7 DEF Restart
<1>8. CASE Tick
  BY <1>8 DEF Tick
<1>9. CASE UNCHANGED vars
  BY <1>9 DEF vars
<1> QED BY <1>1, <1>2, <1>3, <1>4, <1>5, <1>6, <1>7, <1>8, <1>9 DEF Next

(* The variables keep their types. *)
THEOREM TypeCorrect == Spec => []TypeOK
BY InitType, NextType, PTL DEF Spec
-----------------------------------------------------------------------------
(* The inductive invariant: what the locks and the checks of a transaction *)
(* give it until it ends.                                                  *)

(* A row that exists is of a seat, and an annulled one has had its window. *)
RowsOK ==
  \A id \in Ids :
    /\ boletos[id].estado # "NONE" => boletos[id].seat \in Seats
    /\ boletos[id].estado = "ANNULLED" => boletos[id].availableAt <= now

(* A booking is of one seat, in a state that can be bought. *)
BookingsOK ==
  \A p \in Procs :
    /\ proc[p].pc \in {"check", "insert"} => proc[p].row.seat # NoSeat
    /\ Books(p) => proc[p].row.estado \in {"RESERVED", "SALED"}

(* The flight's row has one owner. *)
FlightLocked == \A p, q \in Procs : Books(p) /\ Books(q) => p = q

(* From its check to its insert, nobody else takes the seat of a booking. *)
InsertsOK ==
  \A p \in Procs : proc[p].pc = "insert" => ~ActiveOn(proc[p].row.seat)

(* A ticket that is about to be saved is one that exists, moves forward in *)
(* its life and stays on its seat ...                                      *)
SavesOK ==
  \A p \in Procs : proc[p].pc = "save" =>
    /\ proc[p].id \in Ids
    /\ proc[p].row.seat = boletos[proc[p].id].seat
    /\ <<boletos[proc[p].id].estado, proc[p].row.estado>> \in
         {<<"RESERVED", "SALED">>, <<"RESERVED", "REFUNDED">>, <<"SALED", "REFUNDED">>,
          <<"REFUNDED", "ANNULLED">>}
    /\ proc[p].row.estado = "ANNULLED" => proc[p].row.availableAt <= now

(* ... and its row has one owner. *)
BoletosLocked ==
  \A p, q \in Procs :
    (proc[p].pc = "save" /\ proc[q].pc = "save" /\ proc[p].id = proc[q].id) => p = q

(* The refund worker does nothing else. *)
RefunderOK == proc[Refunder].pc \in {"idle", "save"}

IInv == /\ TypeOK
        /\ RowsOK
        /\ BookingsOK
        /\ FlightLocked
        /\ InsertsOK
        /\ SavesOK
        /\ BoletosLocked
        /\ RefunderOK
        /\ OneTicketPerSeat

LEMMA InitIInv == Init => IInv
<1> SUFFICES ASSUME Init PROVE IInv
  OBVIOUS
<1>1. TypeOK
  BY InitType
<1> QED
  BY <1>1 DEF Init, IInv, RowsOK, BookingsOK, FlightLocked, InsertsOK, SavesOK,
     BoletosLocked, RefunderOK, OneTicketPerSeat, Books

LEMMA NextIInv == IInv /\ [Next]_vars => IInv'
<1> SUFFICES ASSUME IInv, [Next]_vars PROVE IInv'
  OBVIOUS
<1>0. TypeOK /\ TypeOK'
  BY NextType DEF IInv
<1> USE SeatBookingAssumption
    DEF IInv, RowsOK, BookingsOK, FlightLocked, InsertsOK, SavesOK, BoletosLocked,
        RefunderOK, OneTicketPerSeat, Books, ActiveOn, data
<1>1. ASSUME NEW c \in Sessions, Session(c) PROVE IInv'
  <2>0. c \in Procs /\ c # Refunder
    OBVIOUS
  <2>1. ASSUME NEW s \in Seats, NEW estado \in {"RESERVED", "SALED"},
               ReservarAsiento(c, s, estado)
        PROVE  IInv'
    BY <1>0, <2>0, <2>1 DEF ReservarAsiento, FlightFree, TypeOK
  <2>2. CASE ListAsientos(c)
    BY <1>0, <2>0, <2>2 DEF ListAsientos, AfterEnsure, TypeOK
  <2>3. CASE EnsureRead(c)
    BY <1>0, <2>0, <2>3 DEF EnsureRead, AfterEnsure, TypeOK
  <2>4. CASE EnsureBuild(c)
    BY <1>0, <2>0, <2>4 DEF EnsureBuild, AfterEnsure, TypeOK
  <2>5. CASE EnsureWrite(c)
    BY <1>0, <2>0, <2>5 DEF EnsureWrite, AfterEnsure, TypeOK
  <2>6. CASE EnsureCommit(c)
    BY <1>0, <2>0, <2>6 DEF EnsureCommit, AfterEnsure, TypeOK
  <2>7. CASE SeatCheck(c)
    BY <1>0, <2>0, <2>7 DEF SeatCheck, SeatAvailable, TypeOK
  <2>8. CASE InsertBoleto(c)
    <3>1. /\ proc[c].pc = "insert" /\ ~ActiveOn(proc[c].row.seat)
          /\ proc' = [proc EXCEPT ![c] = Idle]
          /\ now' = now
          /\ proc[c].row.seat \in Seats /\ proc[c].row.estado \in {"RESERVED", "SALED"}
      BY <1>0, <2>0, <2>8 DEF InsertBoleto, TypeOK, Transactions, Boletos
    <3>2. PICK v \in 1 .. MaxId + 1 : NextDomainID(v) /\ IF v \in Ids /\ ~ActiveOn(proc[c].row.seat)
                                        THEN CommitBoleto(c, v)
                                        ELSE UNCHANGED data
      BY <2>8 DEF InsertBoleto
    <3>3. CASE ~(v \in Ids)
      BY <1>0, <2>0, <3>1, <3>2, <3>3 DEF TypeOK
    <3>4. CASE v \in Ids
      <4>1. /\ boletos' = [boletos EXCEPT ![v] = proc[c].row]
            /\ boletos[v].estado = "NONE"
        BY <1>0, <3>1, <3>2, <3>4 DEF CommitBoleto, NextDomainID, TypeOK
      <4>2. RowsOK'
        BY <1>0, <3>1, <4>1 DEF TypeOK
      <4>3. \A i \in Ids : boletos[i].estado \notin {"NONE", "ANNULLED"} =>
               boletos[i].seat # proc[c].row.seat
        BY <1>0, <3>1 DEF TypeOK, Boletos
      <4>4. OneTicketPerSeat'
        BY <1>0, <3>1, <4>1, <4>3 DEF TypeOK
      <4>5. BookingsOK' /\ FlightLocked' /\ BoletosLocked' /\ RefunderOK'
        BY <1>0, <2>0, <3>1 DEF TypeOK
      <4>6. InsertsOK'
        BY <1>0, <2>0, <3>1, <4>1 DEF TypeOK
      <4>7. SavesOK'
        BY <1>0, <2>0, <3>1, <4>1 DEF TypeOK
      <4> QED BY <1>0, <4>2, <4>4, <4>5, <4>6, <4>7
    <3> QED BY <3>3, <3>4
  <2>9. ASSUME NEW id \in Ids, CancelarReserva(c, id) PROVE IInv'
    BY <1>0, <2>0, <2>9 DEF CancelarReserva, BoletoFree, TypeOK
  <2>10. ASSUME NEW id \in Ids, UpdateEstadoBoleto(c, id) PROVE IInv'
    BY <1>0, <2>0, <2>10 DEF UpdateEstadoBoleto, BoletoFree, TypeOK
  <2> QED BY <1>1, <2>1, <2>2, <2>3, <2>4, <2>5, <2>6, <2>7, <2>8, <2>9, <2>10
          DEF Session, Ensure
<1>2. CASE ScanRefunds
  BY <1>0, <1>2 DEF ScanRefunds
<1>3. ASSUME NEW id \in Ids, ReleaseRefund(id) PROVE IInv'
  BY <1>0, <1>3 DEF ReleaseRefund, BoletoFree, Due, TypeOK
<1>4. ASSUME NEW p \in Procs, SaveBoleto(p) PROVE IInv'
  <2>1. /\ proc[p].pc = "save" /\ proc[p].id \in Ids
        /\ proc' = [proc EXCEPT ![p] = Idle]
        /\ boletos' = [boletos EXCEPT ![proc[p].id] = proc[p].row]
        /\ now' = now
    BY <1>4 DEF SaveBoleto
  <2>2. \A i \in Ids : /\ boletos'[i].seat = boletos[i].seat
                       /\ boletos[i].estado = "NONE" => boletos'[i].estado = "NONE"
                       /\ boletos'[i].estado \in Activos => boletos[i].estado \in Activos
                       /\ i # proc[p].id => boletos'[i] = boletos[i]
    BY <1>0, <2>1 DEF TypeOK
  <2>3. RowsOK'
    BY <1>0, <2>1, <2>2 DEF TypeOK
  <2>4. OneTicketPerSeat'
    <3>1. \A i \in Ids : boletos'[i].estado \notin {"NONE", "ANNULLED"} =>
                          boletos[i].estado \notin {"NONE", "ANNULLED"}
      BY <1>0, <2>1, <2>2 DEF TypeOK, Boletos
    <3> QED BY <2>2, <3>1
  <2>5. InsertsOK'
    BY <1>0, <2>1, <2>2 DEF TypeOK
  <2>6. BookingsOK' /\ FlightLocked' /\ BoletosLocked' /\ RefunderOK'
    BY <1>0, <2>1 DEF TypeOK
  <2>7. SavesOK'
    BY <1>0, <2>1, <2>2 DEF TypeOK
  <2> QED BY <1>0, <2>3, <2>4, <2>6, <2>7, <2>5
<1>5. ASSUME NEW p \in Procs, Rollback(p) PROVE IInv'
  BY <1>0, <1>5 DEF Rollback, TypeOK
<1>6. ASSUME NEW open \in BOOLEAN, UpdateEstadoVuelo(open) PROVE IInv'
  BY <1>0, <1>6 DEF UpdateEstadoVuelo
<1>7. CASE Restart
  BY <1>0, <1>7 DEF Restart, TypeOK
<1>8. CASE Tick
  <2>1. \A id \in Ids : boletos[id].availableAt \in Nat
    BY <1>0 DEF TypeOK, Boletos
  <2>2. \A p \in Procs : proc[p].row.availableAt \in Nat
    BY <1>0 DEF TypeOK, Transactions, Boletos
  <2>3. RowsOK' /\ SavesOK'
    BY <1>0, <1>8, <2>1, <2>2 DEF Tick, TypeOK
  <2> QED BY <1>0, <1>8, <2>3 DEF Tick
<1>9. CASE UNCHANGED vars
  BY <1>0, <1>9 DEF vars
<1> QED BY <1>1, <1>2, <1>3, <1>4, <1>5, <1>6, <1>7, <1>8, <1>9 DEF Next

(* The inductive invariant holds in every reachable state. *)
THEOREM InvariantHolds == Spec => []IInv
BY InitIInv, NextIInv, PTL DEF Spec

(* For every plane, number of handlers and range of identifiers: a seat is *)
(* never on two tickets that are not annulled.                             *)
THEOREM NoDoubleSale == Spec => []OneTicketPerSeat
BY InvariantHolds, PTL DEF IInv

(* The lock on the flight's row makes the check of a booking good until    *)
(* its insert: unique_active_seat never turns a checked booking down.      *)
THEOREM LockProtectsTheCheck == Spec => []CheckedSeatStaysFree
<1>1. IInv => CheckedSeatStaysFree
  BY DEF IInv, InsertsOK, CheckedSeatStaysFree, ActiveOn, TypeOK, Boletos
<1> QED BY <1>1, InvariantHolds, PTL

-----------------------------------------------------------------------------
(* The purchases and the manifest while matrices.json stays the same: a    *)
(* manifest is written once, before the first ticket, and every booking    *)
(* after it sees it.                                                       *)
ManifestFirst ==
  ocupacion.hash = 0 => ocupacion.seats = {} /\ \A s \in Seats : ~ActiveOn(s)

ViewsOK ==
  \A p \in Procs :
    /\ proc[p].pc \in {"build", "write"} => proc[p].existed = FALSE
    /\ proc[p].wrote = TRUE => ocupacion.hash = 0 /\ proc[p].view.hash = 1
    /\ proc[p].pc = "write" => proc[p].view.hash = 1
    /\ proc[p].pc \in {"check", "insert"} =>
         proc[p].wrote = TRUE \/ (ocupacion.hash # 0 /\ proc[p].view = ocupacion)
    /\ proc[p].pc = "insert" => proc[p].row.seat \notin proc[p].view.seats

OneWriter == \A p, q \in Procs : proc[p].wrote = TRUE /\ proc[q].wrote = TRUE => p = q

ManifestInv == ManifestFirst /\ ViewsOK /\ OneWriter /\ ManifestKeepsPurchases

LEMMA NextManifestInv ==
  ASSUME MaxMatrix = 1, IInv, IInv', ManifestInv, [Next]_vars
  PROVE  ManifestInv'
<1>0. TypeOK /\ TypeOK' /\ matrix = 1 /\ matrix' = 1
  BY DEF IInv, TypeOK, Matrices
<1> USE SeatBookingAssumption
    DEF ManifestInv, ManifestFirst, ViewsOK, OneWriter, ManifestKeepsPurchases,
        ActiveOn, Books, data
<1>1. ASSUME NEW c \in Sessions, Session(c) PROVE ManifestInv'
  <2>0. c \in Procs /\ c # Refunder
    OBVIOUS
  <2>1. ASSUME NEW s \in Seats, NEW estado \in {"RESERVED", "SALED"},
               ReservarAsiento(c, s, estado)
        PROVE  ManifestInv'
    BY <1>0, <2>0, <2>1 DEF ReservarAsiento, TypeOK
  <2>2. CASE ListAsientos(c)
    BY <1>0, <2>0, <2>2 DEF ListAsientos, TypeOK
  <2>3. CASE EnsureRead(c)
    <3>1. ocupacion.hash \in {0, 1}
      BY <1>0 DEF TypeOK, Ocupaciones, Matrices
    <3>2. CASE ocupacion.hash = 1
      BY <1>0, <2>0, <2>3, <3>2 DEF EnsureRead, AfterEnsure, TypeOK
    <3>3. CASE ocupacion.hash = 0
      <4>1. (ocupacion.hash # 0) = FALSE
        BY <3>3
      <4> QED BY <1>0, <2>0, <2>3, <3>3, <4>1 DEF EnsureRead, AfterEnsure, TypeOK
    <3> QED BY <3>1, <3>2, <3>3
  <2>4. CASE EnsureBuild(c)
    BY <1>0, <2>0, <2>4 DEF EnsureBuild, BuildFlightManifest, TypeOK
  <2>5. CASE EnsureWrite(c)
    BY <1>0, <2>0, <2>5 DEF EnsureWrite, OcupacionFree, AfterEnsure, TypeOK
  <2>6. CASE EnsureCommit(c)
    <3>1. CASE proc[c].wrote = TRUE
      <4>1. ocupacion' = proc[c].view /\ boletos' = boletos /\ proc' = [proc EXCEPT ![c] = Idle]
        BY <2>6, <3>1 DEF EnsureCommit, CommitOcupacion
      <4>2. \A s \in Seats : ~ActiveOn(s)
        BY <2>0, <3>1
      <4>3. ManifestFirst' /\ ManifestKeepsPurchases'
        BY <1>0, <2>0, <3>1, <4>1, <4>2 DEF IInv, RowsOK
      <4>4. ViewsOK' /\ OneWriter'
        BY <1>0, <2>0, <3>1, <4>1 DEF TypeOK, IInv, FlightLocked
      <4> QED BY <4>3, <4>4
    <3>2. CASE proc[c].wrote = FALSE
      BY <1>0, <2>0, <2>6, <3>2 DEF EnsureCommit, CommitOcupacion, TypeOK
    <3>3. proc[c].wrote \in BOOLEAN
      BY <1>0, <2>0 DEF TypeOK, Transactions
    <3> QED BY <3>1, <3>2, <3>3
  <2>7. CASE SeatCheck(c)
    BY <1>0, <2>0, <2>7 DEF SeatCheck, SeatAvailable, TypeOK
  <2>8. CASE InsertBoleto(c)
    <3>1. /\ proc[c].pc = "insert" /\ proc[c].wrote \in BOOLEAN
          /\ proc' = [proc EXCEPT ![c] = Idle]
      BY <1>0, <2>0, <2>8 DEF InsertBoleto, TypeOK, Transactions
    <3>2. PICK v \in 1 .. MaxId + 1 : IF v \in Ids /\ ~ActiveOn(proc[c].row.seat)
                                        THEN CommitBoleto(c, v)
                                        ELSE UNCHANGED data
      BY <2>8 DEF InsertBoleto
    <3>3. CASE UNCHANGED data
      BY <1>0, <2>0, <3>1, <3>3 DEF TypeOK
    <3>4. CASE v \in Ids /\ CommitBoleto(c, v)
      <4>1. /\ boletos' = [boletos EXCEPT ![v] = proc[c].row]
            /\ ocupacion' = IF proc[c].wrote THEN proc[c].view ELSE ocupacion
        BY <3>4 DEF CommitBoleto, CommitOcupacion
      <4>2. ocupacion' = proc[c].view /\ ocupacion'.hash # 0
        BY <2>0, <3>1, <4>1
      <4>3. ManifestFirst' /\ OneWriter'
        BY <1>0, <2>0, <3>1, <4>2 DEF TypeOK
      <4>4. ViewsOK'
        BY <1>0, <2>0, <3>1, <4>1, <4>2 DEF TypeOK, IInv, FlightLocked
      <4>5. \A id \in Ids : boletos[id].estado \in Activos =>
                             boletos[id].seat \notin ocupacion'.seats
        BY <1>0, <2>0, <3>1, <4>1, <4>2 DEF TypeOK, IInv, RowsOK
      <4>6. ManifestKeepsPurchases'
        BY <1>0, <2>0, <3>1, <3>4, <4>1, <4>2, <4>5 DEF TypeOK
      <4> QED BY <4>3, <4>4, <4>6
    <3> QED BY <3>2, <3>3, <3>4
  <2>9. ASSUME NEW id \in Ids, CancelarReserva(c, id) PROVE ManifestInv'
    BY <1>0, <2>0, <2>9 DEF CancelarReserva, TypeOK
  <2>10. ASSUME NEW id \in Ids, UpdateEstadoBoleto(c, id) PROVE ManifestInv'
    BY <1>0, <2>0, <2>10 DEF UpdateEstadoBoleto, TypeOK
  <2> QED BY <1>1, <2>1, <2>2, <2>3, <2>4, <2>5, <2>6, <2>7, <2>8, <2>9, <2>10
          DEF Session, Ensure
<1>2. CASE ScanRefunds
  BY <1>0, <1>2 DEF ScanRefunds
<1>3. ASSUME NEW id \in Ids, ReleaseRefund(id) PROVE ManifestInv'
  BY <1>0, <1>3 DEF ReleaseRefund, TypeOK
<1>4. ASSUME NEW p \in Procs, SaveBoleto(p) PROVE ManifestInv'
  <2>1. /\ proc[p].pc = "save" /\ proc[p].id \in Ids
        /\ proc' = [proc EXCEPT ![p] = Idle] /\ ocupacion' = ocupacion
        /\ boletos' = [boletos EXCEPT ![proc[p].id] = proc[p].row]
    BY <1>4 DEF SaveBoleto, IInv, SavesOK
  <2>2. \A i \in Ids : /\ boletos'[i].seat = boletos[i].seat
                       /\ boletos'[i].estado \in Activos => boletos[i].estado \in Activos
    BY <1>0, <2>1 DEF TypeOK, IInv, SavesOK
  <2>3. ManifestFirst' /\ ManifestKeepsPurchases'
    BY <2>1, <2>2
  <2>4. ViewsOK' /\ OneWriter'
    BY <1>0, <2>1 DEF TypeOK
  <2> QED BY <2>3, <2>4
<1>5. ASSUME NEW p \in Procs, Rollback(p) PROVE ManifestInv'
  BY <1>0, <1>5 DEF Rollback, TypeOK
<1>6. ASSUME NEW open \in BOOLEAN, UpdateEstadoVuelo(open) PROVE ManifestInv'
  BY <1>0, <1>6 DEF UpdateEstadoVuelo
<1>7. CASE Restart
  BY <1>0, <1>7 DEF Restart, TypeOK
<1>8. CASE Tick
  BY <1>0, <1>8 DEF Tick
<1>9. CASE UNCHANGED vars
  BY <1>0, <1>9 DEF vars
<1> QED BY <1>1, <1>2, <1>3, <1>4, <1>5, <1>6, <1>7, <1>8, <1>9 DEF Next

(* As long as matrices.json does not change, no seat is ever both filled   *)
(* in the manifest and on an active ticket.                                *)
THEOREM ManifestIsKept ==
  ASSUME MaxMatrix = 1
  PROVE  Spec => []ManifestKeepsPurchases
<1>1. Init => ManifestInv
  BY SeatBookingAssumption
     DEF Init, ManifestInv, ManifestFirst, ViewsOK, OneWriter, ManifestKeepsPurchases,
         ActiveOn
<1>2. IInv /\ IInv' /\ ManifestInv /\ [Next]_vars => ManifestInv'
  BY NextManifestInv
<1>3. ManifestInv => ManifestKeepsPurchases
  BY DEF ManifestInv
<1> QED BY <1>1, <1>2, <1>3, InvariantHolds, PTL DEF Spec
-----------------------------------------------------------------------------
(* The events of sync_outbox and the rows they tell of. *)

LEMMA EventsDiffer ==
  ASSUME NEW i, NEW e, NEW j, NEW f, NEW o, NEW b
  PROVE  /\ BoletoEvent(i, e) # OcupacionEvent(o)
         /\ BoletoEvent(i, e) # VueloEvent(b)
         /\ BoletoEvent(i, e) = BoletoEvent(j, f) => i = j /\ e = f
BY DEF BoletoEvent, OcupacionEvent, VueloEvent

LEMMA RankFacts ==
  /\ Rank("NONE") = 0 /\ Rank("RESERVED") = 1 /\ Rank("SALED") = 2
  /\ Rank("REFUNDED") = 3 /\ Rank("ANNULLED") = 4
BY DEF Rank

LEMMA NextOutbox ==
  ASSUME IInv, IInv', OutboxLeadsToRow, [Next]_vars
  PROVE  OutboxLeadsToRow'
<1>0. TypeOK /\ TypeOK'
  BY DEF IInv
<1>same. ASSUME boletos' = boletos,
             \A id, estado : BoletoEvent(id, estado) \in outbox' <=>
                              BoletoEvent(id, estado) \in outbox
      PROVE  OutboxLeadsToRow'
  BY <1>same, Zenon DEF OutboxLeadsToRow, BoletoEvent, Rank
<1>1. ASSUME NEW c \in Sessions, EnsureCommit(c) PROVE OutboxLeadsToRow'
  <2>1. boletos' = boletos
    BY <1>1 DEF EnsureCommit
  <2>2. \A id, estado : BoletoEvent(id, estado) \in outbox' <=>
                        BoletoEvent(id, estado) \in outbox
    BY <1>1, EventsDiffer DEF EnsureCommit, OcupacionEvents
  <2> QED BY <2>1, <2>2, <1>same
<1>2. ASSUME NEW open \in BOOLEAN, UpdateEstadoVuelo(open) PROVE OutboxLeadsToRow'
  <2>1. boletos' = boletos
    BY <1>2 DEF UpdateEstadoVuelo
  <2>2. \A id, estado : BoletoEvent(id, estado) \in outbox' <=>
                        BoletoEvent(id, estado) \in outbox
    BY <1>2, EventsDiffer DEF UpdateEstadoVuelo
  <2> QED BY <2>1, <2>2, <1>same
<1>3. ASSUME NEW id \in Ids, NEW row \in Boletos,
             boletos' = [boletos EXCEPT ![id] = row],
             row.estado \in Estados, Rank(boletos[id].estado) <= Rank(row.estado),
             \A i, estado : BoletoEvent(i, estado) \in outbox' <=>
                  BoletoEvent(i, estado) \in outbox \/ (i = id /\ estado = row.estado)
      PROVE  OutboxLeadsToRow'
  <2> SUFFICES ASSUME NEW i \in Ids
               PROVE  /\ boletos'[i].estado # "NONE" =>
                            BoletoEvent(i, boletos'[i].estado) \in outbox'
                      /\ \A estado \in Estados : BoletoEvent(i, estado) \in outbox' =>
                            Rank(estado) <= Rank(boletos'[i].estado)
    BY DEF OutboxLeadsToRow, BoletoEvent, Rank
  <2>1. CASE i = id
    <3>1. boletos'[i] = row /\ boletos[i].estado \in Estados \union {"NONE"}
      BY <1>0, <1>3, <2>1 DEF TypeOK, Boletos
    <3> QED BY <1>3, <2>1, <3>1, RankFacts DEF OutboxLeadsToRow
  <2>2. CASE i # id
    <3>1. boletos'[i] = boletos[i]
      BY <1>0, <1>3, <2>2 DEF TypeOK
    <3> QED BY <1>3, <2>2, <3>1 DEF OutboxLeadsToRow
  <2> QED BY <2>1, <2>2
<1>4. ASSUME NEW c \in Sessions, InsertBoleto(c) PROVE OutboxLeadsToRow'
  <2>1. PICK v \in 1 .. MaxId + 1 : NextDomainID(v) /\ IF v \in Ids /\ ~ActiveOn(proc[c].row.seat)
                                                        THEN CommitBoleto(c, v)
                                                        ELSE UNCHANGED data
    BY <1>4 DEF InsertBoleto
  <2>2. CASE UNCHANGED data
    BY <2>2, <1>same DEF data
  <2>3. CASE v \in Ids /\ CommitBoleto(c, v)
    <3>1. boletos' = [boletos EXCEPT ![v] = proc[c].row] /\ proc[c].row \in Boletos
      BY <1>0, <2>3 DEF CommitBoleto, TypeOK, Transactions
    <3>2. proc[c].row.estado \in {"RESERVED", "SALED"}
      BY <1>0, <1>4 DEF IInv, BookingsOK, InsertBoleto, Books, TypeOK
    <3>3. boletos[v].estado = "NONE"
      BY <1>0, <2>1, <2>3 DEF NextDomainID, TypeOK, Boletos
    <3>4. \A i, estado : BoletoEvent(i, estado) \in outbox' <=>
             BoletoEvent(i, estado) \in outbox \/ (i = v /\ estado = proc[c].row.estado)
      BY <2>3, EventsDiffer DEF CommitBoleto, OcupacionEvents
    <3>5. Rank(boletos[v].estado) <= Rank(proc[c].row.estado)
      BY <3>2, <3>3, RankFacts
    <3> HIDE DEF Ids
    <3> QED BY <1>3, <2>3, <3>1, <3>2, <3>4, <3>5 DEF Estados
  <2> QED BY <2>1, <2>2, <2>3
<1>5. ASSUME NEW p \in Procs, SaveBoleto(p) PROVE OutboxLeadsToRow'
  <2>1. /\ proc[p].id \in Ids /\ proc[p].row \in Boletos
        /\ <<boletos[proc[p].id].estado, proc[p].row.estado>> \in
             {<<"RESERVED", "SALED">>, <<"RESERVED", "REFUNDED">>, <<"SALED", "REFUNDED">>,
              <<"REFUNDED", "ANNULLED">>}
    BY <1>0, <1>5 DEF SaveBoleto, IInv, SavesOK, TypeOK, Transactions
  <2>2. boletos' = [boletos EXCEPT ![proc[p].id] = proc[p].row]
    BY <1>5 DEF SaveBoleto
  <2>3. \A i, estado : BoletoEvent(i, estado) \in outbox' <=>
           BoletoEvent(i, estado) \in outbox \/ (i = proc[p].id /\ estado = proc[p].row.estado)
    BY <1>5, EventsDiffer DEF SaveBoleto
  <2>4. Rank(boletos[proc[p].id].estado) <= Rank(proc[p].row.estado)
    BY <2>1, RankFacts
  <2>5. proc[p].row.estado \in Estados
    BY <2>1
  <2> QED BY <1>3, <2>1, <2>2, <2>3, <2>4, <2>5
<1>6. CASE UNCHANGED <<boletos, outbox>>
  BY <1>6, <1>same
<1> QED BY <1>1, <1>2, <1>4, <1>5, <1>6
        DEF Next, Session, Ensure, ReservarAsiento, ListAsientos, EnsureRead, EnsureBuild,
            EnsureWrite, SeatCheck, CancelarReserva, UpdateEstadoBoleto, ScanRefunds,
            ReleaseRefund, Rollback, Restart, Tick, data, vars

(* The last state queued for a ticket is the state of its row, for every   *)
(* interleaving: what the outbox delivers is what the owner has.           *)
THEOREM OutboxTellsTheRows == Spec => []OutboxLeadsToRow
<1>1. Init => OutboxLeadsToRow
  BY DEF Init, OutboxLeadsToRow
<1> QED BY <1>1, NextOutbox, InvariantHolds, PTL DEF Spec
-----------------------------------------------------------------------------
(* A ticket is new only where its booking has just checked the seat, and   *)
(* then every other ticket of the seat is annulled, its window over.       *)
LEMMA NewTicket ==
  ASSUME IInv, [Next]_vars, NEW t \in Ids,
         boletos[t].estado = "NONE", boletos'[t].estado # "NONE"
  PROVE  \E c \in Sessions : \E v \in Ids :
           InsertBoleto(c) /\ ~ActiveOn(proc[c].row.seat) /\ CommitBoleto(c, v)
<1>0. TypeOK
  BY DEF IInv
<1>1. boletos' # boletos
  OBVIOUS
<1>2. CASE \E p \in Procs : SaveBoleto(p)
  <2>1. PICK p \in Procs : SaveBoleto(p)
    BY <1>2
  <2>2. boletos[proc[p].id].estado # "NONE" /\ proc[p].id \in Ids
    BY <2>1 DEF SaveBoleto, IInv, SavesOK
  <2>3. boletos'[t] = boletos[t]
    BY <1>0, <2>1, <2>2 DEF SaveBoleto, TypeOK
  <2> QED BY <2>3
<1>3. CASE \E c \in Sessions : InsertBoleto(c)
  <2>1. PICK c \in Sessions : InsertBoleto(c)
    BY <1>3
  <2>2. PICK v \in 1 .. MaxId + 1 : IF v \in Ids /\ ~ActiveOn(proc[c].row.seat)
                                     THEN CommitBoleto(c, v)
                                     ELSE UNCHANGED data
    BY <2>1 DEF InsertBoleto
  <2>3. v \in Ids /\ ~ActiveOn(proc[c].row.seat) /\ CommitBoleto(c, v)
    BY <1>1, <2>2 DEF data
  <2> QED BY <2>1, <2>3
<1> QED BY <1>1, <1>2, <1>3
        DEF Next, Session, Ensure, ReservarAsiento, ListAsientos, EnsureRead, EnsureBuild,
            EnsureWrite, EnsureCommit, SeatCheck, CancelarReserva, UpdateEstadoBoleto,
            ScanRefunds, ReleaseRefund, Rollback, Restart, Tick, UpdateEstadoVuelo, data, vars

(* A seat is sold again only when the ticket that had it is annulled and   *)
(* its refund window is over: releaseRefunds never gives it back early,    *)
(* and no interleaving of cancellations and purchases does.                *)
THEOREM NoEarlyResale == Spec => ResoldOnlyAfterRefundWindow
<1>1. ASSUME IInv, [Next]_vars, NEW t \in Ids, NEW u \in Ids,
             boletos[t].estado = "NONE", boletos'[t].estado # "NONE",
             boletos[u].estado # "NONE", boletos[u].seat = boletos'[t].seat
      PROVE  /\ boletos[u].estado = "ANNULLED"
             /\ boletos[u].availableAt > 0 => boletos[u].availableAt <= now
  <2>1. PICK c \in Sessions, v \in Ids :
          ~ActiveOn(proc[c].row.seat) /\ CommitBoleto(c, v)
    BY <1>1, NewTicket
  <2>2. boletos'[t] = proc[c].row
    BY <1>1, <2>1 DEF CommitBoleto, IInv, TypeOK
  <2>3. boletos[u].estado \in Estados
    BY <1>1 DEF IInv, TypeOK, Boletos
  <2> QED BY <1>1, <2>1, <2>2, <2>3 DEF ActiveOn, IInv, RowsOK
<1>2. IInv /\ [Next]_vars =>
        [\A t, u \in Ids :
           (/\ boletos[t].estado = "NONE" /\ boletos'[t].estado # "NONE"
            /\ boletos[u].estado # "NONE" /\ boletos[u].seat = boletos'[t].seat)
           => /\ boletos[u].estado = "ANNULLED"
              /\ boletos[u].availableAt > 0 => boletos[u].availableAt <= now]_vars
  BY <1>1
<1> QED BY <1>2, InvariantHolds, PTL DEF Spec, ResoldOnlyAfterRefundWindow

-----------------------------------------------------------------------------
(***************************************************************************)
(* The proof that SeatBooking implements SeatInventory: every step of the  *)
(* handlers and workers is a grant, a payment, a refund or a release of    *)
(* one seat, or changes nothing that the inventory shows.                  *)
(***************************************************************************)
(* The tickets that hold seat s in the rows b, and the inventory b shows. *)
Holds(b, id, s) == b[id].seat = s /\ b[id].estado \in Activos

Bar(b) == [s \in Seats |->
  IF \E id \in Ids : Holds(b, id, s)
    THEN [state |-> b[CHOOSE id \in Ids : Holds(b, id, s)].estado,
          by    |-> CHOOSE id \in Ids : Holds(b, id, s)]
    ELSE [state |-> "free", by |-> 0]]

Unique(b) == \A t, u \in Ids, s \in Seats : Holds(b, t, s) /\ Holds(b, u, s) => t = u

LEMMA SeatBarIsBar == seatBar = Bar(boletos) /\ seatBar' = Bar(boletos')
BY DEF seatBar, Bar, Holds, HolderOf, ActiveOn

LEMMA UniqueRows == (IInv => Unique(boletos)) /\ (IInv' => Unique(boletos'))
<1>1. IInv => Unique(boletos)
  BY DEF IInv, OneTicketPerSeat, Unique, Holds
<1>2. IInv' => Unique(boletos')
  BY DEF IInv, OneTicketPerSeat, Unique, Holds
<1> QED BY <1>1, <1>2

LEMMA BarHeld ==
  ASSUME NEW b, Unique(b), NEW s \in Seats, NEW id \in Ids, Holds(b, id, s)
  PROVE  Bar(b)[s] = [state |-> b[id].estado, by |-> id]
<1> DEFINE h == CHOOSE i \in Ids : Holds(b, i, s)
<1>1. h \in Ids /\ Holds(b, h, s)
  OBVIOUS
<1>2. h = id
  BY <1>1 DEF Unique
<1>3. Bar(b)[s] = [state |-> b[h].estado, by |-> h]
  BY DEF Bar
<1> HIDE DEF h
<1> QED BY <1>2, <1>3

LEMMA BarFree ==
  ASSUME NEW b, NEW s \in Seats, \A id \in Ids : ~Holds(b, id, s)
  PROVE  Bar(b)[s] = [state |-> "free", by |-> 0]
BY DEF Bar

(* A row that changes and stays on its seat changes no other seat. *)
LEMMA BarElsewhere ==
  ASSUME Unique(boletos), Unique(boletos'), NEW s \in Seats, NEW id \in Ids,
         boletos'[id].seat = s, boletos[id].seat = s \/ boletos[id].estado = "NONE",
         \A i \in Ids : i # id => boletos'[i] = boletos[i]
  PROVE  seatBar' = [seatBar EXCEPT ![s] = Bar(boletos')[s]]
<1>1. ASSUME NEW r \in Seats, r # s PROVE Bar(boletos')[r] = Bar(boletos)[r]
  <2>1. \A i \in Ids : /\ Holds(boletos', i, r) <=> Holds(boletos, i, r)
                       /\ Holds(boletos, i, r) => i # id
    BY <1>1 DEF Holds
  <2>2. CASE \E i \in Ids : Holds(boletos, i, r)
    <3>1. PICK i \in Ids : Holds(boletos, i, r)
      BY <2>2
    <3>2. Bar(boletos)[r] = [state |-> boletos[i].estado, by |-> i]
      BY <3>1, BarHeld
    <3>3. Holds(boletos', i, r) /\ boletos'[i] = boletos[i]
      BY <2>1, <3>1
    <3>4. Bar(boletos')[r] = [state |-> boletos'[i].estado, by |-> i]
      BY <3>3, BarHeld
    <3> QED BY <3>2, <3>3, <3>4
  <2>3. CASE \A i \in Ids : ~Holds(boletos, i, r)
    BY <2>1, <2>3, BarFree
  <2> QED BY <2>2, <2>3
<1>2. /\ Bar(boletos') = [r \in Seats |-> Bar(boletos')[r]]
      /\ Bar(boletos) = [r \in Seats |-> Bar(boletos)[r]]
  BY DEF Bar
<1> HIDE DEF Holds
<1> QED BY <1>1, <1>2, SeatBarIsBar

(* A row that changes and stays on its seat changes that seat only. *)
LEMMA BarStep ==
  ASSUME Unique(boletos), Unique(boletos'), NEW s \in Seats, NEW id \in Ids,
         boletos'[id].seat = s, boletos[id].seat = s \/ boletos[id].estado = "NONE",
         \A i \in Ids : i # id => boletos'[i] = boletos[i],
         \A i \in Ids : i # id => ~Holds(boletos, i, s)
  PROVE  seatBar' = [seatBar EXCEPT ![s] =
                       IF boletos'[id].estado \in Activos
                         THEN [state |-> boletos'[id].estado, by |-> id]
                         ELSE [state |-> "free", by |-> 0]]
<1>1. CASE boletos'[id].estado \in Activos
  <2>1. Bar(boletos')[s] = [state |-> boletos'[id].estado, by |-> id]
    BY <1>1, BarHeld DEF Holds
  <2> QED BY <1>1, <2>1, BarElsewhere
<1>2. CASE boletos'[id].estado \notin Activos
  <2>1. \A i \in Ids : ~Holds(boletos', i, s)
    BY <1>2 DEF Holds
  <2>2. Bar(boletos')[s] = [state |-> "free", by |-> 0]
    BY <2>1, BarFree
  <2> QED BY <1>2, <2>2, BarElsewhere
<1> QED BY <1>1, <1>2

(* The initial states show an inventory where every seat is free. *)
LEMMA InitRefines == Init => Inventory!Init
<1> SUFFICES ASSUME Init PROVE Inventory!Init
  OBVIOUS
<1>1. \A s \in Seats, id \in Ids : ~Holds(boletos, id, s)
  BY DEF Init, Holds
<1>2. Bar(boletos) = [s \in Seats |-> [state |-> "free", by |-> 0]]
  BY <1>1 DEF Bar
<1>3. grantedBar = {}
  BY DEF Init, grantedBar
<1> QED BY <1>2, <1>3, SeatBarIsBar DEF Inventory!Init, Inventory!Free

(* A purchase is a grant. *)
LEMMA InsertRefines ==
  ASSUME IInv, IInv', NEW c \in Sessions, InsertBoleto(c)
  PROVE  Inventory!Next \/ UNCHANGED <<seatBar, grantedBar>>
<1>0. TypeOK /\ Unique(boletos) /\ Unique(boletos')
  BY UniqueRows DEF IInv
<1>1. PICK v \in 1 .. MaxId + 1 : NextDomainID(v) /\ IF v \in Ids /\ ~ActiveOn(proc[c].row.seat)
                                                      THEN CommitBoleto(c, v)
                                                      ELSE UNCHANGED data
  BY DEF InsertBoleto
<1>2. CASE UNCHANGED data
  BY <1>2 DEF data, seatBar, grantedBar, HolderOf, ActiveOn
<1>3. CASE v \in Ids /\ ~ActiveOn(proc[c].row.seat) /\ CommitBoleto(c, v)
  <2> DEFINE s == proc[c].row.seat
             st == proc[c].row.estado
  <2>1. s \in Seats /\ st \in {"RESERVED", "SALED"}
    BY <1>0 DEF IInv, BookingsOK, InsertBoleto, Books, TypeOK, Transactions, Boletos
  <2>2. /\ boletos' = [boletos EXCEPT ![v] = proc[c].row]
        /\ boletos[v].estado = "NONE"
    BY <1>0, <1>1, <1>3 DEF CommitBoleto, NextDomainID, TypeOK, Boletos
  <2>3. \A i \in Ids : ~Holds(boletos, i, s)
    BY <1>3 DEF ActiveOn, Holds
  <2>4. boletos'[v].seat = s /\ boletos'[v].estado = st /\ \A i \in Ids : i # v => boletos'[i] = boletos[i]
    BY <1>0, <1>3, <2>2 DEF TypeOK
  <2> HIDE DEF s, st, Ids
  <2>5. seatBar' = [seatBar EXCEPT ![s] = [state |-> st, by |-> v]]
    <3>1. seatBar' = [seatBar EXCEPT ![s] =
                        IF boletos'[v].estado \in Activos
                          THEN [state |-> boletos'[v].estado, by |-> v]
                          ELSE [state |-> "free", by |-> 0]]
      BY <1>0, <1>3, <2>1, <2>2, <2>3, <2>4, BarStep
    <3> QED BY <2>1, <2>4, <3>1
  <2>6. seatBar[s] = [state |-> "free", by |-> 0]
    BY <2>1, <2>3, BarFree, SeatBarIsBar
  <2>7. v \notin grantedBar /\ grantedBar' = grantedBar \union {v}
    BY <1>3, <2>1, <2>2, <2>4 DEF grantedBar
  <2> QED BY <1>3, <2>1, <2>5, <2>6, <2>7
          DEF Inventory!Next, Inventory!Grant, Inventory!Free, Inventory!Held
<1> QED BY <1>1, <1>2, <1>3

(* A save is a payment, a refund or a release. *)
LEMMA SaveRefines ==
  ASSUME IInv, IInv', NEW p \in Procs, SaveBoleto(p)
  PROVE  Inventory!Next
<1>0. TypeOK /\ Unique(boletos) /\ Unique(boletos')
  BY UniqueRows DEF IInv
<1> DEFINE id == proc[p].id
           s  == boletos[id].seat
           st == boletos'[id].estado
<1>1. /\ id \in Ids /\ boletos' = [boletos EXCEPT ![id] = proc[p].row]
      /\ proc[p].row.seat = s
      /\ <<boletos[id].estado, proc[p].row.estado>> \in
            {<<"RESERVED", "SALED">>, <<"RESERVED", "REFUNDED">>, <<"SALED", "REFUNDED">>,
             <<"REFUNDED", "ANNULLED">>}
  BY DEF SaveBoleto, IInv, SavesOK
<1>2. s \in Seats /\ Holds(boletos, id, s)
  BY <1>1 DEF IInv, RowsOK, Holds
<1>3. /\ boletos'[id].seat = s
      /\ \A i \in Ids : i # id => boletos'[i] = boletos[i]
      /\ <<boletos[id].estado, st>> \in
            {<<"RESERVED", "SALED">>, <<"RESERVED", "REFUNDED">>, <<"SALED", "REFUNDED">>,
             <<"REFUNDED", "ANNULLED">>}
  BY <1>0, <1>1 DEF TypeOK
<1>4. \A i \in Ids : i # id => ~Holds(boletos, i, s)
  BY <1>0, <1>1, <1>2 DEF Unique
<1>5. grantedBar' = grantedBar
  BY <1>1, <1>3 DEF grantedBar
<1> HIDE DEF id, s, st, Ids, Holds
<1>6. seatBar' = [seatBar EXCEPT ![s] = IF st \in Activos THEN [state |-> st, by |-> id]
                                                          ELSE [state |-> "free", by |-> 0]]
  <2>1. boletos'[id].estado = st /\ boletos[id].seat = s
    BY DEF st, s
  <2>2. seatBar' = [seatBar EXCEPT ![s] =
                      IF boletos'[id].estado \in Activos
                        THEN [state |-> boletos'[id].estado, by |-> id]
                        ELSE [state |-> "free", by |-> 0]]
    BY <1>0, <1>1, <1>2, <1>3, <1>4, <2>1, BarStep
  <2> QED BY <2>1, <2>2
<1>7. seatBar[s] = [state |-> boletos[id].estado, by |-> id]
  BY <1>0, <1>1, <1>2, BarHeld, SeatBarIsBar
<1>8. CASE st = "SALED"
  <2>1. Inventory!Pay(s)
    BY <1>3, <1>5, <1>6, <1>7, <1>8 DEF Inventory!Pay, Inventory!Held
  <2> QED BY <1>2, <2>1 DEF Inventory!Next
<1>9. CASE st = "REFUNDED"
  <2>1. Inventory!Refund(s)
    BY <1>3, <1>5, <1>6, <1>7, <1>9 DEF Inventory!Refund, Inventory!Held
  <2> QED BY <1>2, <2>1 DEF Inventory!Next
<1>10. CASE st = "ANNULLED"
  <2>1. Inventory!Release(s)
    BY <1>3, <1>5, <1>6, <1>7, <1>10 DEF Inventory!Release, Inventory!Free
  <2> QED BY <1>2, <2>1 DEF Inventory!Next
<1> QED BY <1>3, <1>8, <1>9, <1>10

LEMMA NextRefines ==
  ASSUME IInv, IInv', [Next]_vars
  PROVE  [Inventory!Next]_<<seatBar, grantedBar>>
<1>1. CASE UNCHANGED boletos
  BY <1>1 DEF seatBar, grantedBar, HolderOf, ActiveOn
<1> QED BY <1>1, InsertRefines, SaveRefines
        DEF Next, Session, Ensure, ReservarAsiento, ListAsientos, EnsureRead, EnsureBuild,
            EnsureWrite, EnsureCommit, SeatCheck, CancelarReserva, UpdateEstadoBoleto,
            ScanRefunds, ReleaseRefund, Rollback, Restart, Tick, UpdateEstadoVuelo, data, vars

(* Whatever the interleaving of the handlers, the refund worker and the    *)
(* restarts, what they do to the seats is what SeatInventory allows.       *)
THEOREM HandlersImplementInventory == Spec => ImplementsInventory
<1>1. IInv /\ IInv' /\ [Next]_vars => [Inventory!Next]_<<seatBar, grantedBar>>
  BY NextRefines
<1> QED BY <1>1, InitRefines, InvariantHolds, PTL
        DEF Spec, ImplementsInventory, Inventory!Spec, Inventory!vars
=============================================================================
