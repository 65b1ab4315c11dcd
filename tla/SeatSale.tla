------------------------------ MODULE SeatSale ------------------------------
(***************************************************************************)
(* The sale of tickets in the web client (app/boletos/page.tsx) against    *)
(* the bookings of the server.                                             *)
(*                                                                         *)
(* The page keeps the flight and the seat of the last clicks and reads the *)
(* map of seats with a request per click; no answer is tied to the click   *)
(* it belongs to, and everything but the two buttons of the purchase works *)
(* while a purchase is on its way.  So the page may show the map of one    *)
(* flight under another, and keep the seat of an earlier flight: what it   *)
(* may sell nevertheless is what this module is about.                     *)
(*                                                                         *)
(* The server's side is the booking of reserva_handler.go in one step (the *)
(* module SeatBooking has its steps); other clients book as well.  The     *)
(* list the page has read has only flights that are "Programado".          *)
(***************************************************************************)
EXTENDS Naturals, Sequences, FiniteSets

CONSTANTS Flights,
          SeatsOf(_),   \* the seats of a flight's plane
          Rutas,        \* the flights of each pair of cities that may be searched
          None,
          MaxTickets,   \* bound on the tickets
          MaxLoads      \* bound on the clicks on a flight whose maps are on their way

ASSUME SaleAssumption ==
    Rutas \subseteq SUBSET Flights /\ MaxTickets \in Nat /\ MaxLoads \in Nat

VARIABLES vuelos,         \* the flights the page has read
          filteredVuelos, \* those of the last search
          selectedVuelo, selectedSeat, passenger, bookingLoading,
          asientos,       \* the displayed map: the states of its seats
          purchasedPass,  \* the ticket whose pass is displayed
          load,           \* how many clicks on each flight wait for its map
          compra,         \* procesarBoleto: how far it is, and what it captured
          boletos         \* the server's tickets

listVars == <<vuelos, filteredVuelos>>
pageVars == <<listVars, selectedVuelo, selectedSeat, passenger, bookingLoading, asientos,
              purchasedPass>>
saleVars == <<pageVars, load, compra, boletos>>

Seats == UNION {SeatsOf(f) : f \in Flights}
SeatStates == {"AVAILABLE", "OCCUPIED"}  \* the page treats every other state alike
Maps == UNION {[SeatsOf(f) -> SeatStates] : f \in Flights}
NoMap == <<>>
Tickets == [vuelo : Flights, asiento : Seats, estado : {"RESERVED", "SALED"},
            cliente : {"page", "other"}, nombre : {"mine", "theirs"}]

\* The type invariant.
SaleTypeOK ==
    /\ vuelos \subseteq Flights /\ filteredVuelos \subseteq vuelos
    /\ selectedVuelo \in Flights \cup {None}
    /\ selectedSeat = None \/ selectedSeat \in [id : Seats, estado : SeatStates]
    /\ passenger \in {"empty", "mine", "theirs"}
    /\ bookingLoading \in BOOLEAN
    /\ asientos = NoMap \/ asientos \in Maps
    /\ purchasedPass \in 0..MaxTickets
    /\ load \in [Flights -> 0..MaxLoads]
    /\ compra.st \in {"idle", "sent", "granted", "pass", "pdf", "refresh"}
    /\ bookingLoading = (compra.st # "idle")
    /\ \A b \in DOMAIN boletos : boletos[b] \in Tickets
----------------------------------------------------------------------------
\* The tickets that hold seat s of flight f.
Active(f, s) ==
    {b \in DOMAIN boletos : boletos[b].vuelo = f /\ boletos[b].asiento = s}

\* ListAsientos.
EstadoDe(f, s) == IF Active(f, s) = {} THEN "AVAILABLE" ELSE "OCCUPIED"

\* What ReservarAsiento needs to sell seat s on f: a seat of the flight's plane
\* that is free.  For the state of the flight it may refuse as well (Refused).
Sells_noplane(f, s) == Active(f, s) = {}
Sells(f, s) == s \in SeatsOf(f) /\ Active(f, s) = {}

Ticket(f, s, estado, cliente, nombre) ==
    [vuelo |-> f, asiento |-> s, estado |-> estado, cliente |-> cliente,
     nombre |-> nombre]

Idle == [st |-> "idle", vuelo |-> None, asiento |-> None, estado |-> "RESERVED",
         nombre |-> "mine", boleto |-> 0]

SaleInit ==
    /\ vuelos = {} /\ filteredVuelos = {}
    /\ selectedVuelo = None /\ selectedSeat = None /\ passenger = "empty"
    /\ bookingLoading = FALSE /\ asientos = NoMap /\ purchasedPass = 0
    /\ load = [f \in Flights |-> 0] /\ compra = Idle /\ boletos = <<>>
----------------------------------------------------------------------------
\* fetchData of the page's first render: the flights arrive (when its answer
\* brings none, the page never has any).
FlightsArrive ==
    /\ vuelos = {} /\ vuelos' = Flights
    /\ UNCHANGED <<filteredVuelos, selectedVuelo, selectedSeat, passenger,
                   bookingLoading, asientos, purchasedPass, load, compra, boletos>>

\* A search between two cities of the selects, among the flights read so far:
\* the flight and its map are forgotten, the seat is not.
HandleSearch ==
    /\ \E R \in Rutas : filteredVuelos' = R \cap vuelos
    /\ selectedVuelo' = None /\ asientos' = NoMap
    /\ UNCHANGED <<vuelos, selectedSeat, passenger, bookingLoading, purchasedPass,
                   load, compra, boletos>>

\* loadSeats from a click on a flight of the list: it is selected and its map
\* asked for.
ClickFlight(f) ==
    /\ f \in filteredVuelos
    /\ load[f] < MaxLoads
    /\ selectedVuelo' = f
    /\ load' = [load EXCEPT ![f] = @ + 1]
    /\ UNCHANGED <<listVars, selectedSeat, passenger, bookingLoading, asientos,
                   purchasedPass, compra, boletos>>

\* A click on a seat of the map.  The effect of selectedSeat empties the form
\* after the handler, so that the passenger of an occupied seat is displayed
\* only by a second click on it.
FormAfterClick(seat) ==
    CASE seat.estado = "AVAILABLE" -> {"empty"}
      [] seat # selectedSeat       -> {"empty"}
      [] OTHER                     -> {"empty", "theirs"}  \* the map may be a new one

ClickSeat(s) ==
    /\ selectedVuelo # None /\ s \in DOMAIN asientos
    /\ LET seat == [id |-> s, estado |-> asientos[s]]
       IN  selectedSeat' = seat /\ passenger' \in FormAfterClick(seat)
    /\ UNCHANGED <<listVars, selectedVuelo, bookingLoading, asientos, purchasedPass,
                   load, compra, boletos>>

\* The form is disabled unless the seat was free.
FillForm ==
    /\ selectedVuelo # None /\ selectedSeat # None
    /\ selectedSeat.estado = "AVAILABLE"
    /\ passenger' = "mine"
    /\ UNCHANGED <<listVars, selectedVuelo, selectedSeat, bookingLoading, asientos,
                   purchasedPass, load, compra, boletos>>

CerrarPase ==
    /\ purchasedPass # 0 /\ purchasedPass' = 0
    /\ UNCHANGED <<listVars, selectedVuelo, selectedSeat, passenger, bookingLoading,
                   asientos, load, compra, boletos>>

\* The two buttons: shown for a seat that was free, off during a purchase.
CanBuy ==
    /\ selectedVuelo # None /\ selectedSeat # None /\ ~bookingLoading
    /\ selectedSeat.estado = "AVAILABLE"

\* procesarBoleto up to the request: it captures the flight, the seat and the
\* passenger of the render it was clicked in.
ProcesarBoleto(estado) ==
    /\ CanBuy /\ passenger # "empty"
    /\ bookingLoading' = TRUE
    /\ compra' = [st |-> "sent", vuelo |-> selectedVuelo, asiento |-> selectedSeat.id,
                  estado |-> estado, nombre |-> passenger, boleto |-> 0]
    /\ UNCHANGED <<listVars, selectedVuelo, selectedSeat, passenger, asientos,
                   purchasedPass, load, boletos>>
----------------------------------------------------------------------------
\* ReservarAsiento sells what request c asks for; 202 (replication_pending) is
\* a sale too.
Sale(c) ==
    /\ Len(boletos) < MaxTickets /\ Sells(c.vuelo, c.asiento)
    /\ boletos' = Append(boletos, Ticket(c.vuelo, c.asiento, c.estado, "page", c.nombre))

Grant ==
    /\ compra.st = "sent" /\ Sale(compra)
    /\ compra' = [compra EXCEPT !.st = "granted", !.boleto = Len(boletos) + 1]
    /\ UNCHANGED <<pageVars, load>>

\* The server refuses, or the answer of it is an alert of the page.
Refused ==
    /\ compra.st = "sent"
    /\ compra' = Idle /\ bookingLoading' = FALSE
    /\ UNCHANGED <<listVars, selectedVuelo, selectedSeat, passenger, asientos,
                   purchasedPass, load, boletos>>

\* The answer is lost: the page says that the request could not be completed,
\* and keeps its seat, which the server may have sold.
AnswerLost ==
    /\ \/ compra.st = "sent" /\ (Sale(compra) \/ UNCHANGED boletos)
       \/ compra.st = "granted" /\ UNCHANGED boletos
    /\ compra' = Idle /\ bookingLoading' = FALSE
    /\ UNCHANGED <<listVars, selectedVuelo, selectedSeat, passenger, asientos,
                   purchasedPass, load>>

\* The refresh after a purchase, loadSeats of the captured flight: it selects
\* that flight again.
Refresh ==
    /\ selectedVuelo' = compra.vuelo
    /\ compra' = [compra EXCEPT !.st = "refresh"]

\* A pre-reservation has no pass.
GrantAnswered ==
    /\ compra.st = "granted"
    /\ IF compra.estado = "SALED"
         THEN /\ compra' = [compra EXCEPT !.st = "pass"]
              /\ UNCHANGED selectedVuelo
         ELSE Refresh
    /\ UNCHANGED <<listVars, selectedSeat, passenger, bookingLoading, asientos,
                   purchasedPass, load, boletos>>

\* The ticket whose pass is asked for: the one of the answer.
PassOf == compra.boleto

\* The pass arrives, which the server gives for a paid ticket only, and is
\* displayed; then its PDF is made, which may fail.
PassArrives ==
    /\ compra.st = "pass" /\ boletos[PassOf].estado = "SALED"
    /\ purchasedPass' = PassOf
    /\ compra' = [compra EXCEPT !.st = "pdf"]
    /\ UNCHANGED <<listVars, selectedVuelo, selectedSeat, passenger, bookingLoading,
                   asientos, load, boletos>>

\* The PDF is done or failed, or the pass was refused.
PassEnds ==
    /\ compra.st \in {"pass", "pdf"}
    /\ Refresh
    /\ UNCHANGED <<listVars, selectedSeat, passenger, bookingLoading, asientos,
                   purchasedPass, load, boletos>>
----------------------------------------------------------------------------
\* The map of f as the server has it, shown under whatever flight is selected.
ShowMap(f) ==
    asientos' = [s \in SeatsOf(f) |-> EstadoDe(f, s)]

\* The answer to a click; without a map in it the old one stays.
MapArrives(f) ==
    /\ load[f] > 0
    /\ load' = [load EXCEPT ![f] = @ - 1]
    /\ ShowMap(f) \/ UNCHANGED asientos
    /\ UNCHANGED <<listVars, selectedVuelo, selectedSeat, passenger, bookingLoading,
                   purchasedPass, compra, boletos>>

\* What the end of a purchase leaves of it.
EndPurchase ==
    selectedSeat' = None /\ bookingLoading' = FALSE /\ compra' = Idle

\* The map of the refresh arrives or fails, and the purchase is over.
RefreshEnds ==
    /\ compra.st = "refresh"
    /\ ShowMap(compra.vuelo) \/ UNCHANGED asientos
    /\ EndPurchase
    /\ UNCHANGED <<listVars, selectedVuelo, passenger, purchasedPass, load, boletos>>
----------------------------------------------------------------------------
\* Another client books the seat.
OtherBooks(f, s) ==
    /\ Len(boletos) < MaxTickets /\ Sells(f, s)
    /\ boletos' = Append(boletos, Ticket(f, s, "SALED", "other", "theirs"))
    /\ UNCHANGED <<pageVars, load, compra>>

UserSells ==
    \/ FlightsArrive \/ HandleSearch \/ FillForm \/ CerrarPase
    \/ \E f \in Flights : ClickFlight(f)
    \/ \E s \in Seats : ClickSeat(s)
    \/ \E estado \in {"RESERVED", "SALED"} : ProcesarBoleto(estado)

PurchaseGoesOn ==
    Grant \/ Refused \/ AnswerLost \/ GrantAnswered \/ PassArrives \/ PassEnds \/ RefreshEnds

OthersAct == \E f \in Flights : \E s \in SeatsOf(f) : OtherBooks(f, s)

SaleNext ==
    \/ UserSells \/ PurchaseGoesOn \/ OthersAct
    \/ \E f \in Flights : MapArrives(f)

SaleSpec == SaleInit /\ [][SaleNext]_saleVars
----------------------------------------------------------------------------
(***************************************************************************)
(* Properties.                                                             *)
(***************************************************************************)

\* A ticket is for a seat of its flight's plane, and no seat of a flight has two.
TicketsAreSellable ==
    /\ \A b \in DOMAIN boletos : boletos[b].asiento \in SeatsOf(boletos[b].vuelo)
    /\ \A f \in Flights, s \in Seats : Cardinality(Active(f, s)) <= 1

\* The passenger of somebody else's ticket, which the form displays, never
\* becomes the passenger of a ticket sold here.
TheirDataIsNotSold ==
    \A b \in DOMAIN boletos : boletos[b].cliente = "page" => boletos[b].nombre = "mine"

\* The displayed pass is of a ticket this page sold as paid.
PassIsOfAPurchase ==
    purchasedPass # 0 =>
        /\ boletos[purchasedPass].cliente = "page"
        /\ boletos[purchasedPass].estado = "SALED"

\* Whatever flight, seat, map and passenger the page has mixed up, and whatever
\* it asks again after a lost answer, what it sells and displays is right.
SalesAreRight == TicketsAreSellable /\ TheirDataIsNotSold /\ PassIsOfAPurchase
=============================================================================
