--------------------------- MODULE WebSellingProofs ---------------------------
(***************************************************************************)
(* What the pages that sell and send promise, proved for every value of    *)
(* the constants: the two searches (SearchPages), the sale (SeatSale), the *)
(* dialog of new flights (FlightCreation), the passes (PassDownload); and  *)
(* the types of all, with the desk of TicketDeskProofs, in the behaviours  *)
(* that TLC checks (MCWebSelling).                                         *)
(***************************************************************************)
EXTENDS MCWebSelling, TicketDeskProofs, FiniteSetTheorems
-----------------------------------------------------------------------------
(* A set whose elements are all the same. *)
LEMMA AtMostOne ==
  ASSUME NEW S, \A x, y \in S : x = y
  PROVE  IsFiniteSet(S) /\ Cardinality(S) <= 1
<1>1. CASE S = {}
  BY <1>1, FS_EmptySet
<1>2. CASE S # {}
  <2>1. PICK x : S = {x}
    BY <1>2
  <2>2. IsFiniteSet({x}) /\ Cardinality({x}) = 1
    BY FS_Singleton
  <2> QED BY <2>1, <2>2
<1> QED BY <1>1, <1>2


(***************************************************************************)
(* SearchPages.  That the last search is the one that is shown rests on    *)
(* the button: at most one search is on its way, the last one, and while   *)
(* it is nothing is shown and the first tab is open.                       *)
(***************************************************************************)
SearchInv ==
  /\ SearchTypeOK
  /\ pendientes = IF buscando THEN {busqueda} ELSE {}
  /\ buscando => mostrada = 0 /\ rutas = 0 /\ activeTab = 0
  /\ LastSearchIsShown

LEMMA SearchInvInit == SearchInit => SearchInv
<1> SUFFICES ASSUME SearchInit PROVE SearchInv
  OBVIOUS
<1>1. eleccion \in [ciudades : Ciudades, opcion : Opciones]
  BY DEF SearchInit
<1>2. 0 \in 0 .. MaxSearches /\ 0 \in 0 .. Top /\ 0 \in 0 .. Top - 1
  BY SearchAssumption
<1>3. /\ pagina \in {"sugerencias", "tsp"}
      /\ busqueda = 0 /\ pendientes = {} /\ mostrada = 0 /\ rutas = 0
      /\ activeTab = 0 /\ buscando = FALSE /\ roto = FALSE
  BY DEF SearchInit
<1>4. SearchTypeOK
  BY <1>1, <1>2, <1>3 DEF SearchTypeOK
<1> QED BY <1>3, <1>4 DEF SearchInv, LastSearchIsShown

LEMMA SearchInvStep == SearchInv /\ [SearchNext]_searchVars => SearchInv'
<1> SUFFICES ASSUME SearchInv, [SearchNext]_searchVars PROVE SearchInv'
  OBVIOUS
<1> USE SearchAssumption DEF SearchInv, SearchTypeOK, LastSearchIsShown, CurrentRoute
<1>1. ASSUME NEW c \in Ciudades, NEW o \in Opciones, ChooseRoute(c, o) PROVE SearchInv'
  BY <1>1 DEF ChooseRoute
<1>2. ASSUME NEW c \in Ciudades, Toggle(c) PROVE SearchInv'
  BY <1>2 DEF Toggle
<1>3. ASSUME NEW o \in Opciones, ChooseOption(o) PROVE SearchInv'
  BY <1>3 DEF ChooseOption
<1>4. CASE Search
  <2>1. busqueda + 1 \in 1 .. MaxSearches /\ pendientes = {}
    BY <1>4 DEF Search, CanSearch
  <2> QED BY <1>4, <2>1 DEF Search, FirstTab
<1>5. ASSUME NEW n \in pendientes, SearchEnded(n) PROVE SearchInv'
  <2>1. /\ n = busqueda /\ n \in 1 .. MaxSearches /\ buscando
        /\ mostrada = 0 /\ rutas = 0 /\ activeTab = 0
    OBVIOUS
  <2>2. pendientes' = {} /\ buscando' = FALSE
        /\ UNCHANGED <<pagina, eleccion, busqueda, activeTab>>
    BY <1>5, <2>1 DEF SearchEnded, SearchAnswered, SearchRefused, SearchLost, SearchOver
  <2>3. roto' \in BOOLEAN
    BY <1>5 DEF SearchEnded, SearchAnswered, SearchRefused, SearchLost
  <2>4. (mostrada' = n \/ mostrada' = 0) /\ rutas' \in 0 .. Top
    BY <1>5, <2>1 DEF SearchEnded, SearchAnswered, SearchRefused, SearchLost, Show, ShowNothing
  <2> QED BY <2>1, <2>2, <2>3, <2>4
<1>6. ASSUME NEW i \in 0 .. Top, ClickTab(i) PROVE SearchInv'
  BY <1>6 DEF ClickTab, TabExists
<1>7. CASE UNCHANGED searchVars
  BY <1>7 DEF searchVars
<1> QED BY <1>1, <1>2, <1>3, <1>4, <1>5, <1>6, <1>7 DEF SearchNext

(* The answer of a search page is that of its last search, and the tab     *)
(* that is open one of its routes, for any number of searches, routes and  *)
(* choices (app/sugerencias/page.tsx, app/tsp/page.tsx).                   *)
THEOREM SearchesAreShown == SearchSpec => []LastSearchIsShown
<1>1. SearchInv => LastSearchIsShown
  BY DEF SearchInv
<1> QED BY SearchInvInit, SearchInvStep, <1>1, PTL DEF SearchSpec

(***************************************************************************)
(* SeatSale.  The tickets are what the server's check of a seat makes of   *)
(* them.  What the page asks for and shows of them rests on what a request *)
(* has captured, and on the form: it has somebody else's passenger only    *)
(* while no free seat is selected.                                         *)
(***************************************************************************)
SoldOnce ==
  \A x, y \in DOMAIN boletos :
    boletos[x].vuelo = boletos[y].vuelo /\ boletos[x].asiento = boletos[y].asiento => x = y

TicketsInv ==
  /\ boletos \in Seq(Tickets) /\ Len(boletos) <= MaxTickets
  /\ \A x \in DOMAIN boletos : boletos[x].asiento \in SeatsOf(boletos[x].vuelo)
  /\ SoldOnce
  /\ TheirDataIsNotSold

Purchases ==
  [st : {"idle", "sent", "granted", "pass", "pdf", "refresh"}, vuelo : Flights \union {None},
   asiento : Seats \union {None}, estado : {"RESERVED", "SALED"}, nombre : {"mine"}, boleto : Nat]

(* Ticket t is one this page was sold as e.      *)
SoldHere(t, e) ==
  t \in DOMAIN boletos /\ boletos[t].cliente = "page" /\ boletos[t].estado = e

PurchaseInv ==
  /\ compra \in Purchases
  /\ compra.st # "idle" => compra.vuelo \in Flights /\ compra.asiento \in Seats
  /\ compra.st \in {"granted", "pass", "pdf"} => SoldHere(compra.boleto, compra.estado)
  /\ purchasedPass # 0 => SoldHere(purchasedPass, "SALED")

FormInv ==
  passenger = "theirs" => selectedSeat = None \/ selectedSeat.estado # "AVAILABLE"

SaleInv == SaleTypeOK /\ TicketsInv /\ PurchaseInv /\ FormInv

LEMMA SaleInvInit == SaleInit => SaleInv
<1> SUFFICES ASSUME SaleInit PROVE SaleInv
  OBVIOUS
<1>1. boletos \in Seq(Tickets) /\ Len(boletos) = 0 /\ DOMAIN boletos = {}
  BY DEF SaleInit
<1>2. SaleTypeOK
  <2>1. 0 \in 0 .. MaxTickets /\ 0 \in 0 .. MaxLoads
    BY SaleAssumption
  <2>2. load \in [Flights -> 0 .. MaxLoads]
    BY <2>1 DEF SaleInit
  <2>3. compra.st = "idle"
    BY DEF SaleInit, Idle
  <2> QED BY <1>1, <2>1, <2>2, <2>3 DEF SaleInit, SaleTypeOK
<1>3. TicketsInv
  BY <1>1, SaleAssumption DEF TicketsInv, SoldOnce, TheirDataIsNotSold
<1>4. PurchaseInv
  BY DEF SaleInit, PurchaseInv, Purchases, Idle
<1>5. FormInv
  BY DEF SaleInit, FormInv
<1> QED BY <1>2, <1>3, <1>4, <1>5 DEF SaleInv

(* A sale adds a ticket for a seat nobody has, and leaves the others. *)
LEMMA SaleAdds ==
  ASSUME TicketsInv, NEW t \in Tickets, Len(boletos) < MaxTickets, Sells(t.vuelo, t.asiento),
         t.cliente = "page" => t.nombre = "mine", boletos' = Append(boletos, t)
  PROVE  /\ TicketsInv'
         /\ \A x \in DOMAIN boletos : x \in DOMAIN boletos' /\ boletos'[x] = boletos[x]
         /\ Len(boletos) + 1 \in DOMAIN boletos' /\ boletos'[Len(boletos) + 1] = t
         /\ Len(boletos) + 1 \in 1 .. MaxTickets
         /\ \A x \in DOMAIN boletos' : boletos'[x] \in Tickets
<1> USE SaleAssumption
<1> DEFINE n == Len(boletos) + 1
<1>1. boletos \in Seq(Tickets) /\ n \in Nat \ {0} /\ DOMAIN boletos = 1 .. n - 1 /\ n <= MaxTickets
  BY DEF TicketsInv
<1>2. /\ boletos' \in Seq(Tickets) /\ Len(boletos') = n /\ DOMAIN boletos' = 1 .. n
      /\ boletos'[n] = t /\ \A x \in DOMAIN boletos : boletos'[x] = boletos[x]
  BY <1>1
<1>3. DOMAIN boletos' = DOMAIN boletos \union {n} /\ n \notin DOMAIN boletos
  BY <1>1, <1>2
<1>4. \A x \in DOMAIN boletos : ~(boletos[x].vuelo = t.vuelo /\ boletos[x].asiento = t.asiento)
  BY DEF Sells, Active
<1> HIDE DEF n
<1>5. SoldOnce'
  BY <1>2, <1>3, <1>4 DEF TicketsInv, SoldOnce
<1>6. \A x \in DOMAIN boletos' : boletos'[x].asiento \in SeatsOf(boletos'[x].vuelo)
  BY <1>2, <1>3 DEF TicketsInv, Sells
<1>7. TheirDataIsNotSold'
  BY <1>2, <1>3 DEF TicketsInv, TheirDataIsNotSold
<1>8. TicketsInv'
  BY <1>1, <1>2, <1>5, <1>6, <1>7 DEF TicketsInv
<1>9. \A x \in DOMAIN boletos' : boletos'[x] \in Tickets
  BY <1>1, <1>2, <1>3
<1> QED BY <1>1, <1>2, <1>3, <1>8, <1>9 DEF n

LEMMA SaleOfPurchase ==
  ASSUME SaleInv, compra.st # "idle", Sale(compra)
  PROVE  \E t \in Tickets : /\ t.vuelo = compra.vuelo /\ t.asiento = compra.asiento
                            /\ t.estado = compra.estado /\ t.cliente = "page" /\ t.nombre = "mine"
                            /\ Len(boletos) < MaxTickets /\ Sells(t.vuelo, t.asiento)
                            /\ boletos' = Append(boletos, t)
<1> DEFINE t == Ticket(compra.vuelo, compra.asiento, compra.estado, "page", compra.nombre)
<1>1. /\ compra.vuelo \in Flights /\ compra.asiento \in Seats
      /\ compra.estado \in {"RESERVED", "SALED"} /\ compra.nombre = "mine"
  BY DEF SaleInv, PurchaseInv, Purchases
<1>2. /\ t \in Tickets /\ t.vuelo = compra.vuelo /\ t.asiento = compra.asiento
      /\ t.estado = compra.estado /\ t.cliente = "page" /\ t.nombre = "mine"
  BY <1>1 DEF Ticket, Tickets
<1>3. /\ Len(boletos) < MaxTickets /\ Sells(compra.vuelo, compra.asiento)
      /\ boletos' = Append(boletos, t)
  BY DEF Sale
<1> HIDE DEF t
<1> QED BY <1>2, <1>3

(* What the page was sold stays what it is. *)
LEMMA SoldHereStays ==
  ASSUME \A x \in DOMAIN boletos : x \in DOMAIN boletos' /\ boletos'[x] = boletos[x],
         NEW t, NEW e, SoldHere(t, e)
  PROVE  SoldHere(t, e)'
BY DEF SoldHere

(* A map of the server is one. *)
LEMMA ShownMapType ==
  ASSUME NEW f \in Flights, ShowMap(f)
  PROVE  asientos' \in Maps
<1>1. \A s \in SeatsOf(f) : EstadoDe(f, s) \in SeatStates
  BY DEF EstadoDe, SeatStates
<1>2. asientos' \in [SeatsOf(f) -> SeatStates]
  BY <1>1 DEF ShowMap
<1> QED BY <1>2 DEF Maps

(* The clicks of the user change nothing that was sold. *)
LEMMA SaleStays ==
  ASSUME SaleInv, UNCHANGED <<compra, boletos>>, purchasedPass' \in {purchasedPass, 0}
  PROVE  TicketsInv' /\ PurchaseInv'
<1>1. TicketsInv'
  BY DEF SaleInv, TicketsInv, SoldOnce, TheirDataIsNotSold
<1>2. PurchaseInv'
  BY DEF SaleInv, PurchaseInv, SoldHere
<1> QED BY <1>1, <1>2

LEMMA UserSellsKeeps == SaleInv /\ UserSells => SaleInv'
<1> SUFFICES ASSUME SaleInv, UserSells PROVE SaleInv'
  OBVIOUS
<1> USE SaleAssumption
<1>0. SaleTypeOK /\ FormInv
  BY DEF SaleInv
<1>1. CASE FlightsArrive
  BY <1>0, <1>1, SaleStays DEF FlightsArrive, SaleInv, SaleTypeOK, FormInv
<1>2. CASE HandleSearch
  BY <1>0, <1>2, SaleStays DEF HandleSearch, SaleInv, SaleTypeOK, FormInv, NoMap
<1>3. CASE FillForm
  BY <1>0, <1>3, SaleStays DEF FillForm, listVars, SaleInv, SaleTypeOK, FormInv
<1>4. CASE CerrarPase
  BY <1>0, <1>4, SaleStays DEF CerrarPase, listVars, SaleInv, SaleTypeOK, FormInv
<1>5. ASSUME NEW f \in Flights, ClickFlight(f) PROVE SaleInv'
  <2>1. load' \in [Flights -> 0 .. MaxLoads]
    BY <1>0, <1>5 DEF ClickFlight, SaleTypeOK
  <2> QED BY <1>0, <1>5, <2>1, SaleStays DEF ClickFlight, listVars, SaleInv, SaleTypeOK, FormInv
<1>6. ASSUME NEW s \in Seats, ClickSeat(s) PROVE SaleInv'
  <2> DEFINE seat == [id |-> s, estado |-> asientos[s]]
  <2>1. asientos[s] \in SeatStates
    <3>1. asientos # NoMap
      BY <1>6 DEF ClickSeat, NoMap
    <3>2. PICK f \in Flights : asientos \in [SeatsOf(f) -> SeatStates]
      BY <1>0, <3>1 DEF SaleTypeOK, Maps
    <3> QED BY <1>6, <3>2 DEF ClickSeat
  <2>2. seat \in [id : Seats, estado : SeatStates] /\ selectedSeat' = seat
    BY <1>6, <2>1 DEF ClickSeat
  <2>3. /\ passenger' \in {"empty", "theirs"}
        /\ passenger' = "theirs" => seat.estado # "AVAILABLE"
    BY <1>6 DEF ClickSeat, FormAfterClick
  <2> HIDE DEF seat
  <2> QED BY <1>0, <1>6, <2>2, <2>3, SaleStays DEF ClickSeat, listVars, SaleInv, SaleTypeOK, FormInv
<1>7. ASSUME NEW e \in {"RESERVED", "SALED"}, ProcesarBoleto(e) PROVE SaleInv'
  <2>1. /\ selectedVuelo \in Flights /\ selectedSeat \in [id : Seats, estado : SeatStates]
        /\ passenger = "mine" /\ compra.st = "idle"
    BY <1>0, <1>7 DEF ProcesarBoleto, CanBuy, SaleTypeOK, FormInv
  <2>2. /\ compra' \in Purchases /\ compra'.st = "sent"
        /\ compra'.vuelo \in Flights /\ compra'.asiento \in Seats
    BY <1>7, <2>1 DEF ProcesarBoleto, Purchases
  <2>3. UNCHANGED <<vuelos, filteredVuelos, selectedVuelo, selectedSeat, passenger, asientos,
                    purchasedPass, load, boletos>> /\ bookingLoading' = TRUE
    BY <1>7 DEF ProcesarBoleto, listVars
  <2>4. TicketsInv'
    BY <2>3 DEF SaleInv, TicketsInv, SoldOnce, TheirDataIsNotSold
  <2>5. PurchaseInv'
    BY <2>2, <2>3 DEF SaleInv, PurchaseInv, SoldHere
  <2>6. SaleTypeOK' /\ FormInv'
    BY <1>0, <2>2, <2>3 DEF SaleTypeOK, FormInv
  <2> QED BY <2>4, <2>5, <2>6 DEF SaleInv
<1> QED BY <1>1, <1>2, <1>3, <1>4, <1>5, <1>6, <1>7 DEF UserSells

(* The steps of a purchase and of other clients: they keep the invariant   *)
(* if what they change is as it says. *)
LEMMA SaleGoesOn ==
  ASSUME SaleInv, TicketsInv', \A x \in DOMAIN boletos' : boletos'[x] \in Tickets,
         \A x \in DOMAIN boletos : x \in DOMAIN boletos' /\ boletos'[x] = boletos[x],
         UNCHANGED <<vuelos, filteredVuelos, passenger, load>>,
         selectedVuelo' \in Flights \union {None},
         selectedSeat' \in {selectedSeat, None},
         asientos' = asientos \/ asientos' \in Maps,
         bookingLoading' = (compra'.st # "idle"), bookingLoading' \in BOOLEAN,
         compra' \in Purchases,
         compra'.st # "idle" => compra'.vuelo \in Flights /\ compra'.asiento \in Seats,
         compra'.st \in {"granted", "pass", "pdf"} => SoldHere(compra.boleto, compra.estado)',
         \/ purchasedPass' = purchasedPass
         \/ purchasedPass' \in 1 .. MaxTickets /\ SoldHere(purchasedPass, "SALED")'
  PROVE  SaleInv'
<1> USE SaleAssumption
<1>1. SaleTypeOK'
  <2>1. purchasedPass' \in 0 .. MaxTickets
    BY DEF SaleInv, SaleTypeOK
  <2>2. compra'.st \in {"idle", "sent", "granted", "pass", "pdf", "refresh"}
    BY DEF Purchases
  <2> QED BY <2>1, <2>2 DEF SaleInv, SaleTypeOK
<1>2. PurchaseInv'
  <2>1. purchasedPass' # 0 => SoldHere(purchasedPass, "SALED")'
    BY SoldHereStays DEF SaleInv, PurchaseInv
  <2> QED BY <2>1 DEF PurchaseInv
<1>3. FormInv'
  BY DEF SaleInv, FormInv
<1> QED BY <1>1, <1>2, <1>3 DEF SaleInv

(* What the tickets keep when none is sold. *)
LEMMA NoneSold ==
  ASSUME SaleInv, boletos' = boletos
  PROVE  /\ TicketsInv' /\ \A x \in DOMAIN boletos' : boletos'[x] \in Tickets
         /\ \A x \in DOMAIN boletos : x \in DOMAIN boletos' /\ boletos'[x] = boletos[x]
BY DEF SaleInv, SaleTypeOK, TicketsInv, SoldOnce, TheirDataIsNotSold

LEMMA IdleIsAPurchase == Idle \in Purchases /\ Idle.st = "idle"
BY DEF Idle, Purchases

LEMMA PurchaseGoesOnKeeps == SaleInv /\ PurchaseGoesOn => SaleInv'
<1> SUFFICES ASSUME SaleInv, PurchaseGoesOn PROVE SaleInv'
  OBVIOUS
<1>1. /\ compra \in Purchases
      /\ compra.st # "idle" => compra.vuelo \in Flights /\ compra.asiento \in Seats
      /\ compra.st \in {"granted", "pass", "pdf"} => SoldHere(compra.boleto, compra.estado)
      /\ selectedVuelo \in Flights \union {None}
      /\ bookingLoading = (compra.st # "idle") /\ bookingLoading \in BOOLEAN
  BY DEF SaleInv, PurchaseInv, SaleTypeOK
<1>2. ASSUME compra.st # "idle", Sale(compra)
      PROVE  /\ TicketsInv' /\ \A x \in DOMAIN boletos' : boletos'[x] \in Tickets
             /\ \A x \in DOMAIN boletos : x \in DOMAIN boletos' /\ boletos'[x] = boletos[x]
             /\ Len(boletos) + 1 \in Nat
             /\ Len(boletos) + 1 \in DOMAIN boletos'
             /\ boletos'[Len(boletos) + 1].cliente = "page"
             /\ boletos'[Len(boletos) + 1].estado = compra.estado
  <2>1. TicketsInv
    BY DEF SaleInv
  <2>2. PICK t \in Tickets : /\ t.estado = compra.estado /\ t.cliente = "page" /\ t.nombre = "mine"
                             /\ Len(boletos) < MaxTickets /\ Sells(t.vuelo, t.asiento)
                             /\ boletos' = Append(boletos, t)
    BY <1>2, SaleOfPurchase
  <2>3. /\ TicketsInv' /\ \A x \in DOMAIN boletos' : boletos'[x] \in Tickets
        /\ \A x \in DOMAIN boletos : x \in DOMAIN boletos' /\ boletos'[x] = boletos[x]
        /\ Len(boletos) + 1 \in DOMAIN boletos' /\ boletos'[Len(boletos) + 1] = t
        /\ Len(boletos) + 1 \in 1 .. MaxTickets
    BY <2>1, <2>2, SaleAdds
  <2> QED BY <2>2, <2>3
<1>3. CASE Grant
  <2>1. /\ compra.st = "sent" /\ Sale(compra)
        /\ compra' = [compra EXCEPT !.st = "granted", !.boleto = Len(boletos) + 1]
        /\ UNCHANGED <<vuelos, filteredVuelos, passenger, load, selectedVuelo, selectedSeat, asientos,
                       bookingLoading, purchasedPass>>
    BY <1>3 DEF Grant, pageVars, listVars
  <2>2. Len(boletos) + 1 \in Nat
    BY <1>2, <2>1
  <2>3. /\ compra' \in Purchases /\ compra'.st = "granted" /\ compra'.boleto = Len(boletos) + 1
        /\ compra'.estado = compra.estado /\ compra'.vuelo = compra.vuelo
        /\ compra'.asiento = compra.asiento
    BY <1>1, <2>1, <2>2 DEF Purchases
  <2>4. SoldHere(compra.boleto, compra.estado)'
    BY <1>2, <2>1, <2>3 DEF SoldHere
  <2> QED BY <1>1, <1>2, <2>1, <2>3, <2>4, SaleGoesOn
<1>4. CASE Refused
  <2>1. boletos' = boletos
    BY <1>4 DEF Refused
  <2> QED BY <1>1, <1>4, <2>1, NoneSold, IdleIsAPurchase, SaleGoesOn DEF Refused, listVars
<1>5. CASE AnswerLost
  <2>1. /\ compra' = Idle /\ bookingLoading' = FALSE
        /\ UNCHANGED <<vuelos, filteredVuelos, passenger, load, selectedVuelo, selectedSeat, asientos,
                       purchasedPass>>
        /\ (compra.st = "sent" /\ Sale(compra)) \/ boletos' = boletos
    BY <1>5 DEF AnswerLost, listVars
  <2> QED BY <1>1, <1>2, <2>1, NoneSold, IdleIsAPurchase, SaleGoesOn
<1>6. ASSUME compra.st \in {"granted", "pass", "pdf"}, NEW st \in {"granted", "pass", "pdf", "refresh"},
             compra' = [compra EXCEPT !.st = st], boletos' = boletos
      PROVE  /\ compra' \in Purchases /\ compra'.st = st /\ compra'.boleto = compra.boleto
             /\ compra'.vuelo \in Flights /\ compra'.asiento \in Seats
             /\ SoldHere(compra.boleto, compra.estado)'
  BY <1>1, <1>6 DEF Purchases, SoldHere
<1>7. CASE GrantAnswered
  <2>1. /\ compra.st = "granted" /\ boletos' = boletos
        /\ UNCHANGED <<vuelos, filteredVuelos, passenger, load, selectedSeat, asientos,
                       bookingLoading, purchasedPass>>
    BY <1>7 DEF GrantAnswered, listVars
  <2>2. \/ compra' = [compra EXCEPT !.st = "pass"] /\ selectedVuelo' = selectedVuelo
        \/ compra' = [compra EXCEPT !.st = "refresh"] /\ selectedVuelo' = compra.vuelo
    BY <1>7 DEF GrantAnswered, Refresh
  <2>3. /\ compra' \in Purchases /\ compra'.st # "idle"
        /\ compra'.vuelo \in Flights /\ compra'.asiento \in Seats
        /\ SoldHere(compra.boleto, compra.estado)'
    BY <1>6, <2>1, <2>2
  <2>4. selectedVuelo' \in Flights \union {None}
    BY <1>1, <2>1, <2>2
  <2> QED BY <1>1, <2>1, <2>3, <2>4, NoneSold, SaleGoesOn
<1>8. CASE PassArrives
  <2>1. /\ compra.st = "pass" /\ boletos' = boletos /\ boletos[compra.boleto].estado = "SALED"
        /\ purchasedPass' = compra.boleto /\ compra' = [compra EXCEPT !.st = "pdf"]
        /\ UNCHANGED <<vuelos, filteredVuelos, passenger, load, selectedVuelo, selectedSeat, asientos,
                       bookingLoading>>
    BY <1>8 DEF PassArrives, PassOf, listVars
  <2>2. /\ compra' \in Purchases /\ compra'.st = "pdf"
        /\ compra'.vuelo \in Flights /\ compra'.asiento \in Seats
        /\ SoldHere(compra.boleto, compra.estado)'
    BY <1>6, <2>1
  <2>3. SoldHere(purchasedPass, "SALED")'
    BY <1>1, <2>1 DEF SoldHere
  <2>4. purchasedPass' \in 1 .. MaxTickets
    <3>1. boletos \in Seq(Tickets) /\ Len(boletos) <= MaxTickets /\ compra.boleto \in DOMAIN boletos
      BY <1>1, <2>1 DEF SaleInv, TicketsInv, SoldHere
    <3> QED BY <2>1, <3>1, SaleAssumption
  <2> QED BY <1>1, <2>1, <2>2, <2>3, <2>4, NoneSold, SaleGoesOn
<1>9. CASE PassEnds
  <2>1. /\ compra.st \in {"pass", "pdf"} /\ boletos' = boletos
        /\ compra' = [compra EXCEPT !.st = "refresh"] /\ selectedVuelo' = compra.vuelo
        /\ UNCHANGED <<vuelos, filteredVuelos, passenger, load, selectedSeat, asientos,
                       bookingLoading, purchasedPass>>
    BY <1>9 DEF PassEnds, Refresh, listVars
  <2>2. /\ compra' \in Purchases /\ compra'.st = "refresh"
        /\ compra'.vuelo \in Flights /\ compra'.asiento \in Seats
    BY <1>6, <2>1
  <2> QED BY <1>1, <2>1, <2>2, NoneSold, SaleGoesOn
<1>10. CASE RefreshEnds
  <2>1. /\ compra.st = "refresh" /\ boletos' = boletos /\ compra' = Idle
        /\ selectedSeat' = None /\ bookingLoading' = FALSE
        /\ UNCHANGED <<vuelos, filteredVuelos, passenger, load, selectedVuelo, purchasedPass>>
        /\ ShowMap(compra.vuelo) \/ asientos' = asientos
    BY <1>10 DEF RefreshEnds, EndPurchase, listVars
  <2>2. asientos' = asientos \/ asientos' \in Maps
    BY <1>1, <2>1, ShownMapType
  <2> QED BY <1>1, <2>1, <2>2, NoneSold, IdleIsAPurchase, SaleGoesOn
<1> QED BY <1>3, <1>4, <1>5, <1>7, <1>8, <1>9, <1>10 DEF PurchaseGoesOn

LEMMA SaleInvStep == SaleInv /\ [SaleNext]_saleVars => SaleInv'
<1> SUFFICES ASSUME SaleInv, [SaleNext]_saleVars PROVE SaleInv'
  OBVIOUS
<1>1. /\ compra \in Purchases
      /\ compra.st # "idle" => compra.vuelo \in Flights /\ compra.asiento \in Seats
      /\ compra.st \in {"granted", "pass", "pdf"} => SoldHere(compra.boleto, compra.estado)
      /\ selectedVuelo \in Flights \union {None}
      /\ bookingLoading = (compra.st # "idle") /\ bookingLoading \in BOOLEAN
  BY DEF SaleInv, PurchaseInv, SaleTypeOK
<1>2. ASSUME NEW f \in Flights, NEW s \in SeatsOf(f), OtherBooks(f, s) PROVE SaleInv'
  <2> DEFINE t == Ticket(f, s, "SALED", "other", "theirs")
  <2>1. t \in Tickets /\ t.vuelo = f /\ t.asiento = s /\ t.cliente = "other"
    BY DEF Ticket, Tickets, Seats
  <2>2. Len(boletos) < MaxTickets /\ Sells(f, s) /\ boletos' = Append(boletos, t)
    BY <1>2 DEF OtherBooks
  <2>3. UNCHANGED <<vuelos, filteredVuelos, passenger, load, selectedVuelo, selectedSeat, asientos,
                    bookingLoading, purchasedPass, compra>>
    BY <1>2 DEF OtherBooks, pageVars, listVars
  <2> HIDE DEF t
  <2>4. /\ TicketsInv' /\ \A x \in DOMAIN boletos' : boletos'[x] \in Tickets
        /\ \A x \in DOMAIN boletos : x \in DOMAIN boletos' /\ boletos'[x] = boletos[x]
    BY <2>1, <2>2, SaleAdds DEF SaleInv
  <2>5. compra'.st \in {"granted", "pass", "pdf"} => SoldHere(compra.boleto, compra.estado)'
    BY <1>1, <2>3, <2>4 DEF SoldHere
  <2> QED BY <1>1, <2>3, <2>4, <2>5, SaleGoesOn
<1>3. ASSUME NEW f \in Flights, MapArrives(f) PROVE SaleInv'
  <2>1. asientos' = asientos \/ asientos' \in Maps
    BY <1>3, ShownMapType DEF MapArrives
  <2>2. load' \in [Flights -> 0 .. MaxLoads]
    <3>1. load \in [Flights -> 0 .. MaxLoads] /\ load[f] > 0
      BY <1>3 DEF MapArrives, SaleInv, SaleTypeOK
    <3>2. load[f] - 1 \in 0 .. MaxLoads
      BY <3>1, SaleAssumption
    <3> QED BY <1>3, <3>1, <3>2 DEF MapArrives
  <2>3. UNCHANGED <<vuelos, filteredVuelos, selectedVuelo, selectedSeat, passenger, bookingLoading,
                    purchasedPass, compra, boletos>>
    BY <1>3 DEF MapArrives, listVars
  <2>4. SaleTypeOK' /\ FormInv'
    BY <2>1, <2>2, <2>3 DEF SaleInv, SaleTypeOK, FormInv
  <2> QED BY <2>3, <2>4, SaleStays DEF SaleInv
<1>4. CASE UNCHANGED saleVars
  <2>1. SaleTypeOK' /\ FormInv'
    BY <1>4 DEF saleVars, pageVars, listVars, SaleInv, SaleTypeOK, FormInv
  <2> QED BY <1>4, <2>1, SaleStays DEF saleVars, pageVars, SaleInv
<1> QED BY <1>2, <1>3, <1>4, UserSellsKeeps, PurchaseGoesOnKeeps DEF SaleNext, OthersAct

LEMMA SaleInvRight == SaleInv => SalesAreRight
<1> SUFFICES ASSUME SaleInv PROVE SalesAreRight
  OBVIOUS
<1>1. ASSUME NEW f \in Flights, NEW s \in Seats PROVE Cardinality(Active(f, s)) <= 1
  <2>1. \A x, y \in Active(f, s) : x = y
    BY DEF Active, SaleInv, TicketsInv, SoldOnce
  <2> QED BY <2>1, AtMostOne
<1>2. TicketsAreSellable
  BY <1>1 DEF TicketsAreSellable, SaleInv, TicketsInv
<1>3. PassIsOfAPurchase
  BY DEF PassIsOfAPurchase, SaleInv, PurchaseInv, SoldHere
<1> QED BY <1>2, <1>3 DEF SalesAreRight, SaleInv, TicketsInv

(* What the page of the tickets sells and shows is right for any flights,  *)
(* planes, maps and numbers of clicks, although the flight, the map, the   *)
(* seat and the passenger it shows need not belong together                *)
(* (app/boletos/page.tsx).                                                 *)
THEOREM SalesStayRight == SaleSpec => []SalesAreRight
BY SaleInvInit, SaleInvStep, SaleInvRight, PTL DEF SaleSpec

(***************************************************************************)
(* FlightCreation.  A submission is at the leg after those it has created, *)
(* until it ends; the leg departs two hours after the one before arrives.  *)
(***************************************************************************)
Jobs ==
  [route : Seq(Cities), leg : Nat \ {0}, epoch : Nat, mode : {"direct", "advanced"},
   matrix : Matrices \union {0}, st : {"sending", "done", "failed"}, mounted : BOOLEAN]

LegFlights ==
  [job : Nat, leg : Nat, from : Cities, to : Cities, salida : Nat, sameMatrix : BOOLEAN,
   llegada : Nat]

DialogOK ==
  /\ showAddModal \in BOOLEAN /\ creationMode \in {"direct", "advanced"}
  /\ stopoverRoute \in Seq(Cities) /\ Len(stopoverRoute) <= MaxRoute
  /\ submitting \in BOOLEAN
  /\ matrix \in Matrices \union {0} /\ precios \in BOOLEAN
  /\ serverMatrix \in Matrices

JobsOK ==
  /\ job \in Seq(Jobs) /\ Len(job) <= MaxJobs
  /\ \A j \in DOMAIN job : /\ job[j].leg < Len(job[j].route)
                           /\ Len(job[j].route) <= MaxRoute
  /\ programados \subseteq LegFlights
  /\ \A v \in programados : v.job \in DOMAIN job

(* The flights in S are the first k legs of route r. *)
RouteStart(S, r, k) ==
  /\ IsFiniteSet(S) /\ Cardinality(S) = k
  /\ {<<v.leg, v.from, v.to>> : v \in S} = {<<i, r[i], r[i + 1]>> : i \in 1 .. k}

StartedOK ==
  \A j \in DOMAIN job :
    \E k \in {job[j].leg - 1, job[j].leg} :
      /\ RouteStart(Created(j), job[j].route, k)
      /\ job[j].st = "sending" => k = job[j].leg - 1
      /\ job[j].st = "done" => k = Len(job[j].route) - 1

LayoverOK ==
  /\ LegsHaveALayover
  /\ \A j \in DOMAIN job : job[j].st = "sending" =>
       \A v \in Created(j) :
         v.leg = job[j].leg - 1 /\ v.sameMatrix => job[j].epoch >= v.llegada + Layover

(* The submissions of this visit that run. *)
Busy == {j \in DOMAIN job : job[j].st = "sending" /\ job[j].mounted}

BusyOK == submitting = (Busy # {}) /\ \A x, y \in Busy : x = y

CreationInv == DialogOK /\ JobsOK /\ StartedOK /\ LayoverOK /\ BusyOK

(* A route of at most MaxRoute cities is a sequence of them. *)
LEMMA RoutesAreSequences ==
  ASSUME NEW r
  PROVE  r \in Routes <=> r \in Seq(Cities) /\ Len(r) <= MaxRoute
<1> USE CreationAssumption
<1>1. ASSUME r \in Routes PROVE r \in Seq(Cities) /\ Len(r) <= MaxRoute
  <2>1. PICK n \in 0 .. MaxRoute : r \in [1 .. n -> Cities]
    BY <1>1 DEF Routes
  <2> QED BY <2>1
<1>2. ASSUME r \in Seq(Cities), Len(r) <= MaxRoute PROVE r \in Routes
  <2>1. Len(r) \in 0 .. MaxRoute /\ r \in [1 .. Len(r) -> Cities]
    BY <1>2
  <2> QED BY <2>1 DEF Routes
<1> QED BY <1>1, <1>2

LEMMA CreationInvInit == CreationInit => CreationInv
<1> SUFFICES ASSUME CreationInit PROVE CreationInv
  OBVIOUS
<1> USE CreationAssumption
<1>1. job = <<>> /\ programados = {} /\ stopoverRoute = <<>> /\ submitting = FALSE
  BY DEF CreationInit
<1>2. DOMAIN job = {} /\ job \in Seq(Jobs) /\ Len(job) = 0
  BY <1>1
<1>3. DialogOK
  <2>1. <<>> \in Seq(Cities) /\ Len(<<>>) = 0 /\ Len(<<>>) <= MaxRoute
    OBVIOUS
  <2> QED BY <1>1, <2>1 DEF CreationInit, DialogOK
<1>4. JobsOK /\ StartedOK
  BY <1>1, <1>2 DEF JobsOK, StartedOK
<1>5. LayoverOK
  BY <1>1, <1>2 DEF LayoverOK, LegsHaveALayover
<1>6. BusyOK
  BY <1>1, <1>2 DEF BusyOK, Busy
<1> QED BY <1>3, <1>4, <1>5, <1>6 DEF CreationInv

(* What is known of a submission that runs. *)
LEMMA RunningJob ==
  ASSUME CreationInv, NEW j \in DOMAIN job
  PROVE  /\ job[j] \in Jobs /\ j \in Nat
         /\ job[j].leg \in Nat \ {0} /\ job[j].leg < Len(job[j].route)
         /\ job[j].route \in Seq(Cities) /\ Len(job[j].route) \in Nat
         /\ job[j].route[job[j].leg] \in Cities /\ job[j].route[job[j].leg + 1] \in Cities
         /\ job[j].epoch \in Nat /\ job[j].mounted \in BOOLEAN
         /\ job[j].st \in {"sending", "done", "failed"}
         /\ job[j].matrix \in Matrices \union {0}
<1>1. job \in Seq(Jobs) /\ job[j].leg < Len(job[j].route)
  BY DEF CreationInv, JobsOK
<1>2. job[j] \in Jobs /\ j \in Nat
  BY <1>1
<1>3. job[j].leg \in Nat \ {0} /\ job[j].route \in Seq(Cities) /\ Len(job[j].route) \in Nat
  BY <1>2 DEF Jobs
<1>4. job[j].leg \in 1 .. Len(job[j].route) /\ job[j].leg + 1 \in 1 .. Len(job[j].route)
  BY <1>1, <1>3
<1>5. job[j].route[job[j].leg] \in Cities /\ job[j].route[job[j].leg + 1] \in Cities
  BY <1>3, <1>4
<1> QED BY <1>1, <1>2, <1>3, <1>5 DEF Jobs

(* The next leg makes a longer beginning of the route. *)
LEMMA RouteStartAdd ==
  ASSUME NEW S, NEW r, NEW k \in Nat, RouteStart(S, r, k), NEW v,
         v.leg = k + 1, v.from = r[k + 1], v.to = r[k + 2]
  PROVE  RouteStart(S \union {v}, r, k + 1)
<1> DEFINE T(X) == {<<w.leg, w.from, w.to>> : w \in X}
           L(n) == {<<i, r[i], r[i + 1]>> : i \in 1 .. n}
<1>1. IsFiniteSet(S) /\ Cardinality(S) = k /\ T(S) = L(k)
  BY DEF RouteStart
<1>2. v \notin S
  <2> SUFFICES ASSUME v \in S PROVE FALSE
    OBVIOUS
  <2>1. <<v.leg, v.from, v.to>> \in L(k)
    BY <1>1
  <2>2. PICK i \in 1 .. k : <<v.leg, v.from, v.to>> = <<i, r[i], r[i + 1]>>
    BY <2>1
  <2>3. v.leg = i
    BY <2>2
  <2> QED BY <2>3
<1>3. IsFiniteSet(S \union {v}) /\ Cardinality(S \union {v}) = k + 1
  BY <1>1, <1>2, FS_AddElement
<1>4. T(S \union {v}) = T(S) \union {<<v.leg, v.from, v.to>>}
  OBVIOUS
<1>5. L(k + 1) = L(k) \union {<<k + 1, r[k + 1], r[k + 2]>>}
  <2>1. 1 .. k + 1 = (1 .. k) \union {k + 1} /\ (k + 1) + 1 = k + 2
    OBVIOUS
  <2> QED BY <2>1
<1>6. T(S \union {v}) = L(k + 1)
  BY <1>1, <1>4, <1>5
<1> QED BY <1>3, <1>6 DEF RouteStart

(* All legs of a beginning of the route are among the first ones. *)
LEMMA RouteStartLegs ==
  ASSUME NEW S, NEW r, NEW k \in Nat, RouteStart(S, r, k), NEW v \in S
  PROVE  v.leg \in 1 .. k
<1>1. <<v.leg, v.from, v.to>> \in {<<i, r[i], r[i + 1]>> : i \in 1 .. k}
  BY DEF RouteStart
<1>2. PICK i \in 1 .. k : <<v.leg, v.from, v.to>> = <<i, r[i], r[i + 1]>>
  BY <1>1
<1>3. v.leg = i
  BY <1>2
<1> QED BY <1>3

(* The steps of the dialog, which leave the submissions alone. *)
LEMMA DialogKeeps ==
  ASSUME CreationInv, UNCHANGED <<job, programados, submitting>>, DialogOK'
  PROVE  CreationInv'
<1>1. JobsOK'
  BY DEF CreationInv, JobsOK
<1>2. StartedOK'
  BY DEF CreationInv, StartedOK, Created
<1>3. LayoverOK'
  BY DEF CreationInv, LayoverOK, LegsHaveALayover, Created
<1>4. BusyOK'
  BY DEF CreationInv, BusyOK, Busy
<1> QED BY <1>1, <1>2, <1>3, <1>4 DEF CreationInv

(* A submission starts with no flights. *)
LEMMA SubmitKeeps ==
  ASSUME CreationInv, DialogOK', UNCHANGED programados, ~submitting,
         NEW route \in Seq(Cities), Len(route) >= 2, Len(route) <= MaxRoute,
         NEW mode \in {"direct", "advanced"}, NEW start \in Nat, Submit(route, mode, start)
  PROVE  CreationInv'
<1>0. PICK n : n = Len(job) + 1
  OBVIOUS
<1> DEFINE J == [route |-> route, leg |-> 1, epoch |-> start, mode |-> mode,
                 matrix |-> matrix, st |-> "sending", mounted |-> TRUE]
<1>1. J \in Jobs
  BY DEF Jobs, CreationInv, DialogOK
<1>2. /\ J.route = route /\ J.leg = 1 /\ J.st = "sending" /\ J.mounted
      /\ Len(job) < MaxJobs /\ job' = Append(job, J) /\ submitting' = TRUE
  BY DEF Submit
<1>3. job \in Seq(Jobs) /\ n \in Nat \ {0} /\ DOMAIN job = 1 .. n - 1 /\ n <= MaxJobs
  <2>1. job \in Seq(Jobs)
    BY DEF CreationInv, JobsOK
  <2>2. Len(job) \in Nat /\ DOMAIN job = 1 .. Len(job)
    BY <2>1
  <2>3. MaxJobs \in Nat /\ Len(job) < MaxJobs
    BY <1>2, CreationAssumption
  <2>4. DOMAIN job = 1 .. n - 1 /\ n \in Nat \ {0} /\ n <= MaxJobs
    BY <1>0, <2>2, <2>3
  <2> QED BY <2>1, <2>4
<1>4. /\ job' \in Seq(Jobs) /\ Len(job') = n /\ DOMAIN job' = DOMAIN job \union {n} /\ n \notin DOMAIN job
      /\ job'[n] = J /\ \A j \in DOMAIN job : job'[j] = job[j]
  BY <1>0, <1>1, <1>2, <1>3
<1> HIDE DEF J
<1>5. Created(n) = {} /\ \A j : Created(j)' = Created(j)
  BY <1>4 DEF Created, CreationInv, JobsOK
<1>6. JobsOK'
  BY <1>2, <1>3, <1>4 DEF CreationInv, JobsOK
<1>7. StartedOK'
  <2>1. RouteStart(Created(n)', route, 0)
    <3>1. 1 .. 0 = {}
      OBVIOUS
    <3>2. IsFiniteSet({}) /\ Cardinality({}) = 0
      BY FS_EmptySet
    <3> QED BY <1>5, <3>1, <3>2 DEF RouteStart
  <2>2. ASSUME NEW j \in DOMAIN job'
        PROVE  \E k \in {job'[j].leg - 1, job'[j].leg} :
                 /\ RouteStart(Created(j)', job'[j].route, k)
                 /\ job'[j].st = "sending" => k = job'[j].leg - 1
                 /\ job'[j].st = "done" => k = Len(job'[j].route) - 1
    <3>1. CASE j = n
      BY <1>2, <1>4, <2>1, <3>1
    <3>2. CASE j \in DOMAIN job
      BY <1>4, <1>5, <3>2 DEF CreationInv, StartedOK
    <3> QED BY <1>4, <3>1, <3>2
  <2> QED BY <2>2 DEF StartedOK
<1>8. LayoverOK'
  <2>1. LegsHaveALayover'
    BY DEF CreationInv, LayoverOK, LegsHaveALayover
  <2> QED BY <1>4, <1>5, <2>1 DEF CreationInv, LayoverOK
<1>9. BusyOK'
  <2>1. Busy = {}
    BY DEF CreationInv, BusyOK
  <2>2. \A j \in DOMAIN job : ~(job[j].st = "sending" /\ job[j].mounted)
    BY <2>1 DEF Busy
  <2>3. Busy' = {n}
    BY <1>2, <1>4, <2>2 DEF Busy
  <2> QED BY <1>2, <2>3 DEF BusyOK
<1> QED BY <1>6, <1>7, <1>8, <1>9 DEF CreationInv

(* A submission ends, or its page is left. *)
LEMMA NothingCreatedKeeps ==
  ASSUME CreationInv, DialogOK', BusyOK', UNCHANGED programados,
         job' \in Seq(Jobs), DOMAIN job' = DOMAIN job, Len(job') = Len(job),
         \A j \in DOMAIN job : /\ job'[j].route = job[j].route /\ job'[j].leg = job[j].leg
                               /\ job'[j].epoch = job[j].epoch
                               /\ job'[j].st \in {job[j].st, "failed"}
  PROVE  CreationInv'
<1>1. \A j : Created(j)' = Created(j)
  BY DEF Created
<1>2. JobsOK'
  BY DEF CreationInv, JobsOK
<1>3. StartedOK'
  BY <1>1 DEF CreationInv, StartedOK
<1>4. LayoverOK'
  <2>1. LegsHaveALayover'
    BY DEF CreationInv, LayoverOK, LegsHaveALayover
  <2> QED BY <1>1, <2>1 DEF CreationInv, LayoverOK
<1> QED BY <1>2, <1>3, <1>4 DEF CreationInv

(* What the end of submission j does to the dialog. *)
LEMMA FinishEffect ==
  ASSUME CreationInv, NEW j \in DOMAIN job, job[j].st = "sending",
         NEW st \in {"done", "failed"}, Finish(j, st),
         UNCHANGED <<creationMode, stopoverRoute, tableVars, serverMatrix>>
  PROVE  /\ DialogOK' /\ BusyOK'
         /\ job' \in Seq(Jobs) /\ DOMAIN job' = DOMAIN job /\ Len(job') = Len(job)
         /\ \A x \in DOMAIN job : x # j => job'[x] = job[x]
         /\ job'[j] = [job[j] EXCEPT !.st = st]
<1>1. job \in Seq(Jobs) /\ job[j] \in Jobs /\ job[j].mounted \in BOOLEAN
  BY RunningJob DEF CreationInv, JobsOK
<1> DEFINE J == [job[j] EXCEPT !.st = st]
<1>2. J \in Jobs /\ J.st = st
  BY <1>1 DEF Jobs
<1>3. job' = [job EXCEPT ![j] = J]
  BY DEF Finish
<1> HIDE DEF J
<1>4. /\ job' \in Seq(Jobs) /\ DOMAIN job' = DOMAIN job /\ Len(job') = Len(job)
      /\ job'[j] = J /\ \A x \in DOMAIN job : x # j => job'[x] = job[x]
  BY <1>1, <1>2, <1>3
<1>5. DialogOK'
  BY DEF Finish, CreationInv, DialogOK, tableVars
<1>6. Busy' = Busy \ {j}
  BY <1>2, <1>4 DEF Busy
<1>7. BusyOK'
  <2>1. CASE job[j].mounted
    <3>1. j \in Busy /\ submitting' = FALSE
      BY <2>1 DEF Busy, Finish
    <3> QED BY <1>6, <3>1 DEF CreationInv, BusyOK
  <2>2. CASE ~job[j].mounted
    <3>1. j \notin Busy /\ submitting' = submitting
      BY <2>2 DEF Busy, Finish
    <3> QED BY <1>6, <3>1 DEF CreationInv, BusyOK
  <2> QED BY <1>1, <2>1, <2>2
<1> QED BY <1>4, <1>5, <1>7 DEF J


(* The flight of a leg: the leg after it departs two hours after it has    *)
(* arrived if the server computed it with the matrix of the submission.    *)
LEMMA LegFlightType ==
  ASSUME CreationInv, NEW j \in DOMAIN job, Accepts(j)
  PROVE  /\ LegFlight(j) \in LegFlights
         /\ LegFlight(j).job = j /\ LegFlight(j).leg = job[j].leg
         /\ LegFlight(j).from = job[j].route[job[j].leg]
         /\ LegFlight(j).to = job[j].route[job[j].leg + 1]
         /\ LegFlight(j).salida = job[j].epoch
         /\ NextDeparture(j) \in Nat
         /\ LegFlight(j).sameMatrix => NextDeparture(j) >= LegFlight(j).llegada + Layover
<1> DEFINE from == job[j].route[job[j].leg]
           to == job[j].route[job[j].leg + 1]
<1>1. /\ from \in Cities /\ to \in Cities /\ job[j].epoch \in Nat /\ job[j].leg \in Nat /\ j \in Nat
      /\ job[j].matrix \in Matrices \union {0}
  BY RunningJob
<1>2. serverMatrix \in Matrices /\ serverMatrix # 0
  BY CreationAssumption DEF CreationInv, DialogOK
<1>3. Hours(serverMatrix, from, to) \in Nat /\ Hours(serverMatrix, from, to) > 0
  BY <1>1, <1>2, CreationAssumption DEF Accepts
<1>4. TravelHours(j) \in Nat
  <2>1. job[j].matrix # 0 => Hours(job[j].matrix, from, to) \in Nat
    BY <1>1, CreationAssumption
  <2> QED BY <2>1 DEF TravelHours
<1>5. serverMatrix = job[j].matrix => TravelHours(j) = Hours(serverMatrix, from, to)
  BY <1>2, <1>3 DEF TravelHours
<1>6. NextDeparture(j) = job[j].epoch + TravelHours(j) + Layover
  BY DEF NextDeparture
<1>7. /\ LegFlight(j) = [job |-> j, leg |-> job[j].leg, from |-> from, to |-> to,
                         salida |-> job[j].epoch, sameMatrix |-> serverMatrix = job[j].matrix,
                         llegada |-> job[j].epoch + Hours(serverMatrix, from, to)]
  BY DEF LegFlight
<1> HIDE DEF from, to
<1>8. LegFlight(j) \in LegFlights
  BY <1>1, <1>3, <1>7 DEF LegFlights
<1>9. NextDeparture(j) \in Nat
  BY <1>1, <1>4, <1>6 DEF Layover
<1>10. LegFlight(j).sameMatrix => NextDeparture(j) = LegFlight(j).llegada + Layover
  <2>1. LegFlight(j).sameMatrix = (serverMatrix = job[j].matrix)
        /\ LegFlight(j).llegada = job[j].epoch + Hours(serverMatrix, from, to)
    BY <1>7
  <2> QED BY <1>1, <1>3, <1>5, <1>6, <2>1 DEF Layover
<1>11. LegFlight(j).llegada + Layover \in Nat
  BY <1>1, <1>3, <1>7 DEF Layover
<1> QED BY <1>7, <1>8, <1>9, <1>10, <1>11 DEF from, to

(* A leg is created, and its submission goes on or ends. *)
LEMMA LegCreatedKeeps ==
  ASSUME CreationInv, DialogOK', BusyOK', NEW j \in DOMAIN job, job[j].st = "sending", Accepts(j),
         programados' = programados \union {LegFlight(j)},
         job' \in Seq(Jobs), DOMAIN job' = DOMAIN job, Len(job') = Len(job),
         \A x \in DOMAIN job : x # j => job'[x] = job[x],
         job'[j].route = job[j].route,
         \/ /\ job'[j].st = "failed" /\ job'[j].leg = job[j].leg
         \/ /\ job'[j].st = "done" /\ job'[j].leg = job[j].leg /\ IsLastLeg(j)
         \/ /\ job'[j].st = "sending" /\ job'[j].leg = job[j].leg + 1 /\ ~IsLastLeg(j)
            /\ job'[j].epoch = NextDeparture(j)
  PROVE  CreationInv'
<1> DEFINE v == LegFlight(j)
           n == job[j].leg
           r == job[j].route
<1>1. /\ n \in Nat \ {0} /\ n < Len(r) /\ Len(r) \in Nat
  BY RunningJob
<1>2. /\ v \in LegFlights /\ v.job = j /\ v.leg = n /\ v.from = r[n] /\ v.to = r[n + 1]
      /\ v.salida = job[j].epoch
      /\ NextDeparture(j) \in Nat
      /\ v.sameMatrix => NextDeparture(j) >= v.llegada + Layover
  BY LegFlightType
<1>3. Created(j)' = Created(j) \union {v} /\ \A x : x # j => Created(x)' = Created(x)
  BY <1>2 DEF Created
<1>4. RouteStart(Created(j), r, n - 1)
  BY DEF CreationInv, StartedOK
<1>5. n - 1 \in Nat /\ (n - 1) + 1 = n /\ (n - 1) + 2 = n + 1
  BY <1>1
<1>6. \A w \in Created(j) : w.leg \in 1 .. n - 1
  BY <1>4, <1>5, RouteStartLegs
<1> HIDE DEF v, n
<1>7. RouteStart(Created(j)', r, n)
  <2>1. RouteStart(Created(j) \union {v}, r, (n - 1) + 1)
    BY <1>2, <1>4, <1>5, RouteStartAdd
  <2> QED BY <1>3, <1>5, <2>1
<1>8. job'[j].leg \in {n, n + 1} /\ job'[j].leg < Len(r)
  BY <1>1 DEF IsLastLeg, n
<1>9. JobsOK'
  <2>1. programados' \subseteq LegFlights /\ \A w \in programados' : w.job \in DOMAIN job'
    BY <1>2 DEF CreationInv, JobsOK, v
  <2>2. ASSUME NEW x \in DOMAIN job'
        PROVE  job'[x].leg < Len(job'[x].route) /\ Len(job'[x].route) <= MaxRoute
    BY <1>8 DEF CreationInv, JobsOK
  <2> QED BY <2>1, <2>2 DEF CreationInv, JobsOK
<1>10. StartedOK'
  <2>1. ASSUME NEW x \in DOMAIN job'
        PROVE  \E k \in {job'[x].leg - 1, job'[x].leg} :
                 /\ RouteStart(Created(x)', job'[x].route, k)
                 /\ job'[x].st = "sending" => k = job'[x].leg - 1
                 /\ job'[x].st = "done" => k = Len(job'[x].route) - 1
    <3>1. CASE x = j
      <4>1. n \in {job'[j].leg - 1, job'[j].leg}
        BY <1>1, <1>8
      <4>2. job'[j].st = "sending" => n = job'[j].leg - 1
        BY <1>1 DEF n
      <4>3. job'[j].st = "done" => n = Len(job'[j].route) - 1
        BY DEF IsLastLeg, n
      <4> QED BY <1>7, <3>1, <4>1, <4>2, <4>3
    <3>2. CASE x # j
      BY <1>3, <3>2 DEF CreationInv, StartedOK
    <3> QED BY <3>1, <3>2
  <2> QED BY <2>1 DEF StartedOK
<1>11. LayoverOK'
  <2>1. ASSUME NEW w \in programados', NEW u \in programados', w.job = u.job, u.leg = w.leg + 1, w.sameMatrix
        PROVE  u.salida >= w.llegada + Layover
    <3>1. CASE w \in programados /\ u \in programados
      BY <2>1, <3>1 DEF CreationInv, LayoverOK, LegsHaveALayover
    <3>2. CASE w \in programados /\ u = v
      <4>1. w \in Created(j) /\ w.leg = n - 1
        BY <1>2, <1>6, <2>1, <3>2 DEF Created
      <4> QED BY <1>2, <2>1, <3>2, <4>1 DEF CreationInv, LayoverOK, n
    <3>3. CASE w = v /\ u \in programados
      <4>1. u \in Created(j)
        BY <1>2, <2>1, <3>3 DEF Created
      <4> QED BY <1>1, <1>2, <1>6, <2>1, <3>3, <4>1
    <3>4. CASE w = v /\ u = v
      BY <1>1, <1>2, <2>1, <3>4
    <3> QED BY <3>1, <3>2, <3>3, <3>4 DEF v
  <2>2. ASSUME NEW x \in DOMAIN job', job'[x].st = "sending", NEW w \in Created(x)',
               w.leg = job'[x].leg - 1, w.sameMatrix
        PROVE  job'[x].epoch >= w.llegada + Layover
    <3>1. CASE x = j
      <4>1. job'[j].leg = n + 1 /\ job'[j].epoch = NextDeparture(j)
        BY <2>2, <3>1 DEF n
      <4>2. w.leg = n
        BY <1>1, <2>2, <3>1, <4>1
      <4>3. w = v
        BY <1>1, <1>3, <1>6, <2>2, <3>1, <4>2
      <4> QED BY <1>2, <2>2, <3>1, <4>1, <4>3
    <3>2. CASE x # j
      BY <1>3, <2>2, <3>2 DEF CreationInv, LayoverOK
    <3> QED BY <3>1, <3>2
  <2> QED BY <2>1, <2>2 DEF LayoverOK, LegsHaveALayover
<1> QED BY <1>9, <1>10, <1>11 DEF CreationInv

LEMMA LegEndsKeeps ==
  ASSUME CreationInv, NEW j \in DOMAIN job, LegEnds(j)
  PROVE  CreationInv'
<1>1. CASE LegRefused(j)
  <2>1. job[j].st = "sending" /\ Finish(j, "failed") /\ UNCHANGED programados
        /\ UNCHANGED <<creationMode, stopoverRoute, tableVars, serverMatrix>>
    BY <1>1 DEF LegRefused, AfterRefusal
  <2>2. /\ DialogOK' /\ BusyOK'
        /\ job' \in Seq(Jobs) /\ DOMAIN job' = DOMAIN job /\ Len(job') = Len(job)
        /\ \A x \in DOMAIN job : x # j => job'[x] = job[x]
        /\ job'[j] = [job[j] EXCEPT !.st = "failed"]
    BY <2>1, FinishEffect
  <2>3. job[j] \in Jobs
    BY RunningJob
  <2>4. \A x \in DOMAIN job : /\ job'[x].route = job[x].route /\ job'[x].leg = job[x].leg
                              /\ job'[x].epoch = job[x].epoch
                              /\ job'[x].st \in {job[x].st, "failed"}
    <3>1. \A J \in Jobs : LET K == [J EXCEPT !.st = "failed"]
                         IN  /\ K.route = J.route /\ K.leg = J.leg
                             /\ K.epoch = J.epoch /\ K.st = "failed"
      BY DEF Jobs
    <3>2. LET K == [job[j] EXCEPT !.st = "failed"]
          IN  /\ K.route = job[j].route /\ K.leg = job[j].leg
              /\ K.epoch = job[j].epoch /\ K.st = "failed"
      BY <2>3, <3>1
    <3> QED BY <2>2, <3>2
  <2> QED BY <2>1, <2>2, <2>4, NothingCreatedKeeps
<1>2. ASSUME NEW st \in {"done", "failed"}, Finish(j, st), job[j].st = "sending", Accepts(j),
             programados' = programados \union {LegFlight(j)}, st = "done" => IsLastLeg(j),
             UNCHANGED <<creationMode, stopoverRoute, tableVars, serverMatrix>>
      PROVE  CreationInv'
  <2>1. /\ DialogOK' /\ BusyOK'
        /\ job' \in Seq(Jobs) /\ DOMAIN job' = DOMAIN job /\ Len(job') = Len(job)
        /\ \A x \in DOMAIN job : x # j => job'[x] = job[x]
        /\ job'[j] = [job[j] EXCEPT !.st = st]
    BY <1>2, FinishEffect
  <2>2. job[j] \in Jobs
    BY RunningJob
  <2>3. job'[j].route = job[j].route /\ job'[j].leg = job[j].leg /\ job'[j].st = st
    <3>1. \A J \in Jobs : LET K == [J EXCEPT !.st = st]
                         IN  K.route = J.route /\ K.leg = J.leg /\ K.st = st
      BY DEF Jobs
    <3> QED BY <2>1, <2>2, <3>1
  <2> QED BY <1>2, <2>1, <2>3, LegCreatedKeeps
<1>3. CASE LegLost(j)
  BY <1>2, <1>3 DEF LegLost
<1>4. CASE LegAnswered(j) /\ IsLastLeg(j)
  BY <1>2, <1>4 DEF LegAnswered
<1>5. CASE LegAnswered(j) /\ ~IsLastLeg(j)
  <2>1. /\ job[j].st = "sending" /\ Accepts(j) /\ programados' = programados \union {LegFlight(j)}
        /\ job' = [job EXCEPT ![j].leg = @ + 1, ![j].epoch = NextDeparture(j)]
        /\ UNCHANGED <<showAddModal, submitting, creationMode, stopoverRoute, matrix, precios, serverMatrix>>
    BY <1>5 DEF LegAnswered, NextLeg, tableVars
  <2>2. /\ job \in Seq(Jobs) /\ job[j] \in Jobs /\ job[j].leg \in Nat /\ NextDeparture(j) \in Nat
    BY <2>1, RunningJob, LegFlightType DEF CreationInv, JobsOK
  <2> DEFINE J == [job[j] EXCEPT !.leg = @ + 1, !.epoch = NextDeparture(j)]
  <2>3. /\ J \in Jobs /\ J.leg = job[j].leg + 1 /\ J.epoch = NextDeparture(j)
        /\ J.route = job[j].route /\ J.st = job[j].st /\ J.mounted = job[j].mounted
    <3>1. \A I \in Jobs, n \in Nat \ {0} :
             LET K == [I EXCEPT !.leg = n]
             IN  /\ K \in Jobs /\ K.leg = n
                 /\ K.route = I.route /\ K.st = I.st /\ K.mounted = I.mounted
      BY DEF Jobs
    <3>2. \A I \in Jobs, e \in Nat :
             LET K == [I EXCEPT !.epoch = e]
             IN  /\ K \in Jobs /\ K.epoch = e /\ K.leg = I.leg
                 /\ K.route = I.route /\ K.st = I.st /\ K.mounted = I.mounted
      BY DEF Jobs
    <3>3. PICK n \in Nat \ {0} : n = job[j].leg + 1
      BY <2>2
    <3>4. PICK I \in Jobs : I = [job[j] EXCEPT !.leg = n]
      BY <2>2, <3>1
    <3>5. J = [I EXCEPT !.epoch = NextDeparture(j)]
      BY <3>3, <3>4
    <3>6. /\ I.leg = n
          /\ I.route = job[j].route /\ I.st = job[j].st /\ I.mounted = job[j].mounted
      BY <2>2, <3>1, <3>4
    <3> HIDE DEF J
    <3> QED BY <2>2, <3>2, <3>3, <3>5, <3>6
  <2>4. job' = [job EXCEPT ![j] = J]
    BY <2>1, <2>2
  <2> HIDE DEF J
  <2>5. /\ job' \in Seq(Jobs) /\ DOMAIN job' = DOMAIN job /\ Len(job') = Len(job)
        /\ \A x \in DOMAIN job : x # j => job'[x] = job[x]
        /\ job'[j] = J
    BY <2>2, <2>3, <2>4
  <2>6. DialogOK'
    BY <2>1 DEF CreationInv, DialogOK
  <2>7. Busy' = Busy
    BY <2>3, <2>5 DEF Busy
  <2>8. BusyOK'
    BY <2>1, <2>7 DEF CreationInv, BusyOK
  <2> QED BY <1>5, <2>1, <2>3, <2>5, <2>6, <2>8, LegCreatedKeeps
<1> QED BY <1>1, <1>3, <1>4, <1>5 DEF LegEnds

LEMMA CreationInvStep == CreationInv /\ [CreationNext]_creationVars => CreationInv'
<1> SUFFICES ASSUME CreationInv, [CreationNext]_creationVars PROVE CreationInv'
  OBVIOUS
<1> USE CreationAssumption
<1>0. DialogOK
  BY DEF CreationInv
<1>1. CASE TablesRead
  BY <1>0, <1>1, DialogKeeps DEF TablesRead, dialogVars, DialogOK
<1>2. CASE ImportMatrix
  BY <1>0, <1>2, DialogKeeps DEF ImportMatrix, dialogVars, tableVars, DialogOK
<1>3. CASE NuevoVuelo
  <2>1. <<>> \in Seq(Cities) /\ Len(<<>>) = 0
    OBVIOUS
  <2> QED BY <1>0, <1>3, <2>1, DialogKeeps DEF NuevoVuelo, tableVars, DialogOK
<1>4. CASE EditRoute
  <2>1. ASSUME NEW c \in Cities, AddCity(c), Len(stopoverRoute) < MaxRoute
        PROVE  stopoverRoute' \in Seq(Cities) /\ Len(stopoverRoute') <= MaxRoute
    BY <1>0, <2>1 DEF AddCity, DialogOK
  <2>2. ASSUME Len(stopoverRoute) > 1, RemoveLastStopover
        PROVE  stopoverRoute' \in Seq(Cities) /\ Len(stopoverRoute') <= MaxRoute
    <3>1. stopoverRoute' = SubSeq(stopoverRoute, 1, Len(stopoverRoute) - 1)
      BY <2>2 DEF RemoveLastStopover, Front
    <3>2. stopoverRoute \in Seq(Cities) /\ Len(stopoverRoute) <= MaxRoute
      BY <1>0 DEF DialogOK
    <3> QED BY <2>2, <3>1, <3>2
  <2>3. stopoverRoute = <<>> => Len(stopoverRoute) < MaxRoute
    OBVIOUS
  <2>4. stopoverRoute' \in Seq(Cities) /\ Len(stopoverRoute') <= MaxRoute
    BY <1>4, <2>1, <2>2, <2>3 DEF EditRoute, ValidNext
  <2> QED BY <1>0, <1>4, <2>4, DialogKeeps DEF EditRoute, tableVars, DialogOK
<1>5. CASE Cancelar
  BY <1>0, <1>5, DialogKeeps DEF Cancelar, tableVars, DialogOK
<1>6. CASE LeavePage
  <2>1. job \in Seq(Jobs)
    BY DEF CreationInv, JobsOK
  <2>2. \A j \in DOMAIN job : job[j] \in Jobs /\ [job[j] EXCEPT !.mounted = FALSE] \in Jobs
    BY <2>1, RunningJob DEF Jobs
  <2>3. /\ job' = [j \in DOMAIN job |-> [job[j] EXCEPT !.mounted = FALSE]]
        /\ DOMAIN job = 1 .. Len(job) /\ Len(job) \in Nat
    BY <1>6, <2>1 DEF LeavePage
  <2>4. job' \in Seq(Jobs) /\ DOMAIN job' = DOMAIN job /\ Len(job') = Len(job)
    BY <2>2, <2>3
  <2>5. \A j \in DOMAIN job : /\ job'[j].route = job[j].route /\ job'[j].leg = job[j].leg
                              /\ job'[j].epoch = job[j].epoch /\ job'[j].st = job[j].st
                              /\ job'[j].mounted = FALSE
    BY <2>2, <2>3 DEF Jobs
  <2>6. DialogOK'
    <3>1. <<>> \in Seq(Cities) /\ Len(<<>>) = 0 /\ Len(<<>>) <= MaxRoute
      OBVIOUS
    <3> QED BY <1>0, <1>6, <3>1 DEF LeavePage, DialogOK
  <2>7. BusyOK'
    BY <1>6, <2>4, <2>5 DEF LeavePage, BusyOK, Busy
  <2> QED BY <1>6, <2>4, <2>5, <2>6, <2>7, NothingCreatedKeeps DEF LeavePage
<1>7. ASSUME NEW m \in {"direct", "advanced"}, SetCreationMode(m) PROVE CreationInv'
  <2>1. <<>> \in Seq(Cities) /\ Len(<<>>) = 0
    OBVIOUS
  <2> QED BY <1>0, <1>7, <2>1, DialogKeeps DEF SetCreationMode, tableVars, DialogOK
<1>8. ASSUME NEW form \in DirectForm, GuardarDirecto(form) PROVE CreationInv'
  <2>1. form.o \in Cities /\ form.d \in Cities /\ form.start \in Nat
    BY DEF DirectForm
  <2>2. <<form.o, form.d>> \in Seq(Cities) /\ Len(<<form.o, form.d>>) = 2
    BY <2>1
  <2>3. CASE Refuse
    BY <1>0, <1>8, <2>3, DialogKeeps DEF GuardarDirecto, Refuse, tableVars, DialogOK
  <2>4. CASE Submit(<<form.o, form.d>>, "direct", form.start)
    <3>1. DialogOK' /\ UNCHANGED programados /\ ~submitting
      BY <1>0, <1>8, <2>4 DEF GuardarDirecto, Submit, CanSave, tableVars, DialogOK
    <3>2. PICK r : r = <<form.o, form.d>>
      OBVIOUS
    <3>3. r \in Seq(Cities) /\ Len(r) >= 2 /\ Len(r) <= MaxRoute
      BY <2>2, <3>2
    <3> QED BY <2>1, <2>4, <3>1, <3>2, <3>3, SubmitKeeps
  <2> QED BY <1>8, <2>3, <2>4 DEF GuardarDirecto
<1>9. ASSUME NEW form \in StopoverForm, GuardarEscalas(form) PROVE CreationInv'
  <2>1. form.start \in Nat
    BY DEF StopoverForm
  <2>2. CASE Refuse
    BY <1>0, <1>9, <2>2, DialogKeeps DEF GuardarEscalas, Refuse, tableVars, DialogOK
  <2>3. CASE Len(stopoverRoute) >= 2 /\ Submit(stopoverRoute, "advanced", form.start)
    <3>1. DialogOK' /\ UNCHANGED programados /\ ~submitting
      BY <1>0, <1>9, <2>3 DEF GuardarEscalas, Submit, CanSave, tableVars, DialogOK
    <3>2. stopoverRoute \in Seq(Cities) /\ Len(stopoverRoute) <= MaxRoute
      BY <1>0 DEF DialogOK
    <3> QED BY <2>1, <2>3, <3>1, <3>2, SubmitKeeps
  <2> QED BY <1>9, <2>2, <2>3 DEF GuardarEscalas
<1>10. CASE UNCHANGED creationVars
  BY <1>0, <1>10, DialogKeeps DEF creationVars, dialogVars, tableVars, DialogOK
<1> QED BY <1>1, <1>2, <1>3, <1>4, <1>5, <1>6, <1>7, <1>8, <1>9, <1>10, LegEndsKeeps DEF CreationNext

LEMMA CreationInvOrderly == CreationInv => CreationIsOrderly
<1> SUFFICES ASSUME CreationInv PROVE CreationIsOrderly
  OBVIOUS
<1>1. ASSUME NEW j \in DOMAIN job
      PROVE  /\ \E k \in 0 .. Len(job[j].route) - 1 :
                  /\ {<<v.leg, v.from, v.to>> : v \in Created(j)}
                        = {<<i, job[j].route[i], job[j].route[i + 1]>> : i \in 1 .. k}
                  /\ Cardinality(Created(j)) = k
                  /\ job[j].st = "done" => k = Len(job[j].route) - 1
             /\ job[j].st = "sending" => Cardinality(Created(j)) = job[j].leg - 1
  <2>1. PICK k \in {job[j].leg - 1, job[j].leg} :
               /\ RouteStart(Created(j), job[j].route, k)
               /\ job[j].st = "sending" => k = job[j].leg - 1
               /\ job[j].st = "done" => k = Len(job[j].route) - 1
    BY DEF CreationInv, StartedOK
  <2>2. job[j].leg \in Nat \ {0} /\ job[j].leg < Len(job[j].route) /\ Len(job[j].route) \in Nat
    BY RunningJob
  <2>3. k \in 0 .. Len(job[j].route) - 1
    BY <2>2
  <2> QED BY <2>1, <2>3 DEF RouteStart
<1>2. CreatedIsARouteStart
  BY <1>1 DEF CreatedIsARouteStart
<1>3. BusyWhileSending
  <2>1. Busy = {j \in DOMAIN job : job[j].st = "sending" /\ job[j].mounted}
    BY DEF Busy
  <2>2. Cardinality(Busy) <= 1
    BY AtMostOne DEF CreationInv, BusyOK
  <2> QED BY <2>1, <2>2 DEF BusyWhileSending, CreationInv, BusyOK
<1> QED BY <1>2, <1>3 DEF CreationIsOrderly, CreationInv, LayoverOK

LEMMA CreationInvTypes == CreationInv => CreationTypeOK
<1> SUFFICES ASSUME CreationInv PROVE CreationTypeOK
  OBVIOUS
<1>1. stopoverRoute \in Routes
  BY RoutesAreSequences DEF CreationInv, DialogOK
<1>2. ASSUME NEW j \in DOMAIN job
      PROVE  /\ job[j].route \in Routes /\ job[j].leg \in 1 .. (Len(job[j].route) - 1)
             /\ job[j].epoch \in Nat
             /\ job[j].st \in {"sending", "done", "failed"} /\ job[j].mounted \in BOOLEAN
  <2>1. /\ job[j].route \in Seq(Cities) /\ job[j].leg \in Nat \ {0}
        /\ job[j].leg < Len(job[j].route) /\ Len(job[j].route) \in Nat
        /\ job[j].epoch \in Nat
        /\ job[j].st \in {"sending", "done", "failed"} /\ job[j].mounted \in BOOLEAN
    BY RunningJob
  <2>2. Len(job[j].route) <= MaxRoute
    BY DEF CreationInv, JobsOK
  <2> QED BY <2>1, <2>2, RoutesAreSequences
<1> QED BY <1>1, <1>2 DEF CreationTypeOK, CreationInv, DialogOK, JobsOK

(* However its requests are answered, a submission creates a beginning of  *)
(* its route, leg by leg and two hours apart, and never beside another one *)
(* of the same visit, for any cities, times, fares and numbers of          *)
(* submissions (app/vuelos/page.tsx).                                      *)
THEOREM CreationStaysOrderly == CreationSpec => []CreationIsOrderly
BY CreationInvInit, CreationInvStep, CreationInvOrderly, PTL DEF CreationSpec

(***************************************************************************)
(* The boarding pass files: downloads that overlap, in one document.       *)
(***************************************************************************)
DownloadStages == {"pass", "images", "front", "back", "saved", "failed", "nopass"}

Descargas == [boleto : Pasajes, st : DownloadStages, lados : Seq(Sides), mounted : BOOLEAN]

\* The downloads that have a hidden page in the document.
AtWork == {d \in DOMAIN descarga : descarga[d].st \in {"images", "front", "back"}}

\* No download was refused its pass: none took a style sheet it had not added.
NoneRefused == \A d \in DOMAIN descarga : descarga[d].st # "nopass"

PassTyped ==
  /\ descarga \in Seq(Descargas) /\ Len(descarga) <= MaxDownloads
  /\ styleTags \in Seq(Downloads) /\ divs \in Seq(Downloads)
  /\ archivo \in [Downloads -> {<<>>} \union [1..2 -> Sides]] /\ enCurso \in BOOLEAN

\* Each hidden page is of one download that is at work, and each of those has one.
PagesInv ==
  /\ Range(divs) = AtWork
  /\ \A i, k \in DOMAIN divs : divs[i] = divs[k] => i = k

\* There are never more style sheets than downloads at work, and as many
\* when none was refused.
StylesInv ==
  /\ Len(styleTags) <= Cardinality(AtWork)
  /\ NoneRefused => Len(styleTags) = Cardinality(AtWork)

SideOf(d, side) == side.boleto = descarga[d].boleto /\ (NoneRefused => side.styled)

\* The first side a download holds when it takes the second.
SidesInv ==
  \A d \in DOMAIN descarga : descarga[d].st = "back" =>
    Len(descarga[d].lados) = 1 /\ SideOf(d, descarga[d].lados[1])

FilesInv ==
  \A d \in Downloads : archivo[d] # <<>> =>
    /\ d \in DOMAIN descarga /\ descarga[d].st = "saved"
    /\ \A i \in 1..2 : SideOf(d, archivo[d][i])

DownloadInv == PassTyped /\ PagesInv /\ StylesInv /\ SidesInv /\ FilesInv

(* RemoveFirst takes the one occurrence of d out of a sequence that has no  *)
(* element twice, and nothing else.                                         *)
LEMMA PageRemoved ==
  ASSUME NEW S, NEW s \in Seq(S), NEW d,
         \A i, k \in DOMAIN s : s[i] = s[k] => i = k
  PROVE  /\ RemoveFirst(s, d) \in Seq(S)
         /\ Range(RemoveFirst(s, d)) = Range(s) \ {d}
         /\ \A i, k \in DOMAIN RemoveFirst(s, d) :
              RemoveFirst(s, d)[i] = RemoveFirst(s, d)[k] => i = k
<1>1. CASE ~ \E i \in 1..Len(s) : s[i] = d
  BY <1>1 DEF RemoveFirst, Range
<1>2. CASE \E i \in 1..Len(s) : s[i] = d
  <2>1. PICK i \in 1..Len(s) : s[i] = d
    BY <1>2
  <2>2. {k \in 1..Len(s) : s[k] = d} = {i}
    BY <2>1
  <2>3. Min({i}) = i
    BY <2>1 DEF Min
  <2>4. SelectInSeq(s, LAMBDA v : v = d) = i
    BY <2>2, <2>3 DEF SelectInSeq
  <2>5. RemoveFirst(s, d) = SubSeq(s, 1, i-1) \o SubSeq(s, i+1, Len(s))
    BY <1>2, <2>4 DEF RemoveFirst, RemoveAt
  <2> DEFINE t == SubSeq(s, 1, i-1) \o SubSeq(s, i+1, Len(s))
  <2>6. /\ t \in Seq(S) /\ Len(t) = Len(s) - 1
        /\ \A k \in 1..(i-1) : t[k] = s[k]
        /\ \A k \in i..(Len(s)-1) : t[k] = s[k+1]
    <3> DEFINE l == SubSeq(s, 1, i-1)
               r == SubSeq(s, i+1, Len(s))
    <3>1. l \in Seq(S) /\ Len(l) = i-1 /\ \A k \in 1..(i-1) : l[k] = s[k]
      BY <2>1
    <3>2. r \in Seq(S) /\ Len(r) = Len(s)-i /\ \A k \in 1..(Len(s)-i) : r[k] = s[k+i]
      BY <2>1
    <3>3. t = l \o r
      OBVIOUS
    <3> HIDE DEF l, r, t
    <3>4. t \in Seq(S) /\ Len(t) = Len(s) - 1
      BY <2>1, <3>1, <3>2, <3>3
    <3>5. \A k \in 1..(i-1) : t[k] = s[k]
      BY <2>1, <3>1, <3>2, <3>3
    <3>6. ASSUME NEW k \in i..(Len(s)-1) PROVE t[k] = s[k+1]
      <4>1. k - (i-1) \in 1..(Len(s)-i)
        BY <2>1
      <4>2. t[k] = r[k - (i-1)]
        BY <2>1, <3>1, <3>2, <3>3
      <4>3. r[k - (i-1)] = s[k - (i-1) + i]
        BY <3>2, <4>1
      <4> QED BY <2>1, <4>2, <4>3
    <3> QED BY <3>4, <3>5, <3>6
  <2> HIDE DEF t
  <2>7. \A i1, i2 \in DOMAIN t : t[i1] = t[i2] => i1 = i2
    <3> SUFFICES ASSUME NEW i1 \in DOMAIN t, NEW i2 \in DOMAIN t, t[i1] = t[i2] PROVE i1 = i2
      OBVIOUS
    <3>1. i1 \in 1..(Len(s)-1) /\ i2 \in 1..(Len(s)-1)
      BY <2>6
    <3>2. ASSUME NEW k \in 1..(Len(s)-1)
          PROVE  /\ k < i => t[k] = s[k] /\ k \in DOMAIN s
                 /\ k >= i => t[k] = s[k+1] /\ k+1 \in DOMAIN s
      BY <2>1, <2>6
    <3>3. CASE i1 < i /\ i2 < i
      <4>1. s[i1] = s[i2] /\ i1 \in DOMAIN s /\ i2 \in DOMAIN s
        BY <3>1, <3>2, <3>3
      <4> QED BY <4>1
    <3>4. CASE i1 >= i /\ i2 >= i
      <4>1. s[i1+1] = s[i2+1] /\ i1+1 \in DOMAIN s /\ i2+1 \in DOMAIN s
        BY <2>1, <3>1, <3>2, <3>4
      <4> QED BY <3>1, <4>1
    <3>5. ASSUME NEW x \in 1..(Len(s)-1), NEW y \in 1..(Len(s)-1), x < i, y >= i, t[x] = t[y]
          PROVE FALSE
      <4>1. t[x] = s[x] /\ t[y] = s[y+1]
        BY <3>2, <3>5
      <4>2. x \in DOMAIN s /\ y+1 \in DOMAIN s
        BY <2>1, <3>5
      <4>3. x = y+1
        BY <3>5, <4>1, <4>2
      <4> QED BY <2>1, <3>5, <4>3
    <3> QED BY <2>1, <3>1, <3>3, <3>4, <3>5
  <2>8. \A e : e \in Range(t) <=> e \in Range(s) \ {d}
    <3>1. ASSUME NEW k \in DOMAIN t PROVE t[k] \in Range(s) \ {d}
      <4>1. k \in 1..(Len(s)-1)
        BY <2>6
      <4>2. \E x \in DOMAIN s : x # i /\ t[k] = s[x]
        <5>1. CASE k < i
          BY <2>1, <2>6, <4>1, <5>1
        <5>2. CASE k >= i
          <6>1. k+1 \in DOMAIN s /\ k+1 # i /\ t[k] = s[k+1]
            BY <2>1, <2>6, <4>1, <5>2
          <6> QED BY <6>1
        <5> QED BY <2>1, <4>1, <5>1, <5>2
      <4> QED BY <2>1, <4>2 DEF Range
    <3>2. \A k \in DOMAIN s : s[k] # d => s[k] \in Range(t)
      <4> SUFFICES ASSUME NEW k \in DOMAIN s, s[k] # d PROVE \E x \in DOMAIN t : t[x] = s[k]
        BY DEF Range
      <4>1. CASE k < i
        BY <2>6, <4>1
      <4>2. CASE k > i
        <5>1. k-1 \in DOMAIN t /\ t[k-1] = s[k]
          BY <2>1, <2>6, <4>2
        <5> QED BY <5>1
      <4> QED BY <2>1, <4>1, <4>2
    <3> QED BY <3>1, <3>2 DEF Range
  <2>9. RemoveFirst(s, d) = t
    BY <2>5 DEF t
  <2> QED BY <2>6, <2>7, <2>8, <2>9
<1> QED BY <1>1, <1>2


LEMMA DescargaFields ==
  ASSUME NEW D \in Descargas
  PROVE  D.boleto \in Pasajes /\ D.st \in DownloadStages /\ D.lados \in Seq(Sides)
         /\ D.mounted \in BOOLEAN
  BY DEF Descargas

LEMMA PassTypes == DownloadInv => PassTypeOK
<1> SUFFICES ASSUME DownloadInv PROVE PassTypeOK
  OBVIOUS
<1>1. \A d \in DOMAIN descarga : descarga[d] \in Descargas
  BY DEF DownloadInv, PassTyped
<1>2. \A d \in DOMAIN descarga :
        descarga[d].boleto \in Pasajes /\ descarga[d].st \in DownloadStages
        /\ descarga[d].lados \in Seq(Sides) /\ descarga[d].mounted \in BOOLEAN
  BY <1>1, DescargaFields
<1> QED BY <1>2 DEF DownloadInv, PassTyped, PassTypeOK, DownloadStages

LEMMA AtWorkDownloads ==
  ASSUME PassTyped
  PROVE  /\ DOMAIN descarga \subseteq Downloads /\ AtWork \subseteq DOMAIN descarga
         /\ IsFiniteSet(AtWork) /\ Cardinality(AtWork) \in Nat
<1>1. DOMAIN descarga = 1..Len(descarga) /\ DOMAIN descarga \subseteq Downloads
  BY PassAssumption DEF PassTyped, Downloads
<1>2. IsFiniteSet(DOMAIN descarga)
  BY <1>1, FS_Interval DEF PassTyped
<1>3. AtWork \subseteq DOMAIN descarga
  BY DEF AtWork
<1> QED BY <1>1, <1>2, <1>3, FS_Subset, FS_CardinalityType

(* No download is at work, and the document has nothing of any; a file was *)
(* made of the sides of its own ticket, and in style.                      *)
LEMMA DownloadInvApart == DownloadInv => DownloadsKeepApart
<1> SUFFICES ASSUME DownloadInv PROVE DownloadsKeepApart
  OBVIOUS
<1>1. PassTyped /\ PagesInv /\ StylesInv /\ FilesInv
  BY DEF DownloadInv
<1>2. NothingIsLeft
  <2> SUFFICES ASSUME Running = {} PROVE styleTags = <<>> /\ divs = <<>>
    BY DEF NothingIsLeft
  <2>1. AtWork = {}
    BY DEF AtWork, Running, Stage
  <2>2. Cardinality(AtWork) = 0
    BY <2>1, FS_EmptySet
  <2>3. Len(styleTags) = 0
    BY <1>1, <2>2 DEF StylesInv, PassTyped
  <2>4. ASSUME NEW k \in DOMAIN divs PROVE FALSE
    <3>1. divs[k] \in Range(divs)
      BY <2>4 DEF Range
    <3> QED BY <1>1, <2>1, <3>1 DEF PagesInv
  <2>5. Len(divs) = 0
    <3>1. Len(divs) \in Nat /\ DOMAIN divs = 1..Len(divs)
      BY <1>1 DEF PassTyped
    <3> QED BY <2>4, <3>1
  <2> QED BY <1>1, <2>3, <2>5 DEF PassTyped
<1>3. FileIsOfItsTicket
  BY <1>1 DEF FilesInv, SideOf, FileIsOfItsTicket
<1>4. FilesAreStyled
  <2> SUFFICES ASSUME \A d \in Downloads : Stage(d) # "nopass",
                      NEW d \in Downloads, NEW i \in DOMAIN archivo[d]
               PROVE  archivo[d][i].styled
    BY DEF FilesAreStyled
  <2>1. NoneRefused
    BY <1>1, AtWorkDownloads DEF NoneRefused, Stage
  <2>2. archivo[d] # <<>> /\ i \in 1..2
    <3>1. archivo[d] \in {<<>>} \union [1..2 -> Sides]
      BY <1>1 DEF PassTyped
    <3>2. DOMAIN <<>> = {}
      OBVIOUS
    <3> QED BY <3>1, <3>2
  <2> QED BY <1>1, <2>1, <2>2 DEF FilesInv, SideOf
<1> QED BY <1>2, <1>3, <1>4 DEF DownloadsKeepApart

LEMMA DownloadInvInit == PassInit => DownloadInv
<1> SUFFICES ASSUME PassInit PROVE DownloadInv
  OBVIOUS
<1>1. <<>> \in Seq(Descargas) /\ <<>> \in Seq(Downloads) /\ Len(<<>>) = 0 /\ DOMAIN <<>> = {}
  OBVIOUS
<1>2. PassTyped
  <2>1. archivo \in [Downloads -> {<<>>} \union [1..2 -> Sides]]
    BY DEF PassInit
  <2>2. descarga = <<>> /\ styleTags = <<>> /\ divs = <<>> /\ enCurso = FALSE
    BY DEF PassInit
  <2>3. 0 <= MaxDownloads
    BY PassAssumption
  <2> QED BY <1>1, <2>1, <2>2, <2>3 DEF PassTyped
<1>3. AtWork = {} /\ Cardinality(AtWork) = 0
  BY <1>1, FS_EmptySet DEF PassInit, AtWork
<1>4. PagesInv
  BY <1>1, <1>3 DEF PassInit, PagesInv, Range
<1>5. StylesInv
  BY <1>1, <1>3 DEF PassInit, StylesInv
<1>6. SidesInv /\ FilesInv
  BY <1>1 DEF PassInit, SidesInv, FilesInv
<1> QED BY <1>2, <1>4, <1>5, <1>6 DEF DownloadInv

(* What a step of download d makes of it, and of nobody else. *)
Becomes(d, D) ==
  /\ D \in Descargas /\ D.boleto = descarga[d].boleto
  /\ descarga' = [descarga EXCEPT ![d] = D]

LEMMA OneBecomes ==
  ASSUME PassTyped, NEW d \in DOMAIN descarga, NEW D, Becomes(d, D)
  PROVE  /\ descarga' \in Seq(Descargas) /\ Len(descarga') = Len(descarga)
         /\ DOMAIN descarga' = DOMAIN descarga
         /\ descarga'[d] = D
         /\ \A x \in DOMAIN descarga : x # d => descarga'[x] = descarga[x]
         /\ \A x \in DOMAIN descarga : descarga'[x].boleto = descarga[x].boleto
         /\ descarga[d].st # "nopass" => (NoneRefused' => NoneRefused)
<1>1. /\ descarga' \in Seq(Descargas) /\ Len(descarga') = Len(descarga)
      /\ DOMAIN descarga' = DOMAIN descarga /\ descarga'[d] = D
      /\ \A x \in DOMAIN descarga : x # d => descarga'[x] = descarga[x]
  BY DEF PassTyped, Becomes
<1>2. \A x \in DOMAIN descarga : descarga'[x].boleto = descarga[x].boleto
  BY <1>1 DEF Becomes
<1>3. ASSUME descarga[d].st # "nopass", NoneRefused' PROVE NoneRefused
  BY <1>1, <1>3 DEF NoneRefused
<1> QED BY <1>1, <1>2, <1>3

(* A picture shows the ticket of its download, and the styles of the       *)
(* document, which are there while a download is at work and none was      *)
(* refused.                                                                *)
LEMMA PictureRight ==
  ASSUME DownloadInv, NEW d \in AtWork
  PROVE  Picture(d) \in Sides /\ SideOf(d, Picture(d))
<1>1. descarga[d].boleto \in Pasajes
  <2>1. d \in DOMAIN descarga /\ descarga \in Seq(Descargas)
    BY DEF DownloadInv, PassTyped, AtWork
  <2>2. descarga[d] \in Descargas
    BY <2>1
  <2> QED BY <2>2, DescargaFields
<1>2. Picture(d) = [boleto |-> descarga[d].boleto, styled |-> styleTags # <<>>]
  BY DEF Picture, SourceOf
<1>3. NoneRefused => styleTags # <<>>
  <2> SUFFICES ASSUME NoneRefused, styleTags = <<>> PROVE FALSE
    OBVIOUS
  <2>1. Cardinality(AtWork) = 0
    BY DEF DownloadInv, StylesInv
  <2> QED BY <2>1, AtWorkDownloads, FS_EmptySet DEF DownloadInv
<1>4. /\ Picture(d) \in Sides /\ Picture(d).boleto = descarga[d].boleto
      /\ Picture(d).styled = (styleTags # <<>>)
  BY <1>1, <1>2 DEF Sides
<1> QED BY <1>3, <1>4 DEF SideOf


(* The sides that are right stay right, and the files are only of those    *)
(* that have ended.                                                        *)
LEMMA OthersStay ==
  ASSUME DownloadInv, NEW d \in DOMAIN descarga, NEW D, Becomes(d, D),
         descarga[d].st \notin {"saved", "nopass"}
  PROVE  /\ (D.st = "back" => /\ Len(D.lados) = 1
                              /\ D.lados[1].boleto = descarga[d].boleto
                              /\ NoneRefused' => D.lados[1].styled)
              => SidesInv'
         /\ archivo' = archivo => FilesInv'
<1>1. PassTyped /\ SidesInv /\ FilesInv
  BY DEF DownloadInv
<1>2. /\ DOMAIN descarga' = DOMAIN descarga
      /\ descarga'[d] = D
      /\ \A x \in DOMAIN descarga : x # d => descarga'[x] = descarga[x]
      /\ NoneRefused' => NoneRefused
  BY <1>1, OneBecomes
<1>3. D.boleto = descarga[d].boleto
  BY DEF Becomes
<1>4. ASSUME D.st = "back" => /\ Len(D.lados) = 1
                              /\ D.lados[1].boleto = descarga[d].boleto
                              /\ NoneRefused' => D.lados[1].styled
      PROVE  SidesInv'
  <2> SUFFICES ASSUME NEW x \in DOMAIN descarga, descarga'[x].st = "back"
               PROVE  /\ Len(descarga'[x].lados) = 1
                      /\ descarga'[x].lados[1].boleto = descarga'[x].boleto
                      /\ NoneRefused' => descarga'[x].lados[1].styled
    BY <1>2 DEF SidesInv, SideOf
  <2>1. CASE x = d
    BY <1>2, <1>3, <1>4, <2>1
  <2>2. CASE x # d
    <3>1. descarga'[x] = descarga[x]
      BY <1>2, <2>2
    <3> QED BY <1>1, <1>2, <3>1 DEF SidesInv, SideOf
  <2> QED BY <2>1, <2>2
<1>5. ASSUME archivo' = archivo PROVE FilesInv'
  <2> SUFFICES ASSUME NEW x \in Downloads, archivo[x] # <<>>
               PROVE  /\ x \in DOMAIN descarga /\ descarga'[x].st = "saved"
                      /\ \A i \in 1..2 : /\ archivo[x][i].boleto = descarga'[x].boleto
                                         /\ NoneRefused' => archivo[x][i].styled
    BY <1>2, <1>5 DEF FilesInv, SideOf
  <2>1. x \in DOMAIN descarga /\ descarga[x].st = "saved"
    BY <1>1 DEF FilesInv
  <2>2. descarga'[x] = descarga[x]
    BY <1>2, <2>1
  <2> QED BY <1>1, <1>2, <2>1, <2>2 DEF FilesInv, SideOf
<1> QED BY <1>4, <1>5

(* The downloads that are at work after a step of d. *)
LEMMA AtWorkBecomes ==
  ASSUME PassTyped, NEW d \in DOMAIN descarga, NEW D, Becomes(d, D)
  PROVE  /\ D.st \in {"images", "front", "back"} => AtWork' = AtWork \union {d}
         /\ D.st \notin {"images", "front", "back"} => AtWork' = AtWork \ {d}
<1>1. /\ DOMAIN descarga' = DOMAIN descarga
      /\ descarga'[d] = D
      /\ \A x \in DOMAIN descarga : x # d => descarga'[x] = descarga[x]
  BY OneBecomes
<1>2. \A x : x \in AtWork' <=> x \in DOMAIN descarga /\ descarga'[x].st \in {"images", "front", "back"}
  BY <1>1 DEF AtWork
<1>3. \A x : x # d => (x \in AtWork' <=> x \in AtWork)
  BY <1>1, <1>2 DEF AtWork
<1>4. d \in AtWork' <=> D.st \in {"images", "front", "back"}
  BY <1>1, <1>2
<1> QED BY <1>3, <1>4

LEMMA StageIs == ASSUME NEW d, Stage(d) # "none"
                 PROVE  d \in DOMAIN descarga /\ descarga[d].st = Stage(d)
  BY DEF Stage

(* No stage changes, or only a new download begins. *)
LEMMA SameStages ==
  ASSUME DownloadInv, descarga' \in Seq(Descargas), Len(descarga') <= MaxDownloads,
         DOMAIN descarga \subseteq DOMAIN descarga',
         \A x \in DOMAIN descarga : /\ descarga'[x].boleto = descarga[x].boleto
                                    /\ descarga'[x].st = descarga[x].st
                                    /\ descarga'[x].lados = descarga[x].lados,
         \A x \in DOMAIN descarga' : x \notin DOMAIN descarga => descarga'[x].st = "pass",
         enCurso' \in BOOLEAN, UNCHANGED <<styleTags, divs, archivo>>
  PROVE  DownloadInv'
<1>1. PassTyped'
  BY DEF DownloadInv, PassTyped
<1>2. AtWork' = AtWork
  BY DEF AtWork
<1>3. NoneRefused' <=> NoneRefused
  BY DEF NoneRefused
<1>4. PagesInv' /\ StylesInv'
  BY <1>2, <1>3 DEF DownloadInv, PagesInv, StylesInv
<1>5. SidesInv'
  <2> SUFFICES ASSUME NEW x \in DOMAIN descarga', descarga'[x].st = "back"
               PROVE  /\ Len(descarga'[x].lados) = 1
                      /\ descarga'[x].lados[1].boleto = descarga'[x].boleto
                      /\ NoneRefused' => descarga'[x].lados[1].styled
    BY DEF SidesInv, SideOf
  <2>1. x \in DOMAIN descarga
    OBVIOUS
  <2> QED BY <1>3, <2>1 DEF DownloadInv, SidesInv, SideOf
<1>6. FilesInv'
  <2> SUFFICES ASSUME NEW x \in Downloads, archivo[x] # <<>>
               PROVE  /\ x \in DOMAIN descarga' /\ descarga'[x].st = "saved"
                      /\ \A i \in 1..2 : /\ archivo[x][i].boleto = descarga'[x].boleto
                                         /\ NoneRefused' => archivo[x][i].styled
    BY DEF FilesInv, SideOf
  <2>1. x \in DOMAIN descarga /\ descarga[x].st = "saved"
        /\ \A i \in 1..2 : SideOf(x, archivo[x][i])
    BY DEF DownloadInv, FilesInv
  <2> QED BY <1>3, <2>1 DEF SideOf
<1> QED BY <1>1, <1>4, <1>5, <1>6 DEF DownloadInv


(* The two forms in which a step changes its download. *)
LEMMA StageChanges ==
  ASSUME PassTyped, NEW d \in DOMAIN descarga, NEW st \in DownloadStages,
         NEW D, D = [descarga[d] EXCEPT !.st = st]
  PROVE  /\ D \in Descargas /\ D.st = st /\ D.lados = descarga[d].lados
         /\ D.boleto = descarga[d].boleto
<1>1. \A E \in Descargas : LET K == [E EXCEPT !.st = st]
                           IN  /\ K \in Descargas /\ K.st = st
                               /\ K.lados = E.lados /\ K.boleto = E.boleto
  BY DEF Descargas
<1>2. descarga[d] \in Descargas
  BY DEF PassTyped
<1> QED BY <1>1, <1>2

LEMMA SidesChange ==
  ASSUME NEW E \in Descargas, NEW lados \in Seq(Sides),
         NEW D, D = [E EXCEPT !.lados = lados]
  PROVE  D \in Descargas /\ D.lados = lados /\ D.st = E.st /\ D.boleto = E.boleto
<1>1. \A I \in Descargas : LET K == [I EXCEPT !.lados = lados]
                           IN  /\ K \in Descargas /\ K.lados = lados
                               /\ K.st = I.st /\ K.boleto = I.boleto
  BY DEF Descargas
<1> QED BY <1>1

LEMMA BothSidesRight ==
  ASSUME DownloadInv, NEW d \in DOMAIN descarga, descarga[d].st = "back"
  PROVE  /\ BothSides(d) \in Seq(Sides) /\ BothSides(d) \in [1..2 -> Sides]
         /\ \A i \in 1..2 : SideOf(d, BothSides(d)[i])
<1>1. d \in AtWork
  BY DEF AtWork
<1>2. Picture(d) \in Sides /\ SideOf(d, Picture(d))
  BY <1>1, PictureRight
<1>3. descarga[d].lados \in Seq(Sides)
  <2>1. descarga[d] \in Descargas
    BY DEF DownloadInv, PassTyped
  <2> QED BY <2>1, DescargaFields
<1>4. Len(descarga[d].lados) = 1 /\ SideOf(d, descarga[d].lados[1])
  BY DEF DownloadInv, SidesInv
<1>5. PICK l \in Seq(Sides) : l = descarga[d].lados
  BY <1>3
<1>6. PICK p \in Sides : p = Picture(d)
  BY <1>2
<1>7. PICK t : t = Append(l, p)
  OBVIOUS
<1>8. t \in Seq(Sides) /\ Len(t) = 2 /\ t[1] = l[1] /\ t[2] = p
  BY <1>4, <1>5, <1>7
<1>9. t \in [1..2 -> Sides]
  BY <1>8
<1>10. t = BothSides(d)
  BY <1>5, <1>6, <1>7 DEF BothSides
<1>11. \A i \in 1..2 : i = 1 \/ i = 2
  OBVIOUS
<1> QED BY <1>2, <1>4, <1>5, <1>6, <1>8, <1>9, <1>10, <1>11

(* An end takes away the page of the download and one style sheet, if any. *)
LEMMA EndKeeps ==
  ASSUME DownloadInv, NEW d \in DOMAIN descarga, NEW D, Becomes(d, D),
         descarga[d].st \in {"pass", "images", "front", "back"},
         descarga[d].st = "pass" <=> D.st = "nopass",
         D.st \in {"saved", "failed", "nopass"},
         styleTags' = StylesLeft, divs' = DivsLeft(d)
  PROVE  PagesInv' /\ StylesInv' /\ styleTags' \in Seq(Downloads) /\ divs' \in Seq(Downloads)
<1>1. PassTyped /\ PagesInv /\ StylesInv
  BY DEF DownloadInv
<1>2. AtWork' = AtWork \ {d}
  BY <1>1, AtWorkBecomes
<1>3. /\ divs' \in Seq(Downloads) /\ Range(divs') = Range(divs) \ {d}
      /\ \A i, k \in DOMAIN divs' : divs'[i] = divs'[k] => i = k
  BY <1>1, PageRemoved DEF PassTyped, PagesInv, DivsLeft
<1>4. PagesInv'
  BY <1>1, <1>2, <1>3 DEF PagesInv
<1>5. /\ styleTags' \in Seq(Downloads)
      /\ Len(styleTags) = 0 => Len(styleTags') = 0
      /\ Len(styleTags) > 0 => Len(styleTags') = Len(styleTags) - 1
  <2>1. CASE styleTags = <<>>
    BY <1>1, <2>1 DEF StylesLeft, PassTyped
  <2>2. CASE styleTags # <<>>
    <3>1. styleTags' = Tail(styleTags) /\ styleTags \in Seq(Downloads)
      BY <1>1, <2>2 DEF StylesLeft, PassTyped
    <3>2. Len(styleTags) > 0
      BY <2>2, <3>1
    <3> QED BY <3>1, <3>2
  <2> QED BY <2>1, <2>2
<1>6. /\ IsFiniteSet(AtWork) /\ Cardinality(AtWork) \in Nat /\ Len(styleTags) \in Nat
      /\ Cardinality(AtWork \ {d}) = IF d \in AtWork THEN Cardinality(AtWork) - 1 ELSE Cardinality(AtWork)
  <2>1. IsFiniteSet(AtWork) /\ Cardinality(AtWork) \in Nat
    BY <1>1, AtWorkDownloads
  <2>2. Len(styleTags) \in Nat
    BY <1>1 DEF PassTyped
  <2> QED BY <2>1, <2>2, FS_RemoveElement
<1>7. StylesInv'
  <2>1. CASE d \in AtWork
    <3>1. Cardinality(AtWork') = Cardinality(AtWork) - 1 /\ Cardinality(AtWork) > 0
      <4>1. Cardinality(AtWork) # 0
        BY <1>6, <2>1, FS_EmptySet
      <4> QED BY <1>2, <1>6, <2>1, <4>1
    <3>2. NoneRefused' => NoneRefused
      BY <1>1, OneBecomes
    <3> QED BY <1>1, <1>5, <1>6, <3>1, <3>2 DEF StylesInv
  <2>2. CASE d \notin AtWork
    <3>1. D.st = "nopass"
      BY <2>2 DEF AtWork
    <3>2. ~NoneRefused'
      <4>1. descarga'[d] = D /\ DOMAIN descarga' = DOMAIN descarga
        BY <1>1, OneBecomes
      <4> QED BY <3>1, <4>1 DEF NoneRefused
    <3>3. AtWork' = AtWork
      BY <1>2, <2>2
    <3>4. Len(styleTags') <= Len(styleTags)
      BY <1>5, <1>6
    <3>5. Len(styleTags') \in Nat
      BY <1>5
    <3> QED BY <1>1, <1>6, <3>2, <3>3, <3>4, <3>5 DEF StylesInv
  <2> QED BY <2>1, <2>2
<1> QED BY <1>3, <1>4, <1>5, <1>7

LEMMA DownloadInvStep == DownloadInv /\ [PassNext]_passVars => DownloadInv'
<1> SUFFICES ASSUME DownloadInv, [PassNext]_passVars PROVE DownloadInv'
  OBVIOUS
<1>1. PassTyped /\ PagesInv /\ StylesInv /\ SidesInv /\ FilesInv
  BY DEF DownloadInv
<1>0. /\ "images" \in DownloadStages /\ "front" \in DownloadStages
      /\ "back" \in DownloadStages /\ "saved" \in DownloadStages
      /\ "nopass" \in DownloadStages /\ "failed" \in DownloadStages
  BY DEF DownloadStages
<1>2. CASE UNCHANGED passVars
  <2>1. UNCHANGED <<descarga, styleTags, divs, archivo, enCurso>>
    BY <1>2 DEF passVars
  <2> QED BY <1>1, <2>1, SameStages DEF PassTyped
<1>3. ASSUME NEW p \in Pasajes, NEW byButton \in BOOLEAN, StartDownload(p, byButton)
      PROVE  DownloadInv'
  <2>1. /\ Len(descarga) < MaxDownloads /\ enCurso' = TRUE
        /\ descarga' = Append(descarga, [boleto |-> p, st |-> "pass", lados |-> <<>>, mounted |-> TRUE])
        /\ UNCHANGED <<styleTags, divs, archivo>>
    BY <1>3 DEF StartDownload
  <2>2. PICK D : D = [boleto |-> p, st |-> "pass", lados |-> <<>>, mounted |-> TRUE]
    OBVIOUS
  <2>3. D \in Descargas /\ D.st = "pass"
    <3>1. <<>> \in Seq(Sides)
      OBVIOUS
    <3> QED BY <2>2, <3>1 DEF Descargas, DownloadStages
  <2>4. descarga' = Append(descarga, D) /\ descarga \in Seq(Descargas)
    BY <1>1, <2>1, <2>2 DEF PassTyped
  <2>5. /\ descarga' \in Seq(Descargas) /\ Len(descarga') = Len(descarga) + 1
        /\ DOMAIN descarga \subseteq DOMAIN descarga'
        /\ \A x \in DOMAIN descarga : descarga'[x] = descarga[x]
        /\ \A x \in DOMAIN descarga' : x \notin DOMAIN descarga => descarga'[x] = D
    BY <2>3, <2>4
  <2>6. Len(descarga') <= MaxDownloads
    BY <2>1, <2>4, <2>5, PassAssumption
  <2> QED BY <1>1, <2>1, <2>3, <2>5, <2>6, SameStages
<1>4. CASE LeaveDownloads
  <2>1. /\ descarga' = [d \in DOMAIN descarga |-> [descarga[d] EXCEPT !.mounted = FALSE]]
        /\ enCurso' = FALSE /\ UNCHANGED <<styleTags, divs, archivo>>
    BY <1>4 DEF LeaveDownloads
  <2>2. \A E \in Descargas : LET K == [E EXCEPT !.mounted = FALSE]
                             IN  /\ K \in Descargas /\ K.boleto = E.boleto
                                 /\ K.st = E.st /\ K.lados = E.lados
    BY DEF Descargas
  <2>3. \A d \in DOMAIN descarga : descarga[d] \in Descargas
    BY <1>1 DEF PassTyped
  <2>4. \A d \in DOMAIN descarga :
          /\ descarga'[d] \in Descargas /\ descarga'[d].boleto = descarga[d].boleto
          /\ descarga'[d].st = descarga[d].st /\ descarga'[d].lados = descarga[d].lados
    BY <2>1, <2>2, <2>3
  <2>5. DOMAIN descarga' = DOMAIN descarga /\ DOMAIN descarga = 1..Len(descarga) /\ Len(descarga) \in Nat
    BY <1>1, <2>1 DEF PassTyped
  <2>6. descarga' \in Seq(Descargas) /\ Len(descarga') = Len(descarga)
    <3>1. descarga' \in [1..Len(descarga) -> Descargas]
      BY <2>1, <2>4, <2>5
    <3> QED BY <2>5, <3>1
  <2> QED BY <1>1, <2>1, <2>4, <2>5, <2>6, SameStages DEF PassTyped
<1>5. ASSUME NEW d \in Downloads, PassIsThere(d) PROVE DownloadInv'
  <2>1. /\ d \in DOMAIN descarga /\ descarga[d].st = "pass"
        /\ styleTags' = Append(styleTags, d) /\ divs' = Append(divs, d)
        /\ descarga' = [descarga EXCEPT ![d].st = "images"]
        /\ archivo' = archivo /\ enCurso' = enCurso
    BY <1>5, StageIs DEF PassIsThere
  <2>2. PICK D : Becomes(d, D) /\ D.st = "images"
    <3>1. PICK D : D = [descarga[d] EXCEPT !.st = "images"]
      OBVIOUS
    <3>2. descarga' = [descarga EXCEPT ![d] = D]
      BY <2>1, <3>1
    <3>3. D \in Descargas /\ D.st = "images" /\ D.boleto = descarga[d].boleto
      BY <1>0, <1>1, <2>1, <3>1, StageChanges
    <3> QED BY <3>2, <3>3 DEF Becomes
  <2>3. /\ descarga' \in Seq(Descargas) /\ Len(descarga') = Len(descarga)
        /\ NoneRefused' => NoneRefused
    BY <1>1, <2>1, <2>2, OneBecomes
  <2>4. SidesInv' /\ FilesInv'
    BY <2>1, <2>2, OthersStay
  <2>5. d \notin AtWork /\ AtWork' = AtWork \union {d}
    BY <1>1, <2>1, <2>2, AtWorkBecomes DEF AtWork
  <2>6. /\ divs' \in Seq(Downloads) /\ styleTags' \in Seq(Downloads)
        /\ Len(divs') = Len(divs) + 1 /\ Len(styleTags') = Len(styleTags) + 1
        /\ divs'[Len(divs) + 1] = d /\ \A k \in DOMAIN divs : divs'[k] = divs[k]
    BY <1>1, <1>5, <2>1 DEF PassTyped
  <2>7. PagesInv'
    <3>1. DOMAIN divs = 1..Len(divs) /\ DOMAIN divs' = 1..(Len(divs)+1) /\ Len(divs) \in Nat
      BY <1>1, <2>6 DEF PassTyped
    <3>2. \A k \in DOMAIN divs : divs[k] # d
      BY <1>1, <2>5 DEF PagesInv, Range
    <3>3. Range(divs') = Range(divs) \union {d}
      BY <2>6, <3>1 DEF Range
    <3>4. \A i, k \in DOMAIN divs' : divs'[i] = divs'[k] => i = k
      <4>1. \A i \in DOMAIN divs' : i \in DOMAIN divs \/ i = Len(divs) + 1
        BY <3>1
      <4> QED BY <1>1, <2>6, <3>2, <4>1 DEF PagesInv
    <3> QED BY <1>1, <2>5, <3>3, <3>4 DEF PagesInv
  <2>8. StylesInv'
    <3>1. Cardinality(AtWork') = Cardinality(AtWork) + 1
      BY <1>1, <2>5, AtWorkDownloads, FS_AddElement
    <3> QED BY <1>1, <2>3, <2>6, <3>1, AtWorkDownloads DEF StylesInv, PassTyped
  <2>9. PassTyped'
    BY <1>1, <2>1, <2>3, <2>6 DEF PassTyped
  <2> QED BY <2>4, <2>7, <2>8, <2>9 DEF DownloadInv
<1>6. ASSUME NEW d \in Downloads, ImagesSettle(d) PROVE DownloadInv'
  <2>1. /\ d \in DOMAIN descarga /\ descarga[d].st = "images"
        /\ descarga' = [descarga EXCEPT ![d].st = "front"]
        /\ UNCHANGED <<styleTags, divs, archivo, enCurso>>
    BY <1>6, StageIs DEF ImagesSettle
  <2>2. PICK D : Becomes(d, D) /\ D.st = "front"
    <3>1. PICK D : D = [descarga[d] EXCEPT !.st = "front"]
      OBVIOUS
    <3>2. descarga' = [descarga EXCEPT ![d] = D]
      BY <2>1, <3>1
    <3>3. D \in Descargas /\ D.st = "front" /\ D.boleto = descarga[d].boleto
      BY <1>0, <1>1, <2>1, <3>1, StageChanges
    <3> QED BY <3>2, <3>3 DEF Becomes
  <2>3. /\ descarga' \in Seq(Descargas) /\ Len(descarga') = Len(descarga)
        /\ NoneRefused' => NoneRefused
    BY <1>1, <2>1, <2>2, OneBecomes
  <2>4. SidesInv' /\ FilesInv'
    BY <2>1, <2>2, OthersStay
  <2>5. AtWork' = AtWork
    BY <1>1, <2>1, <2>2, AtWorkBecomes DEF AtWork
  <2>6. PagesInv' /\ StylesInv'
    BY <1>1, <2>1, <2>3, <2>5 DEF PagesInv, StylesInv
  <2>7. PassTyped'
    BY <1>1, <2>1, <2>3 DEF PassTyped
  <2> QED BY <2>4, <2>6, <2>7 DEF DownloadInv
<1>7. ASSUME NEW d \in Downloads, FrontDone(d) PROVE DownloadInv'
  <2>1. /\ d \in DOMAIN descarga /\ descarga[d].st = "front"
        /\ descarga' = [descarga EXCEPT ![d].st = "back", ![d].lados = <<Picture(d)>>]
        /\ UNCHANGED <<styleTags, divs, archivo, enCurso>>
    BY <1>7, StageIs DEF FrontDone
  <2>2. d \in AtWork
    BY <2>1 DEF AtWork
  <2>3. Picture(d) \in Sides /\ SideOf(d, Picture(d))
    BY <2>2, PictureRight
  <2>4. PICK l \in Seq(Sides) : l = <<Picture(d)>> /\ Len(l) = 1 /\ l[1] = Picture(d)
    <3>1. \A p \in Sides : <<p>> \in Seq(Sides) /\ Len(<<p>>) = 1 /\ <<p>>[1] = p
      OBVIOUS
    <3> QED BY <2>3, <3>1
  <2>5. PICK D : Becomes(d, D) /\ D.st = "back" /\ D.lados = l
    <3>1. PICK E : E = [descarga[d] EXCEPT !.st = "back"]
      OBVIOUS
    <3>2. PICK D : D = [E EXCEPT !.lados = l]
      OBVIOUS
    <3>3. descarga' = [descarga EXCEPT ![d] = D]
      BY <2>1, <2>4, <3>1, <3>2
    <3>4. E \in Descargas /\ E.st = "back" /\ E.boleto = descarga[d].boleto
      BY <1>0, <1>1, <2>1, <2>4, <3>1, StageChanges
    <3>5. D \in Descargas /\ D.st = "back" /\ D.lados = l /\ D.boleto = descarga[d].boleto
      BY <3>2, <3>4, SidesChange
    <3> QED BY <3>3, <3>5 DEF Becomes
  <2>6. /\ descarga' \in Seq(Descargas) /\ Len(descarga') = Len(descarga)
        /\ NoneRefused' => NoneRefused
    BY <1>1, <2>1, <2>5, OneBecomes
  <2>7. SidesInv' /\ FilesInv'
    <3>1. Len(D.lados) = 1 /\ D.lados[1] = Picture(d)
      BY <2>4, <2>5
    <3>2. D.lados[1].boleto = descarga[d].boleto /\ (NoneRefused' => D.lados[1].styled)
      BY <2>3, <2>6, <3>1 DEF SideOf
    <3> QED BY <2>1, <2>5, <3>1, <3>2, OthersStay
  <2>8. AtWork' = AtWork
    BY <1>1, <2>1, <2>2, <2>5, AtWorkBecomes
  <2>9. PagesInv' /\ StylesInv'
    BY <1>1, <2>1, <2>6, <2>8 DEF PagesInv, StylesInv
  <2>10. PassTyped'
    BY <1>1, <2>1, <2>6 DEF PassTyped
  <2> QED BY <2>7, <2>9, <2>10 DEF DownloadInv
<1>8. ASSUME NEW d \in Downloads, BackDone(d) PROVE DownloadInv'
  <2>1. /\ d \in DOMAIN descarga /\ descarga[d].st = "back"
        /\ archivo' = [archivo EXCEPT ![d] = BothSides(d)]
        /\ styleTags' = StylesLeft /\ divs' = DivsLeft(d)
        /\ descarga' = [descarga EXCEPT ![d].st = "saved", ![d].lados = BothSides(d)]
        /\ enCurso' = (enCurso /\ ~descarga[d].mounted)
    BY <1>8, StageIs DEF BackDone, EndDownload
  <2>2. /\ BothSides(d) \in Seq(Sides) /\ BothSides(d) \in [1..2 -> Sides]
        /\ \A i \in 1..2 : SideOf(d, BothSides(d)[i])
    BY <2>1, BothSidesRight
  <2>3. PICK D : Becomes(d, D) /\ D.st = "saved"
    <3>1. PICK E : E = [descarga[d] EXCEPT !.st = "saved"]
      OBVIOUS
    <3>2. PICK D : D = [E EXCEPT !.lados = BothSides(d)]
      OBVIOUS
    <3>3. descarga' = [descarga EXCEPT ![d] = D]
      BY <2>1, <3>1, <3>2
    <3>4. E \in Descargas /\ E.st = "saved" /\ E.boleto = descarga[d].boleto
      BY <1>0, <1>1, <2>1, <2>2, <3>1, StageChanges
    <3>5. D \in Descargas /\ D.st = "saved" /\ D.lados = BothSides(d) /\ D.boleto = descarga[d].boleto
      BY <2>2, <3>2, <3>4, SidesChange
    <3> QED BY <3>3, <3>5 DEF Becomes
  <2>4. /\ descarga' \in Seq(Descargas) /\ Len(descarga') = Len(descarga)
        /\ DOMAIN descarga' = DOMAIN descarga /\ descarga'[d] = D
        /\ \A x \in DOMAIN descarga : x # d => descarga'[x] = descarga[x]
        /\ \A x \in DOMAIN descarga : descarga'[x].boleto = descarga[x].boleto
        /\ NoneRefused' => NoneRefused
    BY <1>1, <2>1, <2>3, OneBecomes
  <2>5. PagesInv' /\ StylesInv' /\ styleTags' \in Seq(Downloads) /\ divs' \in Seq(Downloads)
    BY <2>1, <2>3, EndKeeps
  <2>6. SidesInv'
    BY <2>1, <2>3, OthersStay
  <2>7. FilesInv'
    <3> SUFFICES ASSUME NEW x \in Downloads, archivo'[x] # <<>>
                 PROVE  /\ x \in DOMAIN descarga /\ descarga'[x].st = "saved"
                        /\ \A i \in 1..2 : /\ archivo'[x][i].boleto = descarga'[x].boleto
                                           /\ NoneRefused' => archivo'[x][i].styled
      BY <2>4 DEF FilesInv, SideOf
    <3>1. CASE x = d
      <4>1. archivo'[d] = BothSides(d)
        BY <1>1, <1>8, <2>1 DEF PassTyped
      <4> QED BY <2>1, <2>2, <2>3, <2>4, <3>1, <4>1 DEF SideOf
    <3>2. CASE x # d
      <4>1. archivo'[x] = archivo[x]
        BY <1>1, <2>1, <3>2 DEF PassTyped
      <4>2. x \in DOMAIN descarga /\ descarga[x].st = "saved"
            /\ \A i \in 1..2 : SideOf(x, archivo[x][i])
        BY <1>1, <4>1 DEF FilesInv
      <4> QED BY <2>4, <3>2, <4>1, <4>2 DEF SideOf
    <3> QED BY <3>1, <3>2
  <2>8. PassTyped'
    <3>1. archivo' \in [Downloads -> {<<>>} \union [1..2 -> Sides]]
      BY <1>1, <2>1, <2>2 DEF PassTyped
    <3>2. enCurso' \in BOOLEAN
      BY <2>1
    <3> QED BY <1>1, <2>4, <2>5, <3>1, <3>2 DEF PassTyped
  <2> QED BY <2>5, <2>6, <2>7, <2>8 DEF DownloadInv
<1>9. ASSUME NEW d \in Downloads, DownloadFails(d) PROVE DownloadInv'
  <2>1. PICK st \in {"nopass", "failed"}, lados \in Seq(Sides) :
          /\ d \in DOMAIN descarga
          /\ descarga[d].st \in {"pass", "images", "front", "back"}
          /\ descarga[d].st = "pass" <=> st = "nopass"
          /\ EndDownload(d, st, lados) /\ archivo' = archivo
    <3>1. CASE Stage(d) = "pass" /\ EndDownload(d, "nopass", <<>>)
      <4>1. <<>> \in Seq(Sides)
        OBVIOUS
      <4>2. d \in DOMAIN descarga /\ descarga[d].st = "pass"
        BY <3>1, StageIs
      <4> QED BY <1>9, <3>1, <4>1, <4>2 DEF DownloadFails
    <3>2. CASE Stage(d) \in {"images", "front", "back"} /\ EndDownload(d, "failed", descarga[d].lados)
      <4>1. d \in DOMAIN descarga /\ descarga[d].st \in {"images", "front", "back"}
        BY <3>2, StageIs
      <4>2. descarga[d] \in Descargas
        BY <1>1, <4>1 DEF PassTyped
      <4>3. descarga[d].lados \in Seq(Sides)
        BY <4>2, DescargaFields
      <4> QED BY <1>9, <3>2, <4>1, <4>3 DEF DownloadFails
    <3> QED BY <1>9, <3>1, <3>2 DEF DownloadFails
  <2>2. /\ st \in DownloadStages /\ styleTags' = StylesLeft /\ divs' = DivsLeft(d)
        /\ descarga' = [descarga EXCEPT ![d].st = st, ![d].lados = lados]
        /\ enCurso' = (enCurso /\ ~descarga[d].mounted)
    BY <1>0, <2>1 DEF EndDownload
  <2>3. PICK D : Becomes(d, D) /\ D.st = st
    <3>1. PICK E : E = [descarga[d] EXCEPT !.st = st]
      OBVIOUS
    <3>2. PICK D : D = [E EXCEPT !.lados = lados]
      OBVIOUS
    <3>3. descarga' = [descarga EXCEPT ![d] = D]
      BY <2>2, <3>1, <3>2
    <3>4. E \in Descargas /\ E.st = st /\ E.boleto = descarga[d].boleto
      BY <1>0, <1>1, <2>1, <2>2, <3>1, StageChanges
    <3>5. D \in Descargas /\ D.st = st /\ D.lados = lados /\ D.boleto = descarga[d].boleto
      BY <2>2, <3>2, <3>4, SidesChange
    <3> QED BY <3>3, <3>5 DEF Becomes
  <2>4. descarga' \in Seq(Descargas) /\ Len(descarga') = Len(descarga)
    BY <1>1, <2>1, <2>3, OneBecomes
  <2>5. PagesInv' /\ StylesInv' /\ styleTags' \in Seq(Downloads) /\ divs' \in Seq(Downloads)
    BY <2>1, <2>2, <2>3, EndKeeps
  <2>6. SidesInv' /\ FilesInv'
    BY <2>1, <2>3, OthersStay
  <2>7. PassTyped'
    BY <1>1, <2>1, <2>2, <2>4, <2>5 DEF PassTyped
  <2> QED BY <2>5, <2>6, <2>7 DEF DownloadInv
<1> QED BY <1>2, <1>3, <1>4, <1>5, <1>6, <1>7, <1>8, <1>9 DEF PassNext, DownloadGoesOn

(* Downloads that overlap in one document, started by the button or by a   *)
(* sale, disturb neither each other nor the page after them: nothing of    *)
(* them is left behind, a file has both sides of its own ticket, and they  *)
(* have their styles unless a pass was refused (boardingPassPdf.ts).       *)
THEOREM DownloadsStayApart == PassSpec => []DownloadsKeepApart
<1>1. PassSpec => []DownloadInv
  BY DownloadInvInit, DownloadInvStep, PTL DEF PassSpec
<1> QED BY <1>1, DownloadInvApart, PTL

(***************************************************************************)
(* All of them, each resting while a behaviour is of another (page).       *)
(***************************************************************************)
SellingInv == CreationInv /\ SaleInv /\ DeskTypeOK /\ DownloadInv /\ SearchInv

LEMMA SellingInvInit == SellingInit => SellingInv
<1> SUFFICES ASSUME SellingInit PROVE SellingInv
  OBVIOUS
<1>1. CreationInv /\ SaleInv /\ DownloadInv
  BY CreationInvInit, SaleInvInit, DownloadInvInit DEF SellingInit
<1>2. DeskInit /\ SearchInit
  BY DEF SellingInit, DeskRests, SearchRests
<1> QED BY <1>1, <1>2, DeskInitType, SearchInvInit DEF SellingInv

(* A step is one of each page's next-state relation, or leaves it alone. *)
LEMMA SellingStep ==
  ASSUME [SellingNext]_sellingVars
  PROVE  /\ [CreationNext]_creationVars /\ [SaleNext]_saleVars /\ [DeskNext]_deskVars
         /\ [PassNext]_passVars /\ [SearchNext]_searchVars
<1>1. CASE UNCHANGED sellingVars
  BY <1>1 DEF sellingVars
<1>2. CASE SellingNext
  BY <1>2 DEF SellingNext
<1> QED BY <1>1, <1>2

LEMMA SellingInvStep == SellingInv /\ [SellingNext]_sellingVars => SellingInv'
<1> SUFFICES ASSUME SellingInv, [SellingNext]_sellingVars PROVE SellingInv'
  OBVIOUS
<1>1. /\ [CreationNext]_creationVars /\ [SaleNext]_saleVars /\ [DeskNext]_deskVars
      /\ [PassNext]_passVars /\ [SearchNext]_searchVars
  BY SellingStep
<1>2. CreationInv' /\ SaleInv'
  BY <1>1, CreationInvStep, SaleInvStep DEF SellingInv
<1>3. DeskTypeOK' /\ DownloadInv' /\ SearchInv'
  BY <1>1, DeskNextType, DownloadInvStep, SearchInvStep DEF SellingInv
<1> QED BY <1>2, <1>3 DEF SellingInv

(* The types of the pages that sell and send, whatever the numbers of      *)
(* flights, seats, tickets, downloads and searches.                        *)
THEOREM SellingTypes == SellingSpec => []TypesOK
<1>1. SellingInv => TypesOK
  <2> SUFFICES ASSUME SellingInv PROVE TypesOK
    OBVIOUS
  <2>1. CreationTypeOK
    BY CreationInvTypes DEF SellingInv
  <2>2. SaleTypeOK
    BY DEF SellingInv, SaleInv
  <2>3. DeskTypeOK
    BY DEF SellingInv
  <2>4. PassTypeOK
    BY PassTypes DEF SellingInv
  <2>5. SearchTypeOK
    BY DEF SellingInv, SearchInv
  <2> QED BY <2>1, <2>2, <2>3, <2>4, <2>5 DEF TypesOK
<1>2. SellingSpec => []SellingInv
  BY SellingInvInit, SellingInvStep, PTL DEF SellingSpec
<1> QED BY <1>1, <1>2, PTL

=============================================================================
