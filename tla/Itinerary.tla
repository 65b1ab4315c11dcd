------------------------------ MODULE Itinerary ------------------------------
(***************************************************************************)
(* The best way through several cities: CalculateTSPFromMatrices of        *)
(* tsp_service.go, the dynamic programme of Held and Karp.                 *)
(*                                                                         *)
(* A set of cities is the code's bit mask.  The table is filled in the     *)
(* order of the masks, each from smaller ones, so that it is a recursive   *)
(* function of the set; of equally good predecessors the code keeps the    *)
(* first, the least.                                                       *)
(*                                                                         *)
(* A definition whose name has a suffix (Starts_anywhere) is a plausible   *)
(* mistake in the one it precedes; no other definition uses it.            *)
(***************************************************************************)
EXTENDS Naturals, Sequences, SequencesExt, FiniteSetsExt

CONSTANTS
  Networks,    \* what the matrices may say: fares and times by directed arc
  Requests,    \* the lists of cities that may be asked for
  MaxCities,   \* the longest request that is taken, 15 in the code
  Goals,       \* "COST" and "TIME"
  NoWay        \* math.Inf(1): more than any route costs

ASSUME ItineraryAssumption ==
  /\ MaxCities \in Nat /\ NoWay \in Nat
  /\ \A r \in Requests : Len(r) \in Nat /\ r \in [1 .. Len(r) -> ToSet(r)]
  /\ \A net \in Networks, r \in Requests : \A p, q \in DOMAIN r :
       r[p] # r[q] =>
         /\ net[<<r[p], r[q]>>] \in Nat \X Nat
         /\ \A w \in 1 .. 2 : MaxCities * net[<<r[p], r[q]>>][w] < NoWay

NoRoute  == <<>>

VARIABLES
  arcs,              \* the fare and the time of each directed arc, 0 if it has none
  ciudades,         \* the cities asked for
  criterion,
  returnToOrigin,   \* whether the route comes back to the first city
  answered,
  route             \* the answer

asked == <<arcs, ciudades, criterion, returnToOrigin>>
tourVars  == <<asked, answered, route>>
-----------------------------------------------------------------------------
(* A city is asked for once, and at least two are. *)
Valid == /\ Len(ciudades) >= 2
         /\ Len(ciudades) <= MaxCities
         /\ IsInjective(ciudades)

(* An arc without fare or time is absent, whatever the criterion.          *)
Offered(from, to) == arcs[<<from, to>>][1] > 0 /\ arcs[<<from, to>>][2] > 0

(* weight, between two places of the list of cities. *)
Value(from, to)  == IF criterion = "TIME" THEN arcs[<<from, to>>][2] ELSE arcs[<<from, to>>][1]
Leg(p, q)     == IF Offered(ciudades[p], ciudades[q]) THEN Value(ciudades[p], ciudades[q]) ELSE NoWay

Capped(cost) == IF cost > NoWay THEN NoWay ELSE cost

Places == DOMAIN ciudades

(* Where a route may start: at the first city if it has to come back. *)
Starts_anywhere == Places
Starts == IF returnToOrigin THEN {1} ELSE Places

(* dp and prev of a mask: the cost of a best way that visits its places   *)
(* and is at last in the end, and the place before it there, 0 if none;    *)
(* row is what they are of the mask without the last place.                *)
Entry(mask, last, row) ==
  LET rest    == mask \ {last}
      cost(p) == Capped(row[p].cost + Leg(p, last))
      least   == Min({cost(p) : p \in rest})
  IN  IF last \notin mask \/ (rest = {} /\ last \notin Starts)
        THEN [cost |-> NoWay, before |-> 0]
      ELSE IF rest = {} THEN [cost |-> 0, before |-> 0]
      ELSE [cost   |-> least,
            before |-> IF least = NoWay THEN 0 ELSE Min({p \in rest : cost(p) = least})]

BestWays ==
  LET way[mask \in SUBSET Places] == [last \in Places |-> Entry(mask, last, way[mask \ {last}])]
  IN  way

(* The way back to the first city, if it is wanted. *)
Closing(last) ==
  IF ~returnToOrigin THEN 0 ELSE IF last = 1 THEN NoWay ELSE Leg(last, 1)

(* The places of a way from its end back, each with the mask it ends.      *)
WayBack(way, end) ==
  LET back[m \in 1 .. Len(ciudades)] ==
        LET at == back[m - 1]
        IN  IF m = 1 THEN [mask |-> Places, last |-> end]
            ELSE [mask |-> at.mask \ {at.last}, last |-> way[at.mask][at.last].before]
  IN  back

CalculateTSP ==
  LET way      == BestWays
      total(l) == Capped(way[Places][l].cost + Closing(l))
      best     == Min({total(l) : l \in Places})
      back     == WayBack(way, Min({l \in Places : total(l) = best}))
      indices  == [x \in Places |-> back[Len(ciudades) + 1 - x].last]
      places   == IF returnToOrigin THEN Append(indices, indices[1]) ELSE indices
  IN  IF best = NoWay THEN NoRoute ELSE [x \in DOMAIN places |-> ciudades[places[x]]]

TourInit ==
  /\ arcs \in Networks
  /\ ciudades \in Requests
  /\ criterion \in Goals
  /\ returnToOrigin \in BOOLEAN
  /\ answered = FALSE
  /\ route = NoRoute

(* GetTSPRoute: the endpoint checks the request and answers it. *)
GetTSPRoute ==
  /\ ~answered
  /\ answered' = TRUE
  /\ route' = IF Valid THEN CalculateTSP ELSE NoRoute
  /\ UNCHANGED asked

TourNext == GetTSPRoute

TourSpec == TourInit /\ [][TourNext]_tourVars
-----------------------------------------------------------------------------
(* The reference: every order of the cities over arcs that are sold.       *)
Legs(r)  == {<<r[x], r[x + 1]>> : x \in 1 .. Len(r) - 1}
Sums(r)  == LET sum[x \in DOMAIN r] == IF x = 1 THEN 0 ELSE sum[x - 1] + Value(r[x - 1], r[x])
            IN  sum
Total(r) == Sums(r)[Len(r)]

Tours ==
  LET n      == Len(ciudades)
      orders == {r \in [1 .. n -> ToSet(ciudades)] :
                   IsInjective(r) /\ (returnToOrigin => r[1] = ciudades[1])}
      whole  == {IF returnToOrigin THEN Append(r, r[1]) ELSE r : r \in orders}
  IN  {r \in whole : \A leg \in Legs(r) : arcs[leg][1] > 0 /\ arcs[leg][2] > 0}

(* A valid request is answered with a route that visits every city asked   *)
(* for once, over arcs that have both a fare and a time even when only the *)
(* time counts, comes back if that was wanted, and is the best such route; *)
(* it is refused only when there is none (CalculateTSPFromMatrices).       *)
AnswersABestTour ==
  answered /\ Valid =>
    \/ route = NoRoute /\ Tours = {}
    \/ route \in Tours /\ \A r \in Tours : Total(route) <= Total(r)
=============================================================================
