----------------------------- MODULE Occupancy -----------------------------
(***************************************************************************)
(* How full a flight is made: OccupancyTargets and BuildFlightManifest of  *)
(* occupancy_service.go, in the life of one flight whose tickets come and  *)
(* go and whose manifest is built again for every new matrix.  Everything  *)
(* here is one transaction after the other; SeatBooking has their steps.   *)
(*                                                                         *)
(* A definition whose name has a suffix (SoldNeeded_all) is a plausible    *)
(* mistake in the one it precedes; no other definition uses it.            *)
(***************************************************************************)
EXTENDS Integers, FiniteSets

CONSTANTS
  Seats,          \* the seats of the plane
  SoldShare,      \* the per cent of the seats that are sold, 73 in the code
  ReservedShare,  \* and that are reserved, 3
  Arrange(_)      \* Arrange(S): the seats of S in the order of the shuffle
                  \* that the flight's identifier seeds, a sequence

ASSUME SeatsAssumption == IsFiniteSet(Seats)

ASSUME SharesAssumption ==
  /\ SoldShare \in 0 .. 100
  /\ ReservedShare \in 0 .. 100

ASSUME ArrangeAssumption ==
  \A S \in SUBSET Seats :
    /\ Arrange(S) \in [1 .. Cardinality(S) -> S]
    /\ \A i, j \in 1 .. Cardinality(S) : Arrange(S)[i] = Arrange(S)[j] => i = j

VARIABLES
  eligible,   \* the seats whose class has a fare in the current matrix
  ticket,     \* the state of the active ticket of each seat, "NONE" if it has none
  manifest    \* the seats the manifest sells and reserves

vars == <<eligible, ticket, manifest>>
-----------------------------------------------------------------------------
(* OccupancyTargets: the nearest whole numbers of seats. *)
Share(percent, n) == (percent * n + 50) \div 100

SoldTarget(n)     == Share(SoldShare, n)
ReservedTarget(n) ==
  IF SoldTarget(n) + Share(ReservedShare, n) > n THEN n - SoldTarget(n) ELSE Share(ReservedShare, n)

Positive(n)  == IF n < 0 THEN 0 ELSE n
AtMost(m, n) == IF n > m THEN m ELSE n

(* The seats of e that no active ticket of t occupies. *)
Available_sold(e, t) == {s \in e : t[s] # "SALED"}
Available(e, t) == {s \in e : t[s] = "NONE"}

TicketsIn(t, states) == {s \in Seats : t[s] \in states}

SoldNeeded_all(e, t) == AtMost(Cardinality(Available(e, t)), SoldTarget(Cardinality(e)))
SoldNeeded(e, t) ==
  AtMost(Cardinality(Available(e, t)),
         Positive(SoldTarget(Cardinality(e)) - Cardinality(TicketsIn(t, {"SALED"}))))

ReservedNeeded(e, t) ==
  AtMost(Cardinality(Available(e, t)) - SoldNeeded(e, t),
         Positive(ReservedTarget(Cardinality(e))
                    - Cardinality(TicketsIn(t, {"RESERVED", "REFUNDED"}))))

(* BuildFlightManifest: the first of the shuffled seats are sold, the next *)
(* ones reserved.                                                          *)
BuildFlightManifest(e, t) ==
  LET order == Arrange(Available(e, t))
      sold  == SoldNeeded(e, t)
  IN  [sold     |-> {order[i] : i \in 1 .. sold},
       reserved |-> {order[i] : i \in sold + 1 .. sold + ReservedNeeded(e, t)}]

InManifest == manifest.sold \union manifest.reserved

Init ==
  /\ eligible \in SUBSET Seats
  /\ ticket = [s \in Seats |-> "NONE"]
  /\ manifest = BuildFlightManifest(eligible, ticket)

(* A purchase or a reservation (ReservarAsiento). *)
Book(s, estado) ==
  /\ s \in eligible \ InManifest
  /\ ticket[s] = "NONE"
  /\ ticket' = [ticket EXCEPT ![s] = estado]
  /\ UNCHANGED <<eligible, manifest>>

(* A payment, a cancellation, the end of a refund. *)
Change(s, from, to) ==
  /\ ticket[s] = from
  /\ ticket' = [ticket EXCEPT ![s] = to]
  /\ UNCHANGED <<eligible, manifest>>

Pay(s) == Change(s, "RESERVED", "SALED")
Cancel(s) == Change(s, "RESERVED", "REFUNDED") \/ Change(s, "SALED", "REFUNDED")
Release(s) == Change(s, "REFUNDED", "NONE")

(* EnsureFlightOccupancy under another matrix. *)
NewMatrix(e) ==
  /\ eligible' = e
  /\ manifest' = BuildFlightManifest(e, ticket)
  /\ UNCHANGED ticket

Next ==
  \/ \E s \in Seats :
       \/ \E estado \in {"RESERVED", "SALED"} : Book(s, estado)
       \/ Pay(s) \/ Cancel(s) \/ Release(s)
  \/ \E e \in SUBSET Seats : NewMatrix(e)

Spec == Init /\ [][Next]_vars
-----------------------------------------------------------------------------
(* The types of the variables. *)
TypeOK ==
  /\ eligible \in SUBSET Seats
  /\ ticket \in [Seats -> {"NONE", "RESERVED", "SALED", "REFUNDED"}]
  /\ manifest \in [sold : SUBSET Seats, reserved : SUBSET Seats]

(* The manifest's seats are eligible ones that nobody has a ticket for,    *)
(* and none is both sold and reserved: no manifest ever takes the seat of  *)
(* a purchase, whatever was bought, paid, refunded or repriced before.     *)
ManifestTakesFreeSeats ==
  /\ manifest.sold \intersect manifest.reserved = {}
  /\ InManifest \subseteq eligible
  /\ \A s \in InManifest : ticket[s] = "NONE"

Sold == manifest.sold \union TicketsIn(ticket, {"SALED"})
Held == manifest.reserved \union TicketsIn(ticket, {"RESERVED", "REFUNDED"})

(* A flight that gets a manifest has its share of the eligible seats sold  *)
(* and its share reserved, counting the tickets it already has: more only  *)
(* if its tickets alone are more, fewer only if no seat is left            *)
(* (OccupancyTargets, BuildFlightManifest).                                *)
TargetsAreMet ==
  LET n        == Cardinality(eligible')
      sold     == Cardinality(Sold')
      held     == Cardinality(Held')
      seatLeft == Available(eligible', ticket') # InManifest'
  IN  /\ sold > SoldTarget(n)     => manifest'.sold = {}
      /\ held > ReservedTarget(n) => manifest'.reserved = {}
      /\ seatLeft => sold >= SoldTarget(n) /\ held >= ReservedTarget(n)

ManifestsMeetTheTargets == [][UNCHANGED ticket => TargetsAreMet]_vars
=============================================================================
