------------------------- MODULE DomainRulesProofs -------------------------
(***************************************************************************)
(* What the manifests of a flight promise, for planes of every size, the   *)
(* itineraries, for every list of cities, and the suggestions between two  *)
(* airports, for any number of routes: both for all matrices.              *)
(***************************************************************************)
EXTENDS Occupancy, RouteSuggestions, Itinerary, FiniteSetTheorems, FunctionTheorems,
        WellFoundedInduction, TLAPS

States == {"NONE", "RESERVED", "SALED", "REFUNDED"}

(* With the shares of the code both targets together fit every number of   *)
(* eligible seats, so that the cap of OccupancyTargets never bites, and    *)
(* each is the whole number nearest to its share.                          *)
THEOREM TargetsFit ==
  ASSUME NEW n \in Nat, SoldShare = 73, ReservedShare = 3
  PROVE  /\ SoldTarget(n) + Share(ReservedShare, n) <= n
         /\ ReservedTarget(n) = Share(ReservedShare, n)
         /\ 100 * SoldTarget(n) - 73 * n \in -49 .. 50
         /\ 100 * ReservedTarget(n) - 3 * n \in -49 .. 50
<1> DEFINE a == SoldTarget(n)
           b == Share(ReservedShare, n)
<1>1. a \in Int /\ 100 * a <= 73 * n + 50 /\ 73 * n + 50 < 100 * a + 100
  BY Z3 DEF SoldTarget, Share
<1>2. b \in Int /\ 100 * b <= 3 * n + 50 /\ 3 * n + 50 < 100 * b + 100
  BY Z3 DEF Share
<1>3. a + b <= n
  <2>1. CASE n >= 5
    BY <1>1, <1>2, <2>1
  <2>2. CASE n < 5
    <3>1. n \in {0, 1, 2, 3, 4}
      BY <2>2
    <3> QED BY <1>1, <1>2, <3>1
  <2> QED BY <2>1, <2>2
<1>4. ReservedTarget(n) = b
  BY <1>1, <1>2, <1>3 DEF ReservedTarget
<1>5. 100 * a - 73 * n \in -49 .. 50
  <2>1. 100 * a - 73 * n <= 50 /\ 100 * a - 73 * n >= -49
    BY <1>1
  <2> HIDE DEF a
  <2> QED BY <1>1, <2>1
<1>6. 100 * b - 3 * n \in -49 .. 50
  <2>1. 100 * b - 3 * n <= 50 /\ 100 * b - 3 * n >= -49
    BY <1>2
  <2> HIDE DEF b
  <2> QED BY <1>2, <2>1
<1> QED BY <1>3, <1>4, <1>5, <1>6

LEMMA AvailableFinite ==
  ASSUME NEW e \in SUBSET Seats, NEW t
  PROVE  /\ Available(e, t) \in SUBSET Seats
         /\ Cardinality(Available(e, t)) \in Nat
<1>1. Available(e, t) \subseteq Seats
  BY DEF Available
<1> QED BY <1>1, SeatsAssumption, FS_Subset, FS_CardinalityType

LEMMA CountsType ==
  ASSUME NEW e \in SUBSET Seats, NEW t
  PROVE  /\ SoldNeeded(e, t) \in Nat
         /\ ReservedNeeded(e, t) \in Nat
         /\ SoldNeeded(e, t) + ReservedNeeded(e, t) <= Cardinality(Available(e, t))
<1> DEFINE n == Cardinality(Available(e, t))
<1>1. n \in Nat
  BY AvailableFinite
<1>2. Cardinality(e) \in Nat
  BY SeatsAssumption, FS_Subset, FS_CardinalityType
<1>3. \A S : Cardinality(TicketsIn(t, S)) \in Nat
  <2>1. \A S : TicketsIn(t, S) \in SUBSET Seats
    BY DEF TicketsIn
  <2> QED BY <2>1, SeatsAssumption, FS_Subset, FS_CardinalityType
<1>4. SoldTarget(Cardinality(e)) \in Int /\ Share(ReservedShare, Cardinality(e)) \in Int
  BY <1>2, SharesAssumption DEF SoldTarget, Share
<1>5. ReservedTarget(Cardinality(e)) \in Int
  BY <1>2, <1>4 DEF ReservedTarget
<1>6. SoldNeeded(e, t) \in 0 .. n
  BY <1>1, <1>3, <1>4 DEF SoldNeeded, AtMost, Positive
<1>7. ReservedNeeded(e, t) \in 0 .. n - SoldNeeded(e, t)
  BY <1>1, <1>3, <1>5, <1>6 DEF ReservedNeeded, AtMost, Positive
<1> QED BY <1>1, <1>6, <1>7

(* BuildFlightManifest fills eligible seats without a ticket, each once:   *)
(* what SeatBooking assumes of it (ManifestAssumption).                    *)
THEOREM ManifestIsFree ==
  ASSUME NEW e \in SUBSET Seats, NEW t
  PROVE  LET m == BuildFlightManifest(e, t)
         IN  /\ m.sold \in SUBSET Available(e, t)
             /\ m.reserved \in SUBSET Available(e, t)
             /\ m.sold \intersect m.reserved = {}
<1> DEFINE S == Available(e, t)
           n == Cardinality(S)
           order == Arrange(S)
           p == SoldNeeded(e, t)
           q == ReservedNeeded(e, t)
           m == BuildFlightManifest(e, t)
<1>1. S \in SUBSET Seats /\ n \in Nat
  BY AvailableFinite
<1>2. p \in Nat /\ q \in Nat /\ p + q <= n
  BY CountsType
<1>3. order \in [1 .. n -> S]
  BY <1>1, ArrangeAssumption
<1>4. \A h, j \in 1 .. n : order[h] = order[j] => h = j
  BY <1>1, ArrangeAssumption
<1> HIDE DEF S, n, order, p, q
<1>5. 1 .. p \subseteq 1 .. n /\ p + 1 .. p + q \subseteq 1 .. n
  BY <1>1, <1>2
<1>6. m.sold = {order[h] : h \in 1 .. p} /\ m.reserved = {order[h] : h \in p + 1 .. p + q}
  BY DEF BuildFlightManifest, S, order, p, q
<1>7. m.sold \in SUBSET S /\ m.reserved \in SUBSET S
  BY <1>3, <1>5, <1>6
<1>8. ASSUME NEW h \in 1 .. p, NEW j \in p + 1 .. p + q, order[h] = order[j]
      PROVE  FALSE
  <2>1. h = j
    BY <1>4, <1>5, <1>8
  <2> QED BY <1>2, <2>1
<1>9. m.sold \intersect m.reserved = {}
  BY <1>6, <1>8
<1> QED BY <1>7, <1>9 DEF S

LEMMA ManifestType ==
  ASSUME NEW e \in SUBSET Seats, NEW t
  PROVE  BuildFlightManifest(e, t) \in [sold : SUBSET Seats, reserved : SUBSET Seats]
<1> DEFINE m == BuildFlightManifest(e, t)
<1>1. m.sold \in SUBSET Seats /\ m.reserved \in SUBSET Seats
  BY ManifestIsFree, AvailableFinite
<1>2. \E a, b : m = [sold |-> a, reserved |-> b]
  BY DEF BuildFlightManifest
<1> HIDE DEF m
<1>3. m \in [sold : SUBSET Seats, reserved : SUBSET Seats]
  BY <1>1, <1>2
<1> QED BY <1>3 DEF m
-----------------------------------------------------------------------------
Inv == TypeOK /\ ManifestTakesFreeSeats

LEMMA InitInv == Init => Inv
<1> SUFFICES ASSUME Init PROVE Inv
  OBVIOUS
<1>1. TypeOK
  BY ManifestType DEF Init, TypeOK
<1>2. Available(eligible, ticket) \subseteq eligible
      /\ \A s \in Available(eligible, ticket) : ticket[s] = "NONE"
  BY DEF Available
<1>3. ManifestTakesFreeSeats
  BY <1>1, <1>2, ManifestIsFree DEF Init, TypeOK, ManifestTakesFreeSeats, InManifest
<1> QED BY <1>1, <1>3 DEF Inv

LEMMA StepInv == Inv /\ [Next]_vars => Inv'
<1> SUFFICES ASSUME Inv, [Next]_vars PROVE Inv'
  OBVIOUS
<1> USE DEF Inv
<1>1. ASSUME NEW s \in Seats, NEW estado \in {"RESERVED", "SALED"}, Book(s, estado)
      PROVE  Inv'
  BY <1>1 DEF Book, TypeOK, ManifestTakesFreeSeats, InManifest
<1>2. ASSUME NEW s \in Seats, NEW from \in States \ {"NONE"}, NEW to \in States, Change(s, from, to)
      PROVE  Inv'
  BY <1>2 DEF States, Change, TypeOK, ManifestTakesFreeSeats, InManifest
<1>3. ASSUME NEW s \in Seats, Pay(s) \/ Cancel(s) \/ Release(s)
      PROVE  Inv'
  BY <1>2, <1>3 DEF Pay, Cancel, Release, States
<1>4. ASSUME NEW e \in SUBSET Seats, NewMatrix(e)
      PROVE  Inv'
  <2>1. eligible' = e /\ ticket' = ticket /\ manifest' = BuildFlightManifest(e, ticket)
    BY <1>4 DEF NewMatrix
  <2>2. TypeOK'
    BY <2>1, ManifestType DEF TypeOK
  <2>3. Available(e, ticket) \subseteq e
        /\ \A s \in Available(e, ticket) : ticket[s] = "NONE"
    BY DEF Available
  <2>4. ManifestTakesFreeSeats'
    BY <2>1, <2>3, ManifestIsFree DEF ManifestTakesFreeSeats, InManifest
  <2> QED BY <2>2, <2>4
<1>5. CASE UNCHANGED vars
  BY <1>5 DEF vars, TypeOK, ManifestTakesFreeSeats, InManifest
<1> QED BY <1>1, <1>3, <1>4, <1>5 DEF Next

(* No manifest ever takes a seat of a ticket, whatever the tickets did     *)
(* between one manifest and the next.                                      *)
THEOREM ManifestsLeaveTicketsAlone == Spec => []ManifestTakesFreeSeats
<1>1. Inv => ManifestTakesFreeSeats
  BY DEF Inv
<1> QED BY InitInv, StepInv, <1>1, PTL DEF Spec
-----------------------------------------------------------------------------
LEMMA TicketsFinite ==
  ASSUME NEW t, NEW S
  PROVE  IsFiniteSet(TicketsIn(t, S)) /\ Cardinality(TicketsIn(t, S)) \in Nat
<1>1. TicketsIn(t, S) \in SUBSET Seats
  BY DEF TicketsIn
<1> QED BY <1>1, SeatsAssumption, FS_Subset, FS_CardinalityType

LEMMA DisjointUnionSize ==
  ASSUME NEW S, NEW T, IsFiniteSet(S), IsFiniteSet(T), S \intersect T = {}
  PROVE  Cardinality(S \union T) = Cardinality(S) + Cardinality(T)
<1>1. Cardinality(S \union T) = Cardinality(S) + Cardinality(T) - Cardinality(S \intersect T)
  BY FS_Union
<1>2. Cardinality(S \intersect T) = 0
  BY FS_EmptySet
<1>3. Cardinality(S) \in Nat /\ Cardinality(T) \in Nat
  BY FS_CardinalityType
<1> QED BY <1>1, <1>2, <1>3

(* As many seats are taken from a sequence without repetitions as places.  *)
Stretch(order, a, b) == {order[x] : x \in a .. b}

LEMMA StretchSize ==
  ASSUME NEW n \in Nat, NEW S, NEW order \in [1 .. n -> S],
         \A h, j \in 1 .. n : order[h] = order[j] => h = j
  PROVE  \A a \in 1 .. n + 1, b \in 0 .. n :
           a <= b + 1 => /\ IsFiniteSet(Stretch(order, a, b))
                         /\ Cardinality(Stretch(order, a, b)) = b - a + 1
<1> SUFFICES ASSUME NEW a \in 1 .. n + 1, NEW b \in 0 .. n, a <= b + 1
             PROVE  /\ IsFiniteSet(Stretch(order, a, b))
                    /\ Cardinality(Stretch(order, a, b)) = b - a + 1
  OBVIOUS
<1> DEFINE T == {order[h] : h \in a .. b}
           f == [h \in a .. b |-> order[h]]
<1>1. a .. b \subseteq 1 .. n
  OBVIOUS
<1>2. f \in Bijection(a .. b, T)
  <2>1. f \in [a .. b -> T]
    OBVIOUS
  <2>2. \A h, j \in a .. b : f[h] = f[j] => h = j
    BY <1>1
  <2>3. \A x \in T : \E h \in a .. b : f[h] = x
    OBVIOUS
  <2> QED BY <2>1, <2>2, <2>3, Fun_IsBij
<1>3. ExistsBijection(a .. b, T)
  BY <1>2, Fun_ExistsBij
<1>4. IsFiniteSet(a .. b) /\ Cardinality(a .. b) = b - a + 1
  <2>1. a \in Int /\ b \in Int /\ (a > b => b - a + 1 = 0)
    OBVIOUS
  <2>2. IsFiniteSet(a .. b) /\ Cardinality(a .. b) = IF a > b THEN 0 ELSE b - a + 1
    BY <2>1, FS_Interval
  <2> QED BY <2>1, <2>2
<1> QED BY <1>3, <1>4, FS_Bijection DEF Stretch

(* A manifest has as many seats as it needs, and all there are only if it  *)
(* needs as many.                                                          *)
LEMMA ManifestSize ==
  ASSUME NEW e \in SUBSET Seats, NEW t
  PROVE  LET m == BuildFlightManifest(e, t)
             S == Available(e, t)
         IN  /\ IsFiniteSet(m.sold) /\ Cardinality(m.sold) = SoldNeeded(e, t)
             /\ IsFiniteSet(m.reserved) /\ Cardinality(m.reserved) = ReservedNeeded(e, t)
             /\ Cardinality(S) = SoldNeeded(e, t) + ReservedNeeded(e, t)
                  => S = m.sold \union m.reserved
<1> DEFINE S == Available(e, t)
           n == Cardinality(S)
           order == Arrange(S)
           p == SoldNeeded(e, t)
           q == ReservedNeeded(e, t)
           m == BuildFlightManifest(e, t)
<1>1. S \in SUBSET Seats /\ n \in Nat /\ IsFiniteSet(S)
  BY AvailableFinite, SeatsAssumption, FS_Subset
<1>2. p \in Nat /\ q \in Nat /\ p + q <= n
  BY CountsType
<1>3. order \in [1 .. n -> S] /\ \A h, j \in 1 .. n : order[h] = order[j] => h = j
  BY <1>1, ArrangeAssumption
<1>4. m.sold = Stretch(order, 1, p) /\ m.reserved = Stretch(order, p + 1, p + q)
  BY DEF BuildFlightManifest, Stretch
<1>5. m.sold \subseteq S /\ m.reserved \subseteq S /\ m.sold \intersect m.reserved = {}
  BY ManifestIsFree
<1> HIDE DEF S, n, order, p, q, m
<1>5a. \A a \in 1 .. n + 1, b \in 0 .. n :
        a <= b + 1 => /\ IsFiniteSet(Stretch(order, a, b))
                      /\ Cardinality(Stretch(order, a, b)) = b - a + 1
  BY <1>1, <1>3, StretchSize
<1>6. IsFiniteSet(m.sold) /\ Cardinality(m.sold) = p
  <2>1. 1 \in 1 .. n + 1 /\ p \in 0 .. n /\ 1 <= p + 1 /\ p - 1 + 1 = p
    BY <1>1, <1>2
  <2>2. IsFiniteSet(Stretch(order, 1, p)) /\ Cardinality(Stretch(order, 1, p)) = p - 1 + 1
    BY <2>1, <1>5a
  <2> QED BY <2>1, <2>2, <1>4
<1>7. IsFiniteSet(m.reserved) /\ Cardinality(m.reserved) = q
  <2> DEFINE a == p + 1
             b == p + q
  <2>1. a \in 1 .. n + 1 /\ b \in 0 .. n /\ a <= b + 1 /\ b - a + 1 = q
    BY <1>1, <1>2
  <2>2. m.reserved = Stretch(order, a, b)
    BY <1>4
  <2> HIDE DEF a, b
  <2> QED BY <2>1, <2>2, <1>5a
<1>8. Cardinality(m.sold \union m.reserved) = p + q
  BY <1>2, <1>5, <1>6, <1>7, DisjointUnionSize
<1>9. n = p + q => S = m.sold \union m.reserved
  BY <1>1, <1>5, <1>8, FS_Subset DEF n
<1> QED BY <1>6, <1>7, <1>9 DEF S, n, p, q, m

LEMMA NewMatrixMeetsTheTargets ==
  ASSUME TypeOK, NEW e \in SUBSET Seats, NewMatrix(e)
  PROVE  TargetsAreMet
<1> DEFINE m  == BuildFlightManifest(e, ticket)
           S  == Available(e, ticket)
           k  == Cardinality(S)
           p  == SoldNeeded(e, ticket)
           q  == ReservedNeeded(e, ticket)
           c  == Cardinality(e)
           TS == TicketsIn(ticket, {"SALED"})
           TH == TicketsIn(ticket, {"RESERVED", "REFUNDED"})
<1>1. eligible' = e /\ ticket' = ticket /\ manifest' = m
  BY DEF NewMatrix
<1>2. k \in Nat /\ c \in Nat
  BY AvailableFinite, SeatsAssumption, FS_Subset, FS_CardinalityType
<1>3. SoldTarget(c) \in Int /\ ReservedTarget(c) \in Int
  <2>1. SoldTarget(c) \in Int /\ Share(ReservedShare, c) \in Int
    BY <1>2, SharesAssumption DEF SoldTarget, Share
  <2> QED BY <1>2, <2>1 DEF ReservedTarget
<1>4. IsFiniteSet(TS) /\ IsFiniteSet(TH) /\ Cardinality(TS) \in Nat /\ Cardinality(TH) \in Nat
  BY TicketsFinite
<1>5. /\ p = AtMost(k, Positive(SoldTarget(c) - Cardinality(TS)))
      /\ q = AtMost(k - p, Positive(ReservedTarget(c) - Cardinality(TH)))
  BY DEF SoldNeeded, ReservedNeeded
<1>6. /\ IsFiniteSet(m.sold) /\ Cardinality(m.sold) = p
      /\ IsFiniteSet(m.reserved) /\ Cardinality(m.reserved) = q
      /\ k = p + q => S = m.sold \union m.reserved
  BY ManifestSize
<1>7. p \in Nat /\ q \in Nat
  BY CountsType
<1>8. m.sold \intersect TS = {} /\ m.reserved \intersect TH = {}
  <2>1. m.sold \subseteq S /\ m.reserved \subseteq S
    BY ManifestIsFree
  <2> QED BY <2>1 DEF Available, TicketsIn
<1>9. Sold' = m.sold \union TS /\ Held' = m.reserved \union TH
  BY <1>1 DEF Sold, Held, TicketsIn
<1> HIDE DEF m, S, k, p, q, c, TS, TH
<1>10. Cardinality(Sold') = p + Cardinality(TS)
  BY <1>4, <1>6, <1>7, <1>8, <1>9, DisjointUnionSize
<1>11. Cardinality(Held') = q + Cardinality(TH)
  BY <1>4, <1>6, <1>7, <1>8, <1>9, DisjointUnionSize
<1>12. /\ p + Cardinality(TS) > SoldTarget(c) => p = 0
       /\ q + Cardinality(TH) > ReservedTarget(c) => q = 0
       /\ k # p + q => /\ p + Cardinality(TS) >= SoldTarget(c)
                       /\ q + Cardinality(TH) >= ReservedTarget(c)
  <2> DEFINE st == SoldTarget(c)
             rt == ReservedTarget(c)
             ts == Cardinality(TS)
             th == Cardinality(TH)
  <2>1. k \in Nat /\ st \in Int /\ rt \in Int /\ ts \in Nat /\ th \in Nat
    BY <1>2, <1>3, <1>4
  <2>2. p = AtMost(k, Positive(st - ts)) /\ q = AtMost(k - p, Positive(rt - th))
    BY <1>5
  <2> HIDE DEF st, rt, ts, th
  <2>3. /\ p + ts > st => p = 0
        /\ q + th > rt => q = 0
        /\ k # p + q => p + ts >= st /\ q + th >= rt
    BY <2>1, <2>2 DEF AtMost, Positive
  <2> QED BY <2>3 DEF st, rt, ts, th
<1>13. (p = 0 => m.sold = {}) /\ (q = 0 => m.reserved = {})
  BY <1>6, FS_EmptySet
<1>14. InManifest' = m.sold \union m.reserved /\ Available(eligible', ticket') = S
  BY <1>1 DEF InManifest, S
<1>15. Cardinality(eligible') = c
  BY <1>1 DEF c
<1>16. manifest' = m
  BY <1>1
<1> QED BY <1>6, <1>10, <1>11, <1>12, <1>13, <1>14, <1>15, <1>16 DEF TargetsAreMet

(* A flight that gets a manifest has the shares of its seats that the code *)
(* wants, as nearly as its tickets allow, for planes of every size, every  *)
(* shuffle and all shares (OccupancyTargets, BuildFlightManifest).         *)
THEOREM TargetsAreAlwaysMet == Spec => ManifestsMeetTheTargets
<1>1. ASSUME Inv, [Next]_vars
      PROVE  [UNCHANGED ticket => TargetsAreMet]_vars
  <2> SUFFICES ASSUME Next, UNCHANGED ticket
               PROVE  TargetsAreMet
    BY <1>1
  <2> USE <1>1 DEF Inv
  <2>1. ASSUME NEW s \in Seats, NEW estado \in {"RESERVED", "SALED"}, Book(s, estado)
        PROVE  FALSE
    BY <2>1 DEF Book, TypeOK
  <2>2. ASSUME NEW s \in Seats, Pay(s) \/ Cancel(s) \/ Release(s)
        PROVE  FALSE
    BY <2>2 DEF Pay, Cancel, Release, Change, TypeOK
  <2>3. ASSUME NEW e \in SUBSET Seats, NewMatrix(e)
        PROVE  TargetsAreMet
    BY <2>3, NewMatrixMeetsTheTargets
  <2> QED BY <2>1, <2>2, <2>3 DEF Next
<1> QED BY InitInv, StepInv, <1>1, PTL DEF Spec, ManifestsMeetTheTargets
-----------------------------------------------------------------------------
(* Numbers and sums. *)

(* A set of numbers that has 0 and the successor of each has them all.     *)
LEMMA SetInduction ==
  ASSUME NEW T \in SUBSET Nat, 0 \in T, \A k \in T : k + 1 \in T
  PROVE  T = Nat
<1> DEFINE C == Nat \ T
           R == OpToRel(<, Nat)
<1> SUFFICES ASSUME C # {} PROVE FALSE
  OBVIOUS
<1>1. PICK x \in C : \A y \in C : ~ (<<y, x>> \in R)
  <2>1. IsWellFoundedOn(R, Nat)
    BY NatLessThanWellFounded
  <2>2. C \subseteq Nat
    OBVIOUS
  <2> HIDE DEF C, R
  <2> QED BY <2>1, <2>2, WFMin
<1>2. x # 0 /\ x - 1 \in Nat /\ x - 1 < x
  OBVIOUS
<1>3. x - 1 \notin C
  BY <1>1, <1>2 DEF OpToRel
<1> QED BY <1>2, <1>3

LEMMA LeastOfNats ==
  ASSUME NEW S \in SUBSET Nat, S # {}
  PROVE  Min(S) \in S /\ \A y \in S : Min(S) <= y
<1> DEFINE R == OpToRel(<, Nat)
<1>1. PICK x \in S : \A y \in S : ~ (<<y, x>> \in R)
  <2>1. IsWellFoundedOn(R, Nat)
    BY NatLessThanWellFounded
  <2> HIDE DEF R
  <2> QED BY <2>1, WFMin
<1>2. ASSUME NEW y \in S PROVE x <= y
  <2>1. y < x => <<y, x>> \in R
    BY DEF OpToRel
  <2> HIDE DEF R
  <2> QED BY <1>1, <2>1
<1> QED BY <1>2 DEF Min

(* The sum of k numbers stays below k times w over m if each is below that *)
(* ...                                                                     *)
LEMMA OneMore ==
  ASSUME NEW m \in Nat, NEW s \in Nat, NEW v \in Nat, NEW k \in Nat, NEW w \in Nat,
         m * s + k <= k * w, m * v < w
  PROVE  m * (s + v) + (k + 1) <= (k + 1) * w
<1>1. m * (s + v) = m * s + m * v /\ (k + 1) * w = k * w + w
  BY Z3
<1>2. m * s \in Nat /\ m * v \in Nat /\ k * w \in Nat
  BY Z3
<1> DEFINE a == m * s
           b == m * v
           c == k * w
<1>3. a + b + (k + 1) <= c + w
  <2>1. a \in Nat /\ b \in Nat /\ c \in Nat /\ a + k <= c /\ b < w
    BY <1>2
  <2> HIDE DEF a, b, c
  <2> QED BY <2>1
<1> QED BY <1>1, <1>3

(* ... so that up to m of them are less than w together.                   *)
LEMMA FewerThan ==
  ASSUME NEW m \in Nat, NEW t \in Nat, NEW k \in Nat, NEW w \in Nat,
         1 <= k, k <= m, m * t + k <= k * w
  PROVE  t < w
<1> SUFFICES ASSUME t >= w PROVE FALSE
  OBVIOUS
<1>1. m * t >= k * t
  <2>1. m * t = k * t + (m - k) * t
    BY Z3
  <2>2. (m - k) * t >= 0
    <3>1. m - k \in Nat
      OBVIOUS
    <3>2. \A h, j \in Nat : h * j >= 0
      BY Z3
    <3> QED BY <3>1, <3>2
  <2>3. k * t \in Int /\ (m - k) * t \in Int
    BY Z3
  <2> QED BY <2>1, <2>2, <2>3
<1>2. k * t >= k * w
  <2>1. k * t = k * w + k * (t - w)
    BY Z3
  <2>2. k * (t - w) >= 0
    <3>1. t - w \in Nat
      OBVIOUS
    <3>2. \A h, j \in Nat : h * j >= 0
      BY Z3
    <3> QED BY <3>1, <3>2
  <2>3. k * w \in Int /\ k * (t - w) \in Int
    BY Z3
  <2> QED BY <2>1, <2>2, <2>3
<1>3. m * t \in Int /\ k * t \in Int /\ k * w \in Int
  BY Z3
<1> QED BY <1>1, <1>2, <1>3

(* Induction over a stretch of numbers. *)
LEMMA RangeInduction ==
  ASSUME NEW a \in Nat, NEW b \in Nat, NEW T, a \in T,
         \A x \in a .. b - 1 : x \in T => x + 1 \in T
  PROVE  \A x \in a .. b : x \in T
<1> DEFINE U == {m \in Nat : a + m \in a .. b => a + m \in T}
<1>1. U \in SUBSET Nat /\ 0 \in U
  OBVIOUS
<1>2. ASSUME NEW m \in U PROVE m + 1 \in U
  <2>1. m \in Nat /\ a + (m + 1) = a + m + 1
    OBVIOUS
  <2>2. a + m + 1 \in a .. b => a + m \in a .. b - 1 /\ a + m \in a .. b
    BY <2>1
  <2>3. a + m + 1 \in a .. b => a + m + 1 \in T
    BY <2>2
  <2> QED BY <2>1, <2>3
<1>3. U = Nat
  <2> HIDE DEF U
  <2> QED BY <1>1, <1>2, SetInduction
<1> SUFFICES ASSUME NEW x \in a .. b PROVE x \in T
  OBVIOUS
<1>4. x - a \in Nat /\ a + (x - a) = x
  OBVIOUS
<1>5. x - a \in U
  <2> HIDE DEF U
  <2> QED BY <1>3, <1>4
<1> QED BY <1>4, <1>5

(* Running sums exist, as any recursive function over a stretch does. *)
LEMMA RunningSums ==
  ASSUME NEW k \in Nat, NEW step
  PROVE  \E f : f = [x \in 1 .. k |-> IF x = 1 THEN 0 ELSE f[x - 1] + step[x]]
<1> DEFINE Next1(f, x) == IF x = 1 THEN 0 ELSE f[x - 1] + step[x]
           UpTo(m, f) == \A x \in 1 .. k : x <= m => f[x] = Next1(f, x)
           T == {m \in 0 .. k : \E f : f = [x \in 1 .. k |-> f[x]] /\ UpTo(m, f)}
<1>1. 0 \in T
  <2> DEFINE f == [x \in 1 .. k |-> 0]
  <2>1. f = [x \in 1 .. k |-> f[x]] /\ UpTo(0, f)
    OBVIOUS
  <2> QED BY <2>1
<1>2. ASSUME NEW m \in 0 .. k - 1, m \in T PROVE m + 1 \in T
  <2>1. PICK f : f = [x \in 1 .. k |-> f[x]] /\ UpTo(m, f)
    BY <1>2
  <2> DEFINE g == [x \in 1 .. k |-> IF x <= m THEN f[x] ELSE Next1(f, x)]
  <2>2. ASSUME NEW x \in 1 .. k, x <= m + 1 PROVE g[x] = Next1(g, x)
    <3>1. g[x] = Next1(f, x)
      BY <2>1
    <3>2. x # 1 => x - 1 \in 1 .. k /\ x - 1 <= m
      BY <2>2
    <3>3. x # 1 => g[x - 1] = f[x - 1]
      BY <3>2
    <3> HIDE DEF g
    <3> QED BY <3>1, <3>3
  <2>3. g = [x \in 1 .. k |-> g[x]]
    OBVIOUS
  <2> HIDE DEF g
  <2>4. \E e : e = [x \in 1 .. k |-> e[x]] /\ UpTo(m + 1, e)
    BY <2>2, <2>3
  <2>5. m + 1 \in 0 .. k
    OBVIOUS
  <2> QED BY <2>4, <2>5
<1>3. k \in T
  <2>1. 0 \in Nat /\ k \in 0 .. k
    OBVIOUS
  <2> HIDE DEF T
  <2> QED BY <1>1, <1>2, <2>1, RangeInduction
<1>4. PICK f : f = [x \in 1 .. k |-> f[x]] /\ UpTo(k, f)
  BY <1>3
<1>5. f = [x \in 1 .. k |-> Next1(f, x)]
  <2> HIDE DEF Next1
  <2>1. \A x \in 1 .. k : f[x] = Next1(f, x)
    BY <1>4
  <2> QED BY <1>4, <2>1
<1> QED BY <1>5
-----------------------------------------------------------------------------
(***************************************************************************)
(* Suggestions.  The tables of Dijkstra's search are right after every     *)
(* visit (SearchOK, VisitKeeps), so that its path is a route (SearchPath)  *)
(* and none that goes on from the same root costs less (SearchLower).      *)
(*                                                                         *)
(* Yen's algorithm: a route that is not found yet goes along with those    *)
(* found up to some place (Deepest), and either a candidate leaves them    *)
(* there that costs no more, or that spur of the last route is still to be *)
(* searched (Covers).  Hence the cheapest candidate is the next best route *)
(* (NextBest), and without one all are found (NoCandidate).                *)
(***************************************************************************)
(***************************************************************************)
(* Suggestions: what routes cost.                                          *)
(***************************************************************************)
Size == Cardinality(Airports)

(* The matrices are ones there are. *)
Priced == arc \in FareTables

(* What the assumptions say of the constants.                              *)
LEMMA SizeFacts ==
  /\ Size \in Nat /\ Infinity \in Nat /\ Infinity > 0 /\ K \in Nat /\ K >= 1
  /\ Origin \in Airports /\ Destination \in Airports /\ IsFiniteSet(Airports)
BY RouteSuggestionsAssumption, FS_CardinalityType DEF Size

(* An arc that is served has a price, any other is infinitely dear.        *)
LEMMA WeightFacts ==
  ASSUME Priced, NEW u \in Airports, NEW v \in Airports
  PROVE  /\ Weight(u, v) \in Nat /\ Weight(u, u) = 0
         /\ Served(u, v) /\ u # v => Weight(u, v) > 0 /\ Size * Weight(u, v) < Infinity
         /\ ~Served(u, v) /\ u # v => Weight(u, v) = Infinity
<1>1. CASE <<u, v>> \in Arcs
  <2> DEFINE f == arc[<<u, v>>]
  <2>1. f \in Nat \X Nat /\ \A w \in 1 .. 2 : Size * f[w] < Infinity
    BY <1>1, RouteSuggestionsAssumption DEF Priced, Size
  <2>2. f[1] \in Nat /\ f[2] \in Nat /\ Size * f[1] < Infinity /\ Size * f[2] < Infinity
    BY <2>1
  <2>3. Fare(u, v) = f[1] /\ Time(u, v) = f[2]
    BY <1>1 DEF Fare, Time
  <2> HIDE DEF f
  <2> QED BY <2>2, <2>3, SizeFacts DEF Weight, Served
<1>2. CASE <<u, v>> \notin Arcs
  <2>1. Fare(u, v) = 0 /\ Time(u, v) = 0
    BY <1>2 DEF Fare, Time
  <2> QED BY <2>1, SizeFacts DEF Weight, Served
<1> QED BY <1>1, <1>2

(* The costs of a route add up its arcs.                                   *)
LEMMA CostsSteps ==
  ASSUME NEW k \in Nat, NEW r, DOMAIN r = 1 .. k
  PROVE  /\ k >= 1 => Costs(r)[1] = 0
         /\ \A x \in 1 .. k - 1 : Costs(r)[x + 1] = Costs(r)[x] + Weight(r[x], r[x + 1])
<1> DEFINE s == Costs(r)
           step == [x \in 1 .. k |-> Weight(r[x - 1], r[x])]
<1>1. s = [x \in 1 .. k |-> IF x = 1 THEN 0 ELSE s[x - 1] + Weight(r[x - 1], r[x])]
  <2>1. PICK f : f = [x \in 1 .. k |-> IF x = 1 THEN 0 ELSE f[x - 1] + step[x]]
    <3> HIDE DEF step
    <3> QED BY RunningSums
  <2>2. f = [x \in 1 .. k |-> IF x = 1 THEN 0 ELSE f[x - 1] + Weight(r[x - 1], r[x])]
    BY <2>1
  <2>3. \E g : g = [x \in 1 .. k |-> IF x = 1 THEN 0 ELSE g[x - 1] + Weight(r[x - 1], r[x])]
    BY <2>2
  <2> QED BY <2>3 DEF Costs
<1> HIDE DEF s
<1>2. k >= 1 => s[1] = 0
  BY <1>1
<1>3. ASSUME NEW x \in 1 .. k - 1 PROVE s[x + 1] = s[x] + Weight(r[x], r[x + 1])
  <2>1. x + 1 \in 1 .. k /\ x + 1 # 1 /\ x + 1 - 1 = x
    OBVIOUS
  <2> QED BY <1>1, <2>1
<1> QED BY <1>2, <1>3 DEF s

(* Routes with the same beginning cost the same so far. *)
Agree(r, k, q, l, j) ==
  /\ k \in Nat /\ l \in Nat /\ j \in Nat /\ 1 <= j /\ j <= k /\ j <= l
  /\ DOMAIN r = 1 .. k /\ DOMAIN q = 1 .. l
  /\ \A x \in 1 .. j : r[x] = q[x]

LEMMA CostsAgree ==
  ASSUME NEW r, NEW k, NEW q, NEW l, NEW j, Agree(r, k, q, l, j)
  PROVE  \A x \in 1 .. j : Costs(r)[x] = Costs(q)[x]
<1>0. /\ k \in Nat /\ l \in Nat /\ j \in Nat /\ 1 <= j /\ j <= k /\ j <= l
      /\ DOMAIN r = 1 .. k /\ DOMAIN q = 1 .. l
      /\ \A x \in 1 .. j : r[x] = q[x]
  BY DEF Agree
<1> DEFINE T == {x \in 1 .. j : Costs(r)[x] = Costs(q)[x]}
<1>1. 1 \in T
  BY <1>0, CostsSteps
<1>2. ASSUME NEW x \in 1 .. j - 1, x \in T PROVE x + 1 \in T
  <2>1. x \in 1 .. k - 1 /\ x \in 1 .. l - 1 /\ x \in 1 .. j /\ x + 1 \in 1 .. j
    BY <1>0
  <2>2. Costs(r)[x + 1] = Costs(r)[x] + Weight(r[x], r[x + 1])
    BY <1>0, <2>1, CostsSteps
  <2>3. Costs(q)[x + 1] = Costs(q)[x] + Weight(q[x], q[x + 1])
    BY <1>0, <2>1, CostsSteps
  <2> QED BY <1>0, <1>2, <2>1, <2>2, <2>3
<1>3. \A x \in 1 .. j : x \in T
  <2> HIDE DEF T
  <2> QED BY <1>0, <1>1, <1>2, RangeInduction
<1> QED BY <1>3

(* What a route is. *)
IsRoute(r, m) ==
  /\ m \in Nat /\ m >= 2
  /\ r \in [1 .. m -> Airports]
  /\ r[1] = Origin /\ r[m] = Destination
  /\ \A x, y \in 1 .. m : r[x] = r[y] => x = y
  /\ \A x \in 1 .. m - 1 : Served(r[x], r[x + 1])

(* What being a route comes down to ...                                    *)
LEMMA RouteFacts ==
  ASSUME NEW r \in Routes
  PROVE  /\ IsRoute(r, Len(r)) /\ DOMAIN r = 1 .. Len(r)
         /\ r \in Seq(Airports) /\ Len(r) <= Size
         /\ \A x \in 1 .. Len(r) - 1 : r[x] \in Airports /\ r[x + 1] \in Airports /\ r[x] # r[x + 1]
<1>1. PICK m \in 2 .. Size : r \in [1 .. m -> Airports]
  BY DEF Routes, Size
<1>2. m \in Nat /\ m >= 2 /\ m <= Size
  BY <1>1, SizeFacts
<1>3. Len(r) = m /\ DOMAIN r = 1 .. m /\ r \in Seq(Airports)
  BY <1>1, <1>2
<1>4. /\ r[1] = Origin /\ r[m] = Destination /\ IsInjective(r)
      /\ \A x \in 2 .. m : Fare(r[x - 1], r[x]) > 0 /\ Time(r[x - 1], r[x]) > 0
  BY <1>3 DEF Routes
<1>5. \A x, y \in 1 .. m : r[x] = r[y] => x = y
  BY <1>3, <1>4 DEF IsInjective
<1>6. ASSUME NEW x \in 1 .. m - 1
      PROVE  /\ Served(r[x], r[x + 1])
             /\ r[x] \in Airports /\ r[x + 1] \in Airports /\ r[x] # r[x + 1]
  <2>1. x + 1 \in 2 .. m /\ x + 1 - 1 = x /\ x \in 1 .. m /\ x + 1 \in 1 .. m /\ x # x + 1
    BY <1>2
  <2> QED BY <1>1, <1>4, <1>5, <2>1 DEF Served
<1> QED BY <1>1, <1>2, <1>3, <1>4, <1>5, <1>6 DEF IsRoute

(* ... and what is one.                                                    *)
LEMMA RouteIs ==
  ASSUME NEW r, NEW m, IsRoute(r, m)
  PROVE  r \in Routes /\ Len(r) = m /\ r \in Seq(Airports)
<1>1. m \in Nat /\ m >= 2 /\ r \in [1 .. m -> Airports]
  BY DEF IsRoute
<1>2. Len(r) = m /\ DOMAIN r = 1 .. m /\ r \in Seq(Airports)
  BY <1>1
<1>3. m <= Size
  <2>1. \A x, y \in 1 .. m : r[x] = r[y] => x = y
    BY DEF IsRoute
  <2>2. \A a \in 1 .. m + 1, b \in 0 .. m :
          a <= b + 1 => /\ IsFiniteSet(Stretch(r, a, b))
                        /\ Cardinality(Stretch(r, a, b)) = b - a + 1
    BY <1>1, <2>1, StretchSize
  <2>3. 1 \in 1 .. m + 1 /\ m \in 0 .. m /\ 1 <= m + 1 /\ m - 1 + 1 = m
    BY <1>1
  <2>4. Cardinality(Stretch(r, 1, m)) = m
    BY <2>2, <2>3
  <2>5. Stretch(r, 1, m) \in SUBSET Airports
    BY <1>1 DEF Stretch
  <2> QED BY <2>4, <2>5, SizeFacts, FS_Subset DEF Size
<1>4. IsInjective(r)
  BY <1>2 DEF IsRoute, IsInjective
<1>5. ASSUME NEW x \in 2 .. m PROVE Fare(r[x - 1], r[x]) > 0 /\ Time(r[x - 1], r[x]) > 0
  <2>1. x - 1 \in 1 .. m - 1 /\ x - 1 + 1 = x
    BY <1>1
  <2>2. Served(r[x - 1], r[x - 1 + 1])
    BY <2>1 DEF IsRoute
  <2> QED BY <2>1, <2>2 DEF Served
<1>6. m \in 2 .. Size
  BY <1>1, <1>3, SizeFacts
<1> QED BY <1>1, <1>2, <1>4, <1>5, <1>6 DEF Routes, Size, IsRoute

(* Routes cost something, and less than Infinity. *)
LEMMA RouteCosts ==
  ASSUME Priced, NEW r \in Routes
  PROVE  /\ \A x \in 1 .. Len(r) : Costs(r)[x] \in Nat /\ Costs(r)[x] < Infinity
         /\ \A x \in 1 .. Len(r) - 1 : Costs(r)[x] <= Costs(r)[x + 1]
         /\ Cost(r) \in Nat /\ Cost(r) < Infinity
<1> DEFINE m == Len(r)
           T == {x \in 1 .. m : Costs(r)[x] \in Nat /\ Size * Costs(r)[x] + x <= x * Infinity}
<1>0. /\ m \in Nat /\ m >= 2 /\ m <= Size /\ DOMAIN r = 1 .. m
      /\ Size \in Nat /\ Infinity \in Nat /\ Infinity > 0
  BY RouteFacts, SizeFacts DEF IsRoute
<1>1. 1 \in T
  <2>1. Costs(r)[1] = 0
    BY <1>0, CostsSteps
  <2>2. Size * 0 + 1 <= 1 * Infinity
    BY <1>0
  <2> HIDE DEF m
  <2> QED BY <1>0, <2>1, <2>2
<1> HIDE DEF m
<1>2. ASSUME NEW x \in 1 .. m - 1
      PROVE  /\ Costs(r)[x + 1] = Costs(r)[x] + Weight(r[x], r[x + 1])
             /\ Weight(r[x], r[x + 1]) \in Nat
             /\ Size * Weight(r[x], r[x + 1]) < Infinity
  <2>1. Costs(r)[x + 1] = Costs(r)[x] + Weight(r[x], r[x + 1])
    BY <1>0, CostsSteps
  <2>2. r[x] \in Airports /\ r[x + 1] \in Airports /\ r[x] # r[x + 1] /\ Served(r[x], r[x + 1])
    BY RouteFacts DEF IsRoute, m
  <2> QED BY <2>1, <2>2, WeightFacts
<1>3. ASSUME NEW x \in 1 .. m - 1, x \in T PROVE x + 1 \in T
  <2> DEFINE c == Costs(r)[x]
             w == Weight(r[x], r[x + 1])
  <2>1. Costs(r)[x + 1] = c + w /\ w \in Nat /\ Size * w < Infinity
    BY <1>2
  <2>2. c \in Nat /\ Size * c + x <= x * Infinity /\ x \in Nat /\ x + 1 \in 1 .. m
    BY <1>0, <1>3
  <2> HIDE DEF c, w
  <2>3. Size * (c + w) + (x + 1) <= (x + 1) * Infinity
    BY <1>0, <2>1, <2>2, OneMore
  <2>4. c + w \in Nat
    BY <2>1, <2>2
  <2> QED BY <2>1, <2>2, <2>3, <2>4
<1>4. \A x \in 1 .. m : x \in T
  <2> HIDE DEF T
  <2> QED BY <1>0, <1>1, <1>3, RangeInduction
<1>5. ASSUME NEW x \in 1 .. m PROVE Costs(r)[x] \in Nat /\ Costs(r)[x] < Infinity
  <2>1. Costs(r)[x] \in Nat /\ Size * Costs(r)[x] + x <= x * Infinity
    BY <1>4
  <2>2. x \in Nat /\ 1 <= x /\ x <= Size
    BY <1>0
  <2> QED BY <1>0, <2>1, <2>2, FewerThan
<1>6. ASSUME NEW x \in 1 .. m - 1 PROVE Costs(r)[x] <= Costs(r)[x + 1]
  <2>1. x \in 1 .. m
    BY <1>0
  <2>2. Costs(r)[x] \in Nat
    BY <1>5, <2>1
  <2> QED BY <1>2, <2>2
<1>7. m \in 1 .. m /\ Cost(r) = Costs(r)[m]
  BY <1>0 DEF Cost, m
<1> QED BY <1>5, <1>6, <1>7 DEF m

(***************************************************************************)
(* Suggestions: Dijkstra's search, from a node s, without the nodes R and  *)
(* the arcs X, in the tables d, p and un.                                  *)
(***************************************************************************)
Allowed(u, v, R, X) == Served(u, v) /\ u # v /\ v \notin R /\ <<u, v>> \notin X

Visited(un, R) == Airports \ (R \union un)

SearchOK(d, p, un, s, R, X) ==
  /\ d \in [Airports -> Nat] /\ \A v \in Airports : d[v] <= Infinity
  /\ un \in SUBSET (Airports \ R) /\ Destination \in un
  /\ s \in Airports /\ s \notin R /\ d[s] = 0
  /\ \A v \in Airports : v # s /\ d[v] < Infinity =>
       p[v] \in Visited(un, R) /\ Allowed(p[v], v, R, X) /\ d[v] = d[p[v]] + Weight(p[v], v)
  /\ \A u \in Visited(un, R) :
       /\ d[u] < Infinity
       /\ \A v \in Airports : Allowed(u, v, R, X) => d[v] <= d[u] + Weight(u, v)
       /\ \A v \in un : d[u] <= d[v]

(* The tables at the start of a search are right.                          *)
LEMMA FreshSearch ==
  ASSUME NEW s \in Airports, NEW R, s \notin R, Destination \notin R, NEW X, NEW d, NEW p,
         d = [v \in Airports |-> IF v = s THEN 0 ELSE Infinity]
  PROVE  SearchOK(d, p, Airports \ R, s, R, X)
<1>1. d \in [Airports -> Nat] /\ \A v \in Airports : d[v] <= Infinity
  BY SizeFacts
<1>2. Visited(Airports \ R, R) = {}
  BY DEF Visited
<1>3. ~(Infinity < Infinity)
  BY SizeFacts
<1>4. \A v \in Airports : v # s /\ d[v] < Infinity => FALSE
  BY <1>3
<1>5. Destination \in Airports \ R /\ d[s] = 0
  BY SizeFacts
<1> QED BY <1>1, <1>2, <1>4, <1>5 DEF SearchOK

Better(d, u, v, R, X) == v \notin R /\ <<u, v>> \notin X /\ d[u] + Weight(u, v) < d[v]

(* A visit keeps the tables right: no node visited before gets better. *)
LEMMA VisitKeeps ==
  ASSUME Priced, NEW d, NEW p, NEW un, NEW s, NEW R, NEW X, SearchOK(d, p, un, s, R, X),
         NEW u \in un, d[u] < Infinity, \A m \in un : d[u] <= d[m], u # Destination,
         NEW d2, d2 = [v \in Airports |-> IF Better(d, u, v, R, X) THEN d[u] + Weight(u, v) ELSE d[v]],
         NEW p2, p2 = [v \in Airports |-> IF Better(d, u, v, R, X) THEN u ELSE p[v]]
  PROVE  SearchOK(d2, p2, un \ {u}, s, R, X)
<1> DEFINE un2 == un \ {u}
<1>1. /\ d \in [Airports -> Nat] /\ un \in SUBSET (Airports \ R) /\ Destination \in un
      /\ s \in Airports /\ s \notin R /\ d[s] = 0
      /\ u \in Airports /\ u \notin R
  BY DEF SearchOK
<1>2. ASSUME NEW v \in Airports
      PROVE  Weight(u, v) \in Nat /\ d[u] \in Nat /\ d[v] \in Nat /\ d[v] <= Infinity
  BY <1>1, WeightFacts DEF SearchOK
<1>3. ASSUME NEW v \in Airports, Better(d, u, v, R, X)
      PROVE  /\ Allowed(u, v, R, X) /\ v # s
             /\ d2[v] = d[u] + Weight(u, v) /\ p2[v] = u
             /\ d2[v] \in Nat /\ d2[v] < d[v] /\ d[u] <= d2[v]
  <2>1. d[u] + Weight(u, v) < d[v] /\ v \notin R /\ <<u, v>> \notin X
    BY <1>3 DEF Better
  <2>2. d2[v] = d[u] + Weight(u, v) /\ p2[v] = u
    BY <1>3
  <2>3. Weight(u, v) # Infinity
    BY <1>2, <2>1, SizeFacts
  <2>4. v # u
    BY <1>1, <1>2, <2>1, WeightFacts
  <2>5. Served(u, v)
    BY <1>1, <2>3, <2>4, WeightFacts
  <2>6. v # s
    BY <1>1, <1>2, <2>1
  <2> QED BY <1>2, <2>1, <2>2, <2>4, <2>5, <2>6 DEF Allowed
<1>4. ASSUME NEW v \in Airports, ~Better(d, u, v, R, X)
      PROVE  d2[v] = d[v] /\ p2[v] = p[v]
  BY <1>4
<1>5. ASSUME NEW v \in Airports PROVE d2[v] \in Nat /\ d2[v] <= d[v] /\ d2[v] <= Infinity
  <2>1. CASE Better(d, u, v, R, X)
    BY <1>2, <1>3, <2>1, SizeFacts
  <2>2. CASE ~Better(d, u, v, R, X)
    BY <1>2, <1>4, <2>2
  <2> QED BY <2>1, <2>2
<1>6. Visited(un2, R) = Visited(un, R) \union {u}
  BY <1>1 DEF Visited
<1>7. ASSUME NEW w \in Visited(un2, R) PROVE w \in Airports /\ ~Better(d, u, w, R, X) /\ d[w] < Infinity
  <2>1. w \in Airports
    BY DEF Visited
  <2>2. CASE w = u
    <3>1. Weight(u, u) = 0
      BY <1>1, WeightFacts
    <3> QED BY <1>2, <2>1, <2>2, <3>1 DEF Better
  <2>3. CASE w \in Visited(un, R)
    <3>1. d[w] <= d[u] /\ d[w] < Infinity
      BY <2>3 DEF SearchOK
    <3> QED BY <1>2, <2>1, <3>1 DEF Better
  <2> QED BY <1>6, <2>2, <2>3
<1>8. \A w \in Visited(un2, R) : d2[w] = d[w]
  BY <1>4, <1>7
<1>9. d2 \in [Airports -> Nat]
  <2>1. d2 = [v \in Airports |-> d2[v]]
    OBVIOUS
  <2> HIDE DEF un2
  <2> QED BY <1>5, <2>1
<1>10. d2[s] = 0
  BY <1>1, <1>3, <1>4
<1>11. ASSUME NEW v \in Airports, v # s, d2[v] < Infinity
       PROVE  /\ p2[v] \in Visited(un2, R) /\ Allowed(p2[v], v, R, X)
              /\ d2[v] = d2[p2[v]] + Weight(p2[v], v)
  <2>1. CASE Better(d, u, v, R, X)
    <3>1. p2[v] = u /\ d2[v] = d[u] + Weight(u, v) /\ Allowed(u, v, R, X)
      BY <1>3, <2>1
    <3>2. u \in Visited(un2, R) /\ d2[u] = d[u]
      BY <1>6, <1>8
    <3> QED BY <3>1, <3>2
  <2>2. CASE ~Better(d, u, v, R, X)
    <3>1. p2[v] = p[v] /\ d2[v] = d[v]
      BY <1>4, <2>2
    <3>2. /\ p[v] \in Visited(un, R) /\ Allowed(p[v], v, R, X)
          /\ d[v] = d[p[v]] + Weight(p[v], v)
      BY <1>11, <3>1 DEF SearchOK
    <3>3. p[v] \in Visited(un2, R) /\ d2[p[v]] = d[p[v]]
      BY <1>6, <1>8, <3>2
    <3> QED BY <3>1, <3>2, <3>3
  <2> QED BY <2>1, <2>2
<1>12. ASSUME NEW w \in Visited(un2, R), NEW v \in Airports, Allowed(w, v, R, X)
       PROVE  d2[v] <= d2[w] + Weight(w, v)
  <2>0. w \in Airports /\ d2[w] = d[w]
    BY <1>7, <1>8
  <2>1. CASE w \in Visited(un, R)
    <3>1. d[v] <= d[w] + Weight(w, v)
      BY <1>12, <2>1 DEF SearchOK
    <3>2. Weight(w, v) \in Nat /\ d[w] \in Nat
      BY <1>2, <2>0, WeightFacts
    <3> QED BY <1>2, <1>5, <2>0, <3>1, <3>2
  <2>2. CASE w = u
    <3>1. CASE Better(d, u, v, R, X)
      BY <1>2, <1>3, <2>0, <2>2, <3>1
    <3>2. CASE ~Better(d, u, v, R, X)
      <4>1. v \notin R /\ <<u, v>> \notin X
        BY <1>12, <2>2 DEF Allowed
      <4>2. ~(d[u] + Weight(u, v) < d[v])
        BY <3>2, <4>1 DEF Better
      <4> QED BY <1>2, <1>4, <2>0, <2>2, <3>2, <4>2
    <3> QED BY <3>1, <3>2
  <2> QED BY <1>6, <2>1, <2>2
<1>13. ASSUME NEW w \in Visited(un2, R), NEW v \in un2 PROVE d2[w] <= d2[v]
  <2>0. w \in Airports /\ d2[w] = d[w] /\ v \in Airports /\ v \in un /\ d[w] \in Nat
    BY <1>1, <1>7, <1>8
  <2>1. d[w] <= d[u]
    <3>1. CASE w \in Visited(un, R)
      BY <3>1 DEF SearchOK
    <3>2. CASE w = u
      BY <2>0, <3>2
    <3> QED BY <1>6, <3>1, <3>2
  <2>2. d[u] <= d2[v]
    <3>1. d[u] <= d[v]
      BY <2>0
    <3> QED BY <1>3, <1>4, <2>0, <3>1
  <2> QED BY <1>2, <1>5, <2>0, <2>1, <2>2
<1>14. \A w \in Visited(un2, R) : d2[w] < Infinity
  BY <1>7, <1>8
<1>15. un2 \in SUBSET (Airports \ R) /\ Destination \in un2
  BY <1>1
<1> HIDE DEF un2
<1>16. SearchOK(d2, p2, un2, s, R, X)
  BY <1>1, <1>5, <1>9, <1>10, <1>11, <1>12, <1>13, <1>14, <1>15 DEF SearchOK
<1> QED BY <1>16 DEF un2

(* A search that ends has left only nodes farther than the destination. *)
Ended(d, un) == \A m \in un : d[m] < Infinity => d[Destination] <= d[m]

LEMMA SearchEnded ==
  ASSUME NEW s, NEW R, NEW X, SearchOK(dist, prev, unvisited, s, R, X), SearchEnds
  PROVE  Ended(dist, unvisited)
<1>1. CASE Destination \in Nearest
  BY <1>1 DEF Nearest, Ended
<1>2. CASE Nearest = {}
  <2> SUFFICES ASSUME NEW m \in unvisited, dist[m] < Infinity PROVE FALSE
    BY DEF Ended
  <2> DEFINE S == {dist[x] : x \in unvisited}
  <2>1. unvisited \in SUBSET Airports /\ dist \in [Airports -> Nat]
    BY DEF SearchOK
  <2>2. S \in SUBSET Nat /\ S # {}
    BY <2>1
  <2>3. Min(S) \in S /\ \A y \in S : Min(S) <= y
    <3> HIDE DEF S
    <3> QED BY <2>2, LeastOfNats
  <2>4. PICK x \in unvisited : Min(S) = dist[x]
    BY <2>3
  <2>5. \A y \in unvisited : dist[x] <= dist[y]
    <3> TAKE y \in unvisited
    <3>1. dist[y] \in S
      OBVIOUS
    <3> HIDE DEF S
    <3> QED BY <2>3, <2>4, <3>1
  <2>6. dist[x] < Infinity
    <3>1. dist[x] <= dist[m] /\ dist[x] \in Nat /\ dist[m] \in Nat
      BY <2>1, <2>5
    <3> QED BY <3>1, SizeFacts
  <2> QED BY <1>2, <2>5, <2>6 DEF Nearest
<1> QED BY <1>1, <1>2 DEF SearchEnds

(* No route that goes on from s is shorter than what such a search found. *)
LEMMA SearchLower ==
  ASSUME Priced, NEW d, NEW p, NEW un, NEW s, NEW R, NEW X, SearchOK(d, p, un, s, R, X),
         Ended(d, un), NEW r \in Routes, NEW a \in 1 .. Len(r) - 1, r[a] = s,
         \A x \in a .. Len(r) - 1 : Allowed(r[x], r[x + 1], R, X)
  PROVE  d[Destination] < Infinity /\ Costs(r)[a] + d[Destination] <= Cost(r)
<1> DEFINE m == Len(r)
           c == Costs(r)
           T == {x \in a .. m : /\ r[x] \notin R
                                /\ c[a] + d[r[x]] <= c[x] \/ c[a] + d[Destination] <= c[x]}
<1>1. /\ m \in Nat /\ m >= 2 /\ DOMAIN r = 1 .. m /\ r \in [1 .. m -> Airports]
      /\ r[m] = Destination
  BY RouteFacts DEF IsRoute
<1>2. /\ d \in [Airports -> Nat] /\ d[s] = 0 /\ s \notin R
      /\ un \in SUBSET (Airports \ R) /\ Destination \in Airports
  BY SizeFacts DEF SearchOK
<1>3. ASSUME NEW x \in 1 .. m PROVE c[x] \in Nat /\ c[x] < Infinity /\ d[r[x]] \in Nat
  BY <1>1, <1>2, RouteCosts
<1>4. d[Destination] \in Nat /\ Infinity \in Nat /\ a \in Nat /\ a \in 1 .. m /\ m - 1 \in Nat
  BY <1>1, <1>2, SizeFacts
<1>5. a \in T
  BY <1>1, <1>2, <1>3, <1>4
<1>6. ASSUME NEW x \in a .. m - 1, x \in T PROVE x + 1 \in T
  <2>1. x \in 1 .. m - 1 /\ x \in 1 .. m /\ x + 1 \in 1 .. m /\ x + 1 \in a .. m
    BY <1>1
  <2>2. c[x + 1] = c[x] + Weight(r[x], r[x + 1]) /\ c[x] <= c[x + 1]
    BY <1>1, <2>1, CostsSteps, RouteCosts
  <2>3. Allowed(r[x], r[x + 1], R, X) /\ r[x + 1] \notin R
    BY DEF Allowed
  <2>4. r[x] \in Airports /\ r[x + 1] \in Airports
    BY <1>1, <2>1
  <2>5. Weight(r[x], r[x + 1]) \in Nat
    BY <2>4, WeightFacts
  <2>6. c[a] \in Nat /\ c[x] \in Nat /\ c[x + 1] \in Nat /\ c[x] < Infinity /\ d[r[x]] \in Nat /\ d[r[x + 1]] \in Nat
    BY <1>3, <1>4, <2>1
  <2>7. r[x] \notin R /\ (c[a] + d[r[x]] <= c[x] \/ c[a] + d[Destination] <= c[x])
    BY <1>6
  <2>8. CASE c[a] + d[Destination] <= c[x]
    <3>1. c[a] + d[Destination] <= c[x + 1]
      <4>1. \A e, f, g, k \in Nat : e + k <= f /\ f <= g => e + k <= g
        OBVIOUS
      <4> HIDE DEF c
      <4> QED BY <1>4, <2>2, <2>6, <2>8, <4>1
    <3> QED BY <2>1, <2>3, <3>1
  <2>9. CASE c[a] + d[r[x]] <= c[x] /\ r[x] \in un
    <3>1. d[r[x]] < Infinity
      BY <1>4, <2>6, <2>9
    <3>2. d[Destination] <= d[r[x]]
      BY <2>9, <3>1 DEF Ended
    <3>3. c[a] + d[Destination] <= c[x + 1]
      <4>1. \A e, f, g, h, k \in Nat : e + h <= f /\ f <= g /\ k <= h => e + k <= g
        OBVIOUS
      <4> HIDE DEF c
      <4> QED BY <1>4, <2>2, <2>6, <2>9, <3>2, <4>1
    <3> QED BY <2>1, <2>3, <3>3
  <2>10. CASE c[a] + d[r[x]] <= c[x] /\ r[x] \notin un
    <3>1. r[x] \in Visited(un, R)
      BY <2>4, <2>7, <2>10 DEF Visited
    <3>2. d[r[x + 1]] <= d[r[x]] + Weight(r[x], r[x + 1])
      BY <2>3, <2>4, <3>1 DEF SearchOK
    <3>3. c[a] + d[r[x + 1]] <= c[x + 1]
      <4>1. \A e, f, w, h, k \in Nat : e + h <= f /\ k <= h + w => e + k <= f + w
        OBVIOUS
      <4> HIDE DEF c
      <4> QED BY <2>2, <2>5, <2>6, <2>10, <3>2, <4>1
    <3> QED BY <2>1, <2>3, <3>3
  <2> QED BY <2>7, <2>8, <2>9, <2>10
<1>7. \A x \in a .. m : x \in T
  <2> HIDE DEF T, m
  <2> QED BY <1>1, <1>4, <1>5, <1>6, RangeInduction
<1>8. m \in a .. m
  BY <1>1, <1>4
<1>9. c[a] + d[Destination] <= c[m]
  BY <1>1, <1>7, <1>8
<1>10. c[m] = Cost(r)
  BY DEF Cost
<1>11. c[m] \in Nat /\ c[m] < Infinity /\ c[a] \in Nat
  BY <1>1, <1>3, <1>4
<1> HIDE DEF c, m, T
<1>12. d[Destination] < Infinity
  BY <1>4, <1>9, <1>11
<1> QED BY <1>9, <1>10, <1>12 DEF c

(* The walk back along the tables exists. *)
LEMMA WalkBack ==
  ASSUME Size \in Nat
  PROVE  \E f : f = [x \in 1 .. Size |-> IF x = 1 THEN Destination
                                ELSE IF f[x - 1] = Source THEN Source ELSE prev[f[x - 1]]]
<1> DEFINE k == Size
           Next1(f, x) == IF x = 1 THEN Destination
                         ELSE IF f[x - 1] = Source THEN Source ELSE prev[f[x - 1]]
           UpTo(m, f) == \A x \in 1 .. k : x <= m => f[x] = Next1(f, x)
           T == {m \in 0 .. k : \E f : f = [x \in 1 .. k |-> f[x]] /\ UpTo(m, f)}
<1>0. k \in Nat
  OBVIOUS
<1> HIDE DEF k
<1>1. 0 \in T
  <2> DEFINE f == [x \in 1 .. k |-> Destination]
  <2>1. f = [x \in 1 .. k |-> f[x]] /\ UpTo(0, f) /\ 0 \in 0 .. k
    BY <1>0
  <2> QED BY <2>1
<1>2. ASSUME NEW m \in 0 .. k - 1, m \in T PROVE m + 1 \in T
  <2>1. PICK f : f = [x \in 1 .. k |-> f[x]] /\ UpTo(m, f)
    BY <1>2
  <2> DEFINE g == [x \in 1 .. k |-> IF x <= m THEN f[x] ELSE Next1(f, x)]
  <2>2. ASSUME NEW x \in 1 .. k, x <= m + 1 PROVE g[x] = Next1(g, x)
    <3>1. g[x] = Next1(f, x)
      BY <2>1
    <3>2. x # 1 => x - 1 \in 1 .. k /\ x - 1 <= m
      BY <1>0, <2>2
    <3>3. x # 1 => g[x - 1] = f[x - 1]
      BY <3>2
    <3> HIDE DEF g
    <3> QED BY <3>1, <3>3
  <2>3. g = [x \in 1 .. k |-> g[x]]
    OBVIOUS
  <2> HIDE DEF g
  <2>4. \E e : e = [x \in 1 .. k |-> e[x]] /\ UpTo(m + 1, e)
    BY <2>2, <2>3
  <2>5. m + 1 \in 0 .. k
    BY <1>0
  <2> QED BY <2>4, <2>5
<1>3. k \in T
  <2>1. 0 \in Nat /\ k \in 0 .. k
    BY <1>0
  <2> HIDE DEF T
  <2> QED BY <1>0, <1>1, <1>2, <2>1, RangeInduction
<1>4. PICK f : f = [x \in 1 .. k |-> f[x]] /\ UpTo(k, f)
  BY <1>3
<1>5. f = [x \in 1 .. k |-> Next1(f, x)]
  <2> HIDE DEF Next1
  <2>1. \A x \in 1 .. k : f[x] = Next1(f, x)
    BY <1>4
  <2> QED BY <1>4, <2>1
<1> QED BY <1>5 DEF k

(* The walk goes from the destination back to the source, and stays there. *)
LEMMA CurrSteps ==
  /\ Size >= 1 /\ DOMAIN Curr = 1 .. Size /\ Curr = [x \in 1 .. Size |-> Curr[x]]
  /\ Curr[1] = Destination
  /\ \A x \in 1 .. Size - 1 :
       Curr[x + 1] = IF Curr[x] = Source THEN Source ELSE prev[Curr[x]]
<1> DEFINE c == Curr
<1>1. Size \in Nat /\ Size >= 1
  <2>1. Size # 0
    BY SizeFacts, FS_EmptySet DEF Size
  <2> QED BY <2>1, SizeFacts
<1>2. c = [x \in 1 .. Size |-> IF x = 1 THEN Destination
                               ELSE IF c[x - 1] = Source THEN Source ELSE prev[c[x - 1]]]
  <2>1. \E f : f = [x \in 1 .. Size |-> IF x = 1 THEN Destination
                               ELSE IF f[x - 1] = Source THEN Source ELSE prev[f[x - 1]]]
    BY <1>1, WalkBack
  <2> QED BY <2>1 DEF Curr, Size
<1> HIDE DEF c
<1>2a. \A y \in 1 .. Size : c[y] = IF y = 1 THEN Destination
                                 ELSE IF c[y - 1] = Source THEN Source ELSE prev[c[y - 1]]
  BY <1>2
<1>3. c[1] = Destination /\ DOMAIN c = 1 .. Size /\ c = [x \in 1 .. Size |-> c[x]]
  BY <1>1, <1>2
<1>4. ASSUME NEW x \in 1 .. Size - 1
      PROVE  c[x + 1] = IF c[x] = Source THEN Source ELSE prev[c[x]]
  <2>1. x + 1 \in 1 .. Size /\ x + 1 # 1 /\ x + 1 - 1 = x
    BY <1>1
  <2>2. c[x + 1] = IF x + 1 = 1 THEN Destination
                   ELSE IF c[x + 1 - 1] = Source THEN Source ELSE prev[c[x + 1 - 1]]
    BY <1>2a, <2>1
  <2> QED BY <2>1, <2>2
<1> QED BY <1>1, <1>3, <1>4 DEF c

(* What the path of a search is: a loopless one that costs what the tables *)
(* say.                                                                    *)
IsPath(P, l, d, s, R, X) ==
  /\ l \in Nat /\ l >= 2
  /\ P \in [1 .. l -> Airports]
  /\ P[1] = s /\ P[l] = Destination
  /\ \A x, y \in 1 .. l : P[x] = P[y] => x = y
  /\ \A x \in 1 .. l - 1 : /\ Allowed(P[x], P[x + 1], R, X)
                           /\ d[P[x + 1]] = d[P[x]] + Weight(P[x], P[x + 1])
  /\ \A x \in 1 .. l : P[x] \notin R /\ d[P[x]] \in Nat

(* The path exists, since every step back is to a node that is nearer.     *)
LEMMA SearchPath ==
  ASSUME Priced, NEW R, NEW X, SearchOK(dist, prev, unvisited, Source, R, X),
         Source # Destination, Found
  PROVE  \E l : IsPath(Path, l, dist, Source, R, X)
<1> DEFINE c == Curr
           d == dist
           s == Source
           S == {n \in DOMAIN c : c[n] = s}
           L == Min(S)
<1>1. /\ Size \in Nat /\ Size >= 1 /\ DOMAIN c = 1 .. Size /\ c[1] = Destination
      /\ c = [x \in 1 .. Size |-> c[x]]
      /\ \A x \in 1 .. Size - 1 : c[x + 1] = IF c[x] = s THEN s ELSE prev[c[x]]
  BY CurrSteps, SizeFacts
<1>2. /\ d \in [Airports -> Nat] /\ d[s] = 0 /\ s \notin R /\ s \in Airports
      /\ Destination \in Airports /\ Destination \notin R /\ d[Destination] < Infinity
      /\ s # Destination /\ Infinity > 0
  BY SizeFacts DEF SearchOK, Found
<1>3. ASSUME NEW v \in Airports, v # s, d[v] < Infinity
      PROVE  /\ prev[v] \in Airports /\ prev[v] \notin R /\ d[prev[v]] < Infinity
             /\ Allowed(prev[v], v, R, X) /\ d[v] = d[prev[v]] + Weight(prev[v], v)
             /\ d[prev[v]] < d[v]
  <2>1. /\ prev[v] \in Visited(unvisited, R) /\ Allowed(prev[v], v, R, X)
        /\ d[v] = d[prev[v]] + Weight(prev[v], v)
    BY <1>3 DEF SearchOK
  <2>2. prev[v] \in Airports /\ prev[v] \notin R
    BY <2>1 DEF Visited
  <2>3. d[prev[v]] < Infinity
    BY <2>1 DEF SearchOK
  <2>4. Weight(prev[v], v) > 0 /\ Weight(prev[v], v) \in Nat
    BY <2>1, <2>2, WeightFacts DEF Allowed
  <2>5. d[prev[v]] \in Nat
    BY <1>2, <2>2
  <2>6. d[prev[v]] < d[v]
    BY <2>1, <2>4, <2>5
  <2> QED BY <2>1, <2>2, <2>3, <2>6
<1> HIDE DEF c, d, s
<1>4. \A x \in 1 .. Size : c[x] \in Airports /\ c[x] \notin R /\ d[c[x]] < Infinity
  <2> DEFINE T == {x \in 1 .. Size : c[x] \in Airports /\ c[x] \notin R /\ d[c[x]] < Infinity}
  <2>1. 1 \in T
    BY <1>1, <1>2
  <2>2. ASSUME NEW x \in 1 .. Size - 1, x \in T PROVE x + 1 \in T
    <3>1. x + 1 \in 1 .. Size /\ c[x + 1] = IF c[x] = s THEN s ELSE prev[c[x]]
      BY <1>1
    <3>2. CASE c[x] = s
      BY <1>2, <3>1, <3>2
    <3>3. CASE c[x] # s
      BY <1>3, <2>2, <3>1, <3>3
    <3> QED BY <3>2, <3>3
  <2>3. \A x \in 1 .. Size : x \in T
    <3> HIDE DEF T
    <3> QED BY <1>1, <2>1, <2>2, RangeInduction
  <2> QED BY <2>3
<1>5. ASSUME NEW x \in 1 .. Size - 1, c[x] # s
      PROVE  /\ Allowed(c[x + 1], c[x], R, X) /\ d[c[x]] = d[c[x + 1]] + Weight(c[x + 1], c[x])
             /\ d[c[x + 1]] < d[c[x]]
  <2>1. c[x + 1] = prev[c[x]]
    BY <1>1, <1>5
  <2>2. x \in 1 .. Size
    BY <1>1
  <2> QED BY <1>3, <1>4, <1>5, <2>1, <2>2
<1>6. ASSUME NEW a \in 1 .. Size, NEW b \in 1 .. Size, a < b, \A y \in a .. b - 1 : c[y] # s
      PROVE  d[c[b]] < d[c[a]]
  <2> DEFINE T == {x \in 1 .. Size : d[c[x]] < d[c[a]]}
  <2>1. a + 1 \in T
    <3>1. a \in 1 .. Size - 1 /\ a \in a .. b - 1 /\ a + 1 \in 1 .. Size
      BY <1>1, <1>6
    <3> QED BY <1>5, <1>6, <3>1
  <2>2. ASSUME NEW x \in a + 1 .. b - 1, x \in T PROVE x + 1 \in T
    <3>1. x \in 1 .. Size - 1 /\ x \in a .. b - 1 /\ x + 1 \in 1 .. Size /\ x \in 1 .. Size
      BY <1>1
    <3>2. d[c[x + 1]] < d[c[x]] /\ d[c[x]] < d[c[a]]
      BY <1>5, <1>6, <2>2, <3>1
    <3>3. d[c[x + 1]] \in Nat /\ d[c[x]] \in Nat /\ d[c[a]] \in Nat
      BY <1>2, <1>4, <3>1
    <3> QED BY <3>1, <3>2, <3>3
  <2>3. a + 1 \in Nat /\ b \in Nat /\ b \in a + 1 .. b
    BY <1>6
  <2>4. \A x \in a + 1 .. b : x \in T
    <3> HIDE DEF T
    <3> QED BY <2>1, <2>2, <2>3, RangeInduction
  <2> QED BY <2>3, <2>4
<1>7. \E x \in 1 .. Size : c[x] = s
  <2> SUFFICES ASSUME \A x \in 1 .. Size : c[x] # s PROVE FALSE
    OBVIOUS
  <2>1. ASSUME NEW a \in 1 .. Size, NEW b \in 1 .. Size, a < b PROVE c[a] # c[b]
    <3>1. \A y \in a .. b - 1 : y \in 1 .. Size
      BY <1>1
    <3>2. d[c[b]] < d[c[a]]
      BY <1>6, <2>1, <3>1
    <3>3. d[c[a]] \in Nat
      BY <1>2, <1>4
    <3> QED BY <3>2, <3>3
  <2>2. \A x, y \in 1 .. Size : c[x] = c[y] => x = y
    <3> SUFFICES ASSUME NEW x \in 1 .. Size, NEW y \in 1 .. Size, c[x] = c[y] PROVE x = y
      OBVIOUS
    <3>1. x < y \/ y < x \/ x = y
      BY <1>1
    <3> QED BY <2>1, <3>1
  <2>3. c \in [1 .. Size -> Airports]
    BY <1>1, <1>4
  <2>4. \A a \in 1 .. Size + 1, b \in 0 .. Size :
          a <= b + 1 => /\ IsFiniteSet(Stretch(c, a, b))
                        /\ Cardinality(Stretch(c, a, b)) = b - a + 1
    <3>1. Size \in Nat
      BY <1>1
    <3> QED BY <2>2, <2>3, <3>1, StretchSize
  <2>5. 1 \in 1 .. Size + 1 /\ Size \in 0 .. Size /\ 1 <= Size + 1 /\ Size - 1 + 1 = Size
    BY <1>1
  <2>6. Cardinality(Stretch(c, 1, Size)) = Size
    BY <2>4, <2>5
  <2>7. Stretch(c, 1, Size) \in SUBSET (Airports \ {s})
    BY <1>4 DEF Stretch
  <2>8. IsFiniteSet(Airports \ {s}) /\ Cardinality(Airports \ {s}) = Size - 1
    BY <1>2, SizeFacts, FS_RemoveElement DEF Size
  <2>9. Size <= Size - 1
    BY <2>6, <2>7, <2>8, FS_Subset
  <2> QED BY <1>1, <2>9
<1>8. /\ L \in 1 .. Size /\ c[L] = s /\ L >= 2
      /\ \A x \in 1 .. L - 1 : x \in 1 .. Size - 1 /\ c[x] # s
  <2>1. S \in SUBSET Nat /\ S # {}
    BY <1>1, <1>7
  <2>2. L \in S /\ \A y \in S : L <= y
    <3> HIDE DEF S
    <3> QED BY <2>1, LeastOfNats
  <2>3. L \in 1 .. Size /\ c[L] = s
    BY <1>1, <2>2
  <2>4. L # 1
    BY <1>1, <1>2, <2>3
  <2> HIDE DEF L
  <2>5. ASSUME NEW x \in 1 .. L - 1 PROVE x \in 1 .. Size - 1 /\ c[x] # s
    <3>1. x \in 1 .. Size /\ x < L /\ x \in 1 .. Size - 1
      BY <1>1, <2>3
    <3>2. x \notin S
      BY <2>2, <2>3, <3>1
    <3> QED BY <1>1, <3>1, <3>2
  <2> QED BY <2>3, <2>4, <2>5
<1>9. Path = [x \in 1 .. L |-> c[L + 1 - x]]
  BY DEF Path, c, s
<1> HIDE DEF L, S
<1> DEFINE P == Path
<1>10. L \in Nat /\ \A x \in 1 .. L : L + 1 - x \in 1 .. L /\ L + 1 - x \in 1 .. Size
  BY <1>1, <1>8
<1>11. P \in [1 .. L -> Airports]
  BY <1>4, <1>9, <1>10
<1>12. P[1] = s /\ P[L] = Destination
  <2>1. 1 \in 1 .. L /\ L \in 1 .. L /\ L + 1 - 1 = L /\ L + 1 - L = 1
    BY <1>8, <1>10
  <2> QED BY <1>1, <1>8, <1>9, <2>1
<1>13. \A x \in 1 .. L : P[x] = c[L + 1 - x] /\ P[x] \notin R /\ d[P[x]] \in Nat
  <2> TAKE x \in 1 .. L
  <2>1. P[x] = c[L + 1 - x]
    BY <1>9
  <2> HIDE DEF P
  <2> QED BY <1>2, <1>4, <1>10, <2>1
<1> HIDE DEF P
<1>14. ASSUME NEW x \in 1 .. L - 1
       PROVE  /\ Allowed(P[x], P[x + 1], R, X)
              /\ d[P[x + 1]] = d[P[x]] + Weight(P[x], P[x + 1])
  <2> DEFINE y == L + 1 - (x + 1)
  <2>1. y \in 1 .. L - 1 /\ y + 1 = L + 1 - x /\ x \in 1 .. L /\ x + 1 \in 1 .. L
    BY <1>10
  <2>2. P[x + 1] = c[y] /\ P[x] = c[L + 1 - x]
    BY <1>13, <2>1
  <2>3. P[x] = c[y + 1]
    BY <2>1, <2>2
  <2> HIDE DEF y
  <2>4. y \in 1 .. Size - 1 /\ c[y] # s
    BY <1>8, <2>1
  <2> QED BY <1>5, <2>2, <2>3, <2>4
<1>15. ASSUME NEW x \in 1 .. L, NEW y \in 1 .. L, x < y PROVE P[x] # P[y]
  <2> DEFINE a == L + 1 - y
             b == L + 1 - x
  <2>1. a \in 1 .. L /\ b \in 1 .. L /\ a < b /\ a \in 1 .. Size /\ b \in 1 .. Size
    BY <1>10, <1>15
  <2>2. P[x] = c[b] /\ P[y] = c[a]
    BY <1>13
  <2> HIDE DEF a, b
  <2>3. \A z \in a .. b - 1 : z \in 1 .. L - 1
    BY <1>10, <2>1
  <2>4. d[c[b]] < d[c[a]]
    BY <1>6, <1>8, <2>1, <2>3
  <2>5. d[c[a]] \in Nat
    BY <1>2, <1>4, <2>1
  <2> QED BY <2>2, <2>4, <2>5
<1>16. \A x, y \in 1 .. L : P[x] = P[y] => x = y
  <2> SUFFICES ASSUME NEW x \in 1 .. L, NEW y \in 1 .. L, P[x] = P[y] PROVE x = y
    OBVIOUS
  <2>1. x < y \/ y < x \/ x = y
    BY <1>10
  <2> QED BY <1>15, <2>1
<1>17. IsPath(P, L, d, s, R, X)
  BY <1>8, <1>10, <1>11, <1>12, <1>13, <1>14, <1>16 DEF IsPath
<1> QED BY <1>17 DEF P, d, s

(***************************************************************************)
(* Suggestions: the candidates of the spur searches.                       *)
(***************************************************************************)
Shares(r, q, j) == j <= Len(r) /\ j <= Len(q) /\ \A x \in 1 .. j : r[x] = q[x]

(* The last of the routes found.                                           *)
LEMMA Lasts ==
  ASSUME NEW a \in Seq(Routes), a # <<>>
  PROVE  /\ Len(a) \in Nat /\ Len(a) >= 1 /\ a[Len(a)] \in Routes /\ a[Len(a)] \in ToSet(a)
         /\ ToSet(a) \in SUBSET Routes
<1>1. Len(a) \in Nat /\ Len(a) >= 1 /\ Len(a) \in DOMAIN a
  OBVIOUS
<1> QED BY <1>1 DEF ToSet

(* The node a spur leaves its route at is none of those before it. *)
LEMMA SpurNodes ==
  ASSUME NEW r \in Routes, NEW m \in 1 .. Len(r) - 1
  PROVE  /\ ToSet(SubSeq(r, 1, m)) = {r[x] : x \in 1 .. m}
         /\ ToSet(SubSeq(r, 1, m)) \ {r[m]} = {r[x] : x \in 1 .. m - 1}
         /\ r[m] \in Airports /\ r[m] # Destination
         /\ r[m] \notin {r[x] : x \in 1 .. m - 1}
         /\ Destination \notin {r[x] : x \in 1 .. m}
<1> DEFINE n == Len(r)
<1>1. /\ r \in Seq(Airports) /\ DOMAIN r = 1 .. n /\ r \in [1 .. n -> Airports]
      /\ \A x, y \in 1 .. n : r[x] = r[y] => x = y
      /\ r[n] = Destination
  BY RouteFacts DEF IsRoute
<1>2. m \in Nat /\ m >= 1 /\ m < n /\ n \in Nat
  BY RouteFacts DEF IsRoute
<1>3. ToSet(SubSeq(r, 1, m)) = {r[x] : x \in 1 .. m}
  <2>1. SubSeq(r, 1, m) = [x \in 1 .. m |-> r[x]]
    BY <1>1, <1>2
  <2> QED BY <2>1 DEF ToSet
<1> HIDE DEF n
<1>4. \A x \in 1 .. m : x \in 1 .. n /\ (x # m => x \in 1 .. m - 1) /\ x # n
  BY <1>2
<1>5. \A x \in 1 .. m - 1 : x \in 1 .. m /\ x # m
  BY <1>2
<1>6. m \in 1 .. m /\ m \in 1 .. n /\ n \in 1 .. n
  BY <1>2
<1>7. \A x, y \in 1 .. n : r[x] = r[y] => x = y
  BY <1>1
<1>8. Destination \notin {r[x] : x \in 1 .. m} /\ r[m] # Destination
  <2>1. ASSUME NEW x \in 1 .. m PROVE r[x] # Destination
    BY <1>1, <1>4, <1>6, <1>7
  <2> QED BY <1>6, <2>1
<1>9. r[m] \notin {r[x] : x \in 1 .. m - 1}
  BY <1>4, <1>5, <1>6, <1>7
<1>10. {r[x] : x \in 1 .. m} \ {r[m]} = {r[x] : x \in 1 .. m - 1}
  BY <1>4, <1>5, <1>9
<1>11. r[m] \in Airports
  BY <1>1, <1>6
<1> QED BY <1>3, <1>8, <1>9, <1>10, <1>11

(* The path of the first search is a route and costs what the tables say. *)
LEMMA PathIsRoute ==
  ASSUME Priced, NEW P, NEW l, NEW d, NEW X, d[Origin] = 0, IsPath(P, l, d, Origin, {}, X)
  PROVE  IsRoute(P, l) /\ Cost(P) = d[Destination]
<1>1. /\ l \in Nat /\ l >= 2 /\ P \in [1 .. l -> Airports]
      /\ P[1] = Origin /\ P[l] = Destination
      /\ \A x, y \in 1 .. l : P[x] = P[y] => x = y
  BY DEF IsPath
<1>2. \A x \in 1 .. l - 1 : /\ Served(P[x], P[x + 1])
                            /\ d[P[x + 1]] = d[P[x]] + Weight(P[x], P[x + 1])
  BY DEF IsPath, Allowed
<1>3. IsRoute(P, l)
  BY <1>1, <1>2 DEF IsRoute
<1>4. Len(P) = l /\ DOMAIN P = 1 .. l
  BY <1>1
<1> DEFINE T == {x \in 1 .. l : Costs(P)[x] = d[P[x]]}
<1>5. 1 \in T
  BY <1>1, <1>4, CostsSteps
<1>6. ASSUME NEW x \in 1 .. l - 1, x \in T PROVE x + 1 \in T
  <2>1. Costs(P)[x + 1] = Costs(P)[x] + Weight(P[x], P[x + 1])
    BY <1>1, <1>4, CostsSteps
  <2>2. x + 1 \in 1 .. l
    BY <1>1
  <2> QED BY <1>2, <1>6, <2>1, <2>2
<1>7. \A x \in 1 .. l : x \in T
  <2> HIDE DEF T
  <2> QED BY <1>1, <1>5, <1>6, RangeInduction
<1>8. l \in 1 .. l
  BY <1>1
<1> QED BY <1>1, <1>3, <1>4, <1>7, <1>8 DEF Cost

(* The path of a later one, joined to the root it leaves, is a route too.  *)
Earlier(r, m)  == {r[x] : x \in 1 .. m - 1}
Join(r, m, P) == SubSeq(r, 1, m - 1) \o P

Joined(C, r, m, l, d, X) ==
  /\ IsRoute(C, m - 1 + l) /\ Shares(C, r, m) /\ m < Len(C)
  /\ <<C[m], C[m + 1]>> \notin X
  /\ Cost(C) = Costs(r)[m] + d[Destination]

LEMMA JoinIsRoute ==
  ASSUME Priced, NEW r \in Routes, NEW m \in 1 .. Len(r) - 1, NEW P, NEW l, NEW d, NEW X,
         d[r[m]] = 0, IsPath(P, l, d, r[m], Earlier(r, m), X)
  PROVE  Joined(Join(r, m, P), r, m, l, d, X)
<1> DEFINE R == {r[x] : x \in 1 .. m - 1}
           C == Join(r, m, P)
           n == m - 1 + l
<1>1. /\ r \in Seq(Airports) /\ DOMAIN r = 1 .. Len(r) /\ Len(r) \in Nat
      /\ r \in [1 .. Len(r) -> Airports]
      /\ \A x, y \in 1 .. Len(r) : r[x] = r[y] => x = y
      /\ r[1] = Origin
      /\ \A x \in 1 .. Len(r) - 1 : Served(r[x], r[x + 1])
  BY RouteFacts DEF IsRoute
<1>2. /\ l \in Nat /\ l >= 2 /\ P \in [1 .. l -> Airports]
      /\ P[1] = r[m] /\ P[l] = Destination
      /\ \A x, y \in 1 .. l : P[x] = P[y] => x = y
      /\ \A x \in 1 .. l : P[x] \notin R /\ d[P[x]] \in Nat
  BY DEF IsPath, Earlier
<1>3. \A x \in 1 .. l - 1 : /\ Served(P[x], P[x + 1]) /\ <<P[x], P[x + 1]>> \notin X
                            /\ d[P[x + 1]] = d[P[x]] + Weight(P[x], P[x + 1])
  BY DEF IsPath, Allowed
<1>4. m \in Nat /\ m >= 1 /\ m < Len(r) /\ n \in Nat /\ n >= 2 /\ m < n
  BY <1>1, <1>2
<1>5. /\ DOMAIN C = 1 .. n /\ Len(C) = n /\ C \in [1 .. n -> Airports]
      /\ \A x \in 1 .. m - 1 : C[x] = r[x]
      /\ \A x \in 1 .. l : C[m - 1 + x] = P[x]
  <2>1. P \in Seq(Airports) /\ Len(P) = l
    BY <1>2
  <2>2. /\ SubSeq(r, 1, m - 1) \in Seq(Airports) /\ Len(SubSeq(r, 1, m - 1)) = m - 1
        /\ \A x \in 1 .. m - 1 : SubSeq(r, 1, m - 1)[x] = r[x]
    BY <1>1, <1>4
  <2> DEFINE s == SubSeq(r, 1, m - 1)
  <2> HIDE DEF s
  <2>3. s \o P \in Seq(Airports) /\ Len(s \o P) = n
    BY <2>1, <2>2, <1>4 DEF s
  <2>4. \A x \in 1 .. m - 1 : (s \o P)[x] = s[x]
    BY <2>1, <2>2, <1>4 DEF s
  <2>5. \A x \in 1 .. l : (s \o P)[m - 1 + x] = P[x]
    BY <2>1, <2>2, <1>2, <1>4 DEF s
  <2>6. DOMAIN (s \o P) = 1 .. n /\ s \o P \in [1 .. n -> Airports]
    <3> DEFINE e == s \o P
    <3> HIDE DEF e, n
    <3>1. e \in Seq(Airports) /\ Len(e) = n
      BY <2>3 DEF e
    <3>2. DOMAIN e = 1 .. n /\ e \in [1 .. n -> Airports]
      BY <3>1
    <3> QED BY <3>2 DEF e
  <2>7. \A x \in 1 .. m - 1 : (s \o P)[x] = r[x]
    BY <2>2, <2>4 DEF s
  <2>8. C = s \o P
    BY DEF s, Join
  <2> HIDE DEF C, n
  <2> QED BY <2>3, <2>5, <2>6, <2>7, <2>8
<1> HIDE DEF C, n
<1>6. \A x \in 1 .. m : C[x] = r[x]
  <2> TAKE x \in 1 .. m
  <2>1. x # m => x \in 1 .. m - 1
    BY <1>4
  <2>2. 1 \in 1 .. l /\ m - 1 + 1 = m
    BY <1>2, <1>4
  <2> QED BY <1>2, <1>5, <2>1, <2>2
<1>7. ASSUME NEW x \in 1 .. n, x >= m
      PROVE  x - m + 1 \in 1 .. l /\ C[x] = P[x - m + 1]
  <2>1. x - m + 1 \in 1 .. l /\ m - 1 + (x - m + 1) = x
    BY <1>2, <1>4, <1>7 DEF n
  <2> QED BY <1>5, <2>1
<1>8. ASSUME NEW x \in 1 .. n - 1 PROVE Served(C[x], C[x + 1])
  <2>1. CASE x < m
    <3>1. x \in 1 .. m /\ x + 1 \in 1 .. m /\ x \in 1 .. Len(r) - 1
      BY <1>1, <1>4, <2>1
    <3> QED BY <1>1, <1>6, <3>1
  <2>2. CASE x >= m
    <3>1. x \in 1 .. n /\ x + 1 \in 1 .. n /\ x + 1 >= m /\ x + 1 - m + 1 = x - m + 1 + 1
      BY <1>4, <2>2
    <3>2. C[x] = P[x - m + 1] /\ C[x + 1] = P[x - m + 1 + 1]
      BY <1>7, <2>2, <3>1
    <3>3. x - m + 1 \in 1 .. l - 1
      BY <1>2, <1>4, <2>2 DEF n
    <3> QED BY <1>3, <3>2, <3>3
  <2> QED BY <1>4, <2>1, <2>2
<1>9. ASSUME NEW x \in 1 .. n, NEW y \in 1 .. n, x < y PROVE C[x] # C[y]
  <2>1. CASE y < m
    <3>1. x \in 1 .. m /\ y \in 1 .. m /\ x \in 1 .. Len(r) /\ y \in 1 .. Len(r) /\ x # y
      BY <1>1, <1>4, <1>9, <2>1
    <3> QED BY <1>1, <1>6, <3>1
  <2>2. CASE x < m /\ y >= m
    <3>1. x \in 1 .. m - 1 /\ x \in 1 .. m
      BY <1>4, <2>2
    <3>2. C[x] \in R
      BY <1>6, <3>1
    <3>3. C[y] \notin R
      <4>1. y - m + 1 \in 1 .. l /\ C[y] = P[y - m + 1]
        BY <1>7, <2>2
      <4> HIDE DEF R
      <4> QED BY <1>2, <4>1
    <3> QED BY <3>2, <3>3
  <2>3. CASE x >= m
    <3>1. y >= m /\ x - m + 1 # y - m + 1
      BY <1>4, <1>9, <2>3
    <3>2. /\ x - m + 1 \in 1 .. l /\ C[x] = P[x - m + 1]
          /\ y - m + 1 \in 1 .. l /\ C[y] = P[y - m + 1]
      BY <1>7, <2>3, <3>1
    <3> QED BY <1>2, <3>1, <3>2
  <2> QED BY <1>4, <2>1, <2>2, <2>3
<1>10. \A x, y \in 1 .. n : C[x] = C[y] => x = y
  <2> SUFFICES ASSUME NEW x \in 1 .. n, NEW y \in 1 .. n, C[x] = C[y] PROVE x = y
    OBVIOUS
  <2>1. x < y \/ y < x \/ x = y
    BY <1>4
  <2> QED BY <1>9, <2>1
<1>11. C[1] = Origin /\ C[n] = Destination
  <2>1. 1 \in 1 .. m /\ n \in 1 .. n /\ n >= m
    BY <1>4
  <2>2. n - m + 1 = l
    <3>1. l \in Nat /\ m \in Nat
      BY <1>2, <1>4
    <3> QED BY <3>1 DEF n
  <2> QED BY <1>1, <1>2, <1>6, <1>7, <2>1, <2>2
<1>12. IsRoute(C, n)
  BY <1>4, <1>5, <1>8, <1>10, <1>11 DEF IsRoute
<1>13. Shares(C, r, m) /\ m < Len(C)
  BY <1>1, <1>4, <1>5, <1>6 DEF Shares
<1>14. <<C[m], C[m + 1]>> \notin X
  <2>1. 1 \in 1 .. l - 1 /\ 1 \in 1 .. l /\ 1 + 1 \in 1 .. l /\ m - 1 + 1 = m /\ m - 1 + (1 + 1) = m + 1
    BY <1>2, <1>4
  <2>2. C[m - 1 + 1] = P[1] /\ C[m - 1 + (1 + 1)] = P[1 + 1]
    BY <1>5, <2>1
  <2>3. <<P[1], P[1 + 1]>> \notin X
    BY <1>3, <2>1
  <2> QED BY <2>1, <2>2, <2>3
<1> DEFINE T == {x \in 1 .. l : Costs(C)[m - 1 + x] = Costs(r)[m] + d[P[x]]}
<1>15. \A x \in 1 .. m : Costs(C)[x] = Costs(r)[x]
  <2>1. Len(r) \in Nat /\ DOMAIN r = 1 .. Len(r) /\ DOMAIN C = 1 .. n
    BY <1>1, <1>5
  <2>2. m \in Nat /\ 1 <= m /\ m <= n /\ m <= Len(r) /\ n \in Nat
    BY <1>1, <1>4
  <2>3. Agree(C, n, r, Len(r), m)
    BY <1>6, <2>1, <2>2 DEF Agree
  <2> QED BY <2>3, CostsAgree
<1>16. Costs(r)[m] \in Nat
  <2>1. m \in 1 .. Len(r)
    BY <1>1, <1>4
  <2> QED BY <2>1, RouteCosts
<1>17. 1 \in T
  <2>1. m \in 1 .. m /\ m - 1 + 1 = m /\ 1 \in 1 .. l
    BY <1>2, <1>4
  <2>2. Costs(C)[m - 1 + 1] = Costs(r)[m]
    BY <1>15, <2>1
  <2>3. d[P[1]] = 0
    BY <1>2
  <2> QED BY <1>16, <2>1, <2>2, <2>3
<1>18. ASSUME NEW x \in 1 .. l - 1, x \in T PROVE x + 1 \in T
  <2>1. x \in 1 .. l /\ x + 1 \in 1 .. l /\ m - 1 + x \in 1 .. n - 1 /\ m - 1 + (x + 1) = m - 1 + x + 1
    BY <1>2, <1>4 DEF n
  <2>2. Costs(C)[m - 1 + x + 1] = Costs(C)[m - 1 + x] + Weight(C[m - 1 + x], C[m - 1 + x + 1])
    <3>1. \A y \in 1 .. n - 1 : Costs(C)[y + 1] = Costs(C)[y] + Weight(C[y], C[y + 1])
      <4>1. n \in Nat /\ DOMAIN C = 1 .. n
        BY <1>4, <1>5
      <4> QED BY <4>1, CostsSteps
    <3> QED BY <2>1, <3>1
  <2>3. C[m - 1 + x] = P[x] /\ C[m - 1 + x + 1] = P[x + 1]
    BY <1>5, <2>1
  <2>4. Costs(C)[m - 1 + x] = Costs(r)[m] + d[P[x]]
    BY <1>18
  <2>5. d[P[x + 1]] = d[P[x]] + Weight(P[x], P[x + 1])
    BY <1>3
  <2>6. Weight(P[x], P[x + 1]) \in Nat /\ d[P[x]] \in Nat
    <3>1. P[x] \in Airports /\ P[x + 1] \in Airports
      BY <1>2, <2>1
    <3> QED BY <1>2, <2>1, <3>1, WeightFacts
  <2>7. Costs(C)[m - 1 + (x + 1)] = Costs(r)[m] + d[P[x + 1]]
    <3>1. \A e, f, g \in Nat : (e + f) + g = e + (f + g)
      OBVIOUS
    <3> QED BY <1>16, <2>1, <2>2, <2>3, <2>4, <2>5, <2>6, <3>1
  <2> QED BY <2>1, <2>7
<1>19. \A x \in 1 .. l : x \in T
  <2> HIDE DEF T
  <2> QED BY <1>2, <1>17, <1>18, RangeInduction
<1>20. Cost(C) = Costs(r)[m] + d[Destination]
  <2>1. l \in 1 .. l /\ m - 1 + l = n
    BY <1>2 DEF n
  <2> QED BY <1>2, <1>5, <1>19, <2>1 DEF Cost
<1> QED BY <1>12, <1>13, <1>14, <1>20 DEF C, n, Joined

(***************************************************************************)
(* Suggestions: the routes found (a), the candidates (b) and the next spur *)
(* (m) of Yen's algorithm.                                                 *)
(***************************************************************************)
PriceOf == [r \in Routes |-> Cost(r)]

(* How long a route goes along with those found, and no longer. *)
Deepest(a, q, j) ==
  /\ \E r \in ToSet(a) : Shares(r, q, j)
  /\ \A r \in ToSet(a) : ~Shares(r, q, j + 1)

(* No route to come is better than a candidate that leaves the routes      *)
(* found where it does, unless that spur is still to be searched.          *)
Covered(b, q, j) == \E c \in b : Shares(c, q, j) /\ PriceOf[c] <= PriceOf[q]

Covers(a, b, m) ==
  \A q \in Routes \ ToSet(a) : \A j \in 1 .. Len(q) - 1 :
    Deepest(a, q, j) => Covered(b, q, j) \/ (Shares(a[Len(a)], q, j) /\ j >= m)

BestOnes(a) ==
  /\ a \in Seq(Routes) /\ Len(a) <= K
  /\ \A x, y \in 1 .. Len(a) : a[x] = a[y] => x = y
  /\ \A x \in 2 .. Len(a) : PriceOf[a[x - 1]] <= PriceOf[a[x]]
  /\ \A q \in Routes \ ToSet(a) : \A x \in 1 .. Len(a) : PriceOf[a[x]] <= PriceOf[q]

YenOK(a, b, m) ==
  /\ BestOnes(a) /\ b \in SUBSET (Routes \ ToSet(a)) /\ m \in Nat
  /\ m = 0 => a = <<>> /\ b = {}
  /\ m # 0 => a # <<>> /\ m \in 1 .. Len(a[Len(a)]) - 1 /\ Covers(a, b, m)

(* Every route has a price.                                                *)
LEMMA Prices ==
  ASSUME Priced, NEW r \in Routes
  PROVE  PriceOf[r] = Cost(r) /\ PriceOf[r] \in Nat
BY RouteCosts DEF PriceOf

(* A route that is not found yet leaves those found somewhere. *)
LEMMA DeepestExists ==
  ASSUME NEW a \in Seq(Routes), a # <<>>, NEW q \in Routes \ ToSet(a)
  PROVE  \E j \in 1 .. Len(q) - 1 : Deepest(a, q, j)
<1> DEFINE n == Len(q)
           T == {j \in 1 .. n : \E r \in ToSet(a) : Shares(r, q, j)}
<1>1. n \in Nat /\ n >= 2 /\ q[1] = Origin /\ q[n] = Destination /\ q \in [1 .. n -> Airports]
  BY RouteFacts DEF IsRoute
<1>2. \A r \in ToSet(a) : r \in Routes
  BY Lasts
<1>3. ASSUME NEW r \in Routes
      PROVE  /\ Len(r) \in Nat /\ Len(r) >= 2 /\ r[1] = Origin /\ r[Len(r)] = Destination
             /\ r \in [1 .. Len(r) -> Airports]
             /\ \A x, y \in 1 .. Len(r) : r[x] = r[y] => x = y
  BY RouteFacts DEF IsRoute
<1> SUFFICES ASSUME \A j \in 1 .. n - 1 : ~Deepest(a, q, j) PROVE FALSE
  OBVIOUS
<1> HIDE DEF n
<1>4. 1 \in T
  <2>1. PICK r \in ToSet(a) : TRUE
    BY Lasts
  <2>2. r \in Routes
    BY <1>2
  <2>3. 1 <= Len(r) /\ 1 <= n /\ r[1] = q[1] /\ 1 \in 1 .. n
    BY <1>1, <1>3, <2>2
  <2>4. \A x \in 1 .. 1 : r[x] = q[x]
    BY <2>3
  <2>5. Shares(r, q, 1)
    BY <2>3, <2>4 DEF Shares, n
  <2> QED BY <2>3, <2>5
<1>5. ASSUME NEW j \in 1 .. n - 1, j \in T PROVE j + 1 \in T
  <2>1. \E r \in ToSet(a) : Shares(r, q, j + 1)
    BY <1>5 DEF Deepest
  <2>2. j + 1 \in 1 .. n
    BY <1>1
  <2> QED BY <2>1, <2>2
<1>6. n \in T
  <2>1. n \in 1 .. n
    BY <1>1
  <2>2. \A j \in 1 .. n : j \in T
    <3> HIDE DEF T
    <3> QED BY <1>1, <1>4, <1>5, RangeInduction
  <2> QED BY <2>1, <2>2
<1>7. PICK r \in ToSet(a) : Shares(r, q, n)
  BY <1>6
<1>8. n <= Len(r) /\ \A x \in 1 .. n : r[x] = q[x]
  BY <1>7 DEF Shares
<1>9. r \in Routes
  BY <1>2
<1>10. Len(r) = n
  <2>1. n \in 1 .. Len(r) /\ Len(r) \in 1 .. Len(r) /\ n \in 1 .. n
    BY <1>1, <1>3, <1>8, <1>9
  <2>2. r[n] = r[Len(r)]
    BY <1>1, <1>3, <1>8, <1>9, <2>1
  <2> QED BY <1>3, <1>9, <2>1, <2>2
<1>11. r = q
  <2>1. r \in [1 .. n -> Airports] /\ q \in [1 .. n -> Airports]
    BY <1>1, <1>3, <1>9, <1>10
  <2>2. r = [x \in 1 .. n |-> r[x]] /\ q = [x \in 1 .. n |-> q[x]]
    BY <2>1
  <2>3. [x \in 1 .. n |-> r[x]] = [x \in 1 .. n |-> q[x]]
    BY <1>8
  <2> QED BY <2>2, <2>3
<1> QED BY <1>11

(* A route shared up to its end is the other one, and so is not left there. *)
LEMMA SharedBefore ==
  ASSUME NEW r \in Routes, NEW q \in Routes, NEW j \in 1 .. Len(q) - 1, Shares(r, q, j)
  PROVE  j < Len(r)
<1>1. /\ Len(r) \in Nat /\ r[Len(r)] = Destination /\ Len(q) \in Nat /\ q[Len(q)] = Destination
      /\ \A x, y \in 1 .. Len(q) : q[x] = q[y] => x = y
  BY RouteFacts DEF IsRoute
<1>2. j <= Len(r) /\ \A x \in 1 .. j : r[x] = q[x]
  BY DEF Shares
<1> SUFFICES ASSUME j = Len(r) PROVE FALSE
  BY <1>1, <1>2
<1>3. j \in 1 .. j
  BY <1>1
<1>4. q[j] = Destination /\ j \in 1 .. Len(q) /\ Len(q) \in 1 .. Len(q) /\ j # Len(q)
  BY <1>1, <1>2, <1>3
<1> QED BY <1>1, <1>4

(* Once every spur of the last route was searched, no candidate means that *)
(* all routes are found ...                                                *)
LEMMA NoCandidate ==
  ASSUME NEW a \in Seq(Routes), a # <<>>, Covers(a, {}, Len(a[Len(a)]))
  PROVE  Routes \in SUBSET ToSet(a)
<1> SUFFICES ASSUME NEW q \in Routes \ ToSet(a) PROVE FALSE
  OBVIOUS
<1>1. PICK j \in 1 .. Len(q) - 1 : Deepest(a, q, j)
  BY DeepestExists
<1>2. Shares(a[Len(a)], q, j) /\ j >= Len(a[Len(a)])
  BY <1>1 DEF Covers, Covered
<1>3. j < Len(a[Len(a)])
  BY <1>2, Lasts, SharedBefore
<1>4. j \in Nat /\ Len(a[Len(a)]) \in Nat
  BY Lasts, RouteFacts DEF IsRoute
<1> QED BY <1>2, <1>3, <1>4

(* ... and the cheapest candidate is the next best route. *)
LEMMA NextBest ==
  ASSUME Priced, NEW a, NEW b \in SUBSET (Routes \ ToSet(a)), BestOnes(a), a # <<>>, Len(a) < K,
         Covers(a, b, Len(a[Len(a)])),
         NEW r \in b, \A q \in b : Cost(r) <= Cost(q)
  PROVE  YenOK(Append(a, r), b \ {r}, 1)
<1> DEFINE n == Len(a)
           e == Append(a, r)
<1>1. /\ a \in Seq(Routes) /\ n \in Nat /\ n >= 1 /\ n + 1 <= K
      /\ \A x, y \in 1 .. n : a[x] = a[y] => x = y
      /\ \A x \in 2 .. n : PriceOf[a[x - 1]] <= PriceOf[a[x]]
      /\ \A q \in Routes \ ToSet(a) : \A x \in 1 .. n : PriceOf[a[x]] <= PriceOf[q]
  BY SizeFacts, Lasts DEF BestOnes
<1>2. r \in Routes /\ r \notin ToSet(a)
  OBVIOUS
<1>3. \A q \in b : PriceOf[r] <= PriceOf[q]
  BY Prices
<1>4. /\ e \in Seq(Routes) /\ Len(e) = n + 1 /\ e[n + 1] = r /\ e # <<>>
      /\ \A x \in 1 .. n : e[x] = a[x]
  BY <1>1, <1>2
<1>5. ToSet(e) = ToSet(a) \union {r}
  <2>1. DOMAIN a = 1 .. n /\ DOMAIN e = 1 .. n + 1
    BY <1>1, <1>4
  <2>2. 1 .. n + 1 = (1 .. n) \union {n + 1}
    BY <1>1
  <2> HIDE DEF e, n
  <2> QED BY <1>4, <2>1, <2>2 DEF ToSet
<1>6. \A x \in 1 .. n : a[x] \in ToSet(a) /\ a[x] \in Routes
  BY <1>1 DEF ToSet
<1>6a. ASSUME NEW q \in Routes, NEW j \in 1 .. Len(q) - 1
       PROVE  ~(Shares(a[Len(a)], q, j) /\ j >= Len(a[Len(a)]))
  <2> SUFFICES ASSUME Shares(a[Len(a)], q, j), j >= Len(a[Len(a)]) PROVE FALSE
    OBVIOUS
  <2>1. a[Len(a)] \in Routes
    BY <1>1, Lasts
  <2>2. j < Len(a[Len(a)])
    BY <2>1, SharedBefore
  <2>3. j \in Nat /\ Len(a[Len(a)]) \in Nat
    BY <2>1, RouteFacts DEF IsRoute
  <2> QED BY <2>2, <2>3
<1> HIDE DEF e, n
<1>7. ASSUME NEW x \in 1 .. n + 1 PROVE x = n + 1 \/ x \in 1 .. n
  BY <1>1
<1>8. \A x, y \in 1 .. n + 1 : e[x] = e[y] => x = y
  BY <1>1, <1>2, <1>4, <1>6, <1>7
<1>9. ASSUME NEW x \in 2 .. n + 1 PROVE PriceOf[e[x - 1]] <= PriceOf[e[x]]
  <2>1. CASE x = n + 1
    <3>1. x - 1 = n /\ n \in 1 .. n
      BY <1>1, <2>1
    <3>2. PriceOf[a[n]] <= PriceOf[r]
      BY <1>1, <1>2, <3>1
    <3> QED BY <1>4, <2>1, <3>1, <3>2
  <2>2. CASE x # n + 1
    <3>1. x \in 2 .. n /\ x \in 1 .. n /\ x - 1 \in 1 .. n
      BY <1>1, <2>2
    <3> QED BY <1>1, <1>4, <3>1
  <2> QED BY <2>1, <2>2
<1>10. ASSUME NEW q \in Routes \ ToSet(e), NEW x \in 1 .. n + 1 PROVE PriceOf[e[x]] <= PriceOf[q]
  <2>1. q \in Routes \ ToSet(a)
    BY <1>5
  <2>2. CASE x \in 1 .. n
    BY <1>1, <1>4, <2>1, <2>2
  <2>3. CASE x = n + 1
    <3>1. PICK j \in 1 .. Len(q) - 1 : Deepest(a, q, j)
      BY <1>1, <2>1, DeepestExists
    <3>2. Covered(b, q, j)
      BY <1>6a, <2>1, <3>1 DEF Covers
    <3>3. PICK c \in b : PriceOf[c] <= PriceOf[q]
      BY <3>2 DEF Covered
    <3>4. PriceOf[r] <= PriceOf[c]
      BY <1>3
    <3>5. PriceOf[r] \in Nat /\ PriceOf[c] \in Nat /\ PriceOf[q] \in Nat
      BY <2>1, Prices
    <3> QED BY <1>4, <2>3, <3>3, <3>4, <3>5
  <2> QED BY <1>7, <2>2, <2>3
<1>11. BestOnes(e)
  BY <1>1, <1>4, <1>8, <1>9, <1>10 DEF BestOnes
<1>12. b \ {r} \in SUBSET (Routes \ ToSet(e))
  BY <1>5
<1>13. 1 \in 1 .. Len(e[Len(e)]) - 1
  <2>1. Len(r) \in Nat /\ Len(r) >= 2
    BY <1>2, RouteFacts DEF IsRoute
  <2> QED BY <1>4, <2>1
<1>14. ASSUME NEW q \in Routes \ ToSet(e), NEW j \in 1 .. Len(q) - 1, Deepest(e, q, j)
       PROVE  Covered(b \ {r}, q, j) \/ (Shares(r, q, j) /\ j >= 1)
  <2>1. CASE Shares(r, q, j)
    BY <2>1
  <2>2. CASE ~Shares(r, q, j)
    <3>1. Deepest(a, q, j)
      BY <1>5, <1>14, <2>2 DEF Deepest
    <3>2. q \in Routes \ ToSet(a)
      BY <1>5
    <3>3. Covered(b, q, j)
      BY <1>6a, <3>1, <3>2 DEF Covers
    <3>4. PICK c \in b : Shares(c, q, j) /\ PriceOf[c] <= PriceOf[q]
      BY <3>3 DEF Covered
    <3> QED BY <2>2, <3>4 DEF Covered
  <2> QED BY <2>1, <2>2
<1>15. Covers(e, b \ {r}, 1)
  BY <1>4, <1>14 DEF Covers
<1>16. YenOK(e, b \ {r}, 1)
  BY <1>4, <1>11, <1>12, <1>13, <1>15 DEF YenOK
<1> QED BY <1>16 DEF e

(***************************************************************************)
(* Suggestions: what the two kinds of searches find.                       *)
(***************************************************************************)
Searching == SearchOK(dist, prev, unvisited, Source, RemovedNodes, RemovedArcs)

(* The first search finds a route that costs no more than any, or there is *)
(* none.                                                                   *)
LEMMA FirstSearch ==
  ASSUME Priced, Origin # Destination, i = 0, Searching, SearchEnds
  PROVE  /\ Found => Path \in Routes /\ \A q \in Routes : Cost(Path) <= Cost(q)
         /\ ~Found => Routes = {}
<1>1. Source = Origin /\ RemovedNodes = {} /\ RemovedArcs = {}
  BY DEF Source, RemovedNodes, RemovedArcs
<1>2. SearchOK(dist, prev, unvisited, Origin, {}, {})
  BY <1>1 DEF Searching
<1>3. Ended(dist, unvisited)
  BY <1>2, SearchEnded
<1>4. ASSUME NEW q \in Routes PROVE dist[Destination] < Infinity /\ dist[Destination] <= Cost(q)
  <2>1. /\ Len(q) \in Nat /\ Len(q) >= 2 /\ q[1] = Origin /\ DOMAIN q = 1 .. Len(q)
        /\ \A x \in 1 .. Len(q) - 1 : Served(q[x], q[x + 1]) /\ q[x] # q[x + 1]
    BY RouteFacts DEF IsRoute
  <2>2. \A x \in 1 .. Len(q) - 1 : Allowed(q[x], q[x + 1], {}, {})
    BY <2>1 DEF Allowed
  <2>3. 1 \in 1 .. Len(q) - 1
    BY <2>1
  <2>4. dist[Destination] < Infinity /\ Costs(q)[1] + dist[Destination] <= Cost(q)
    BY <1>2, <1>3, <2>1, <2>2, <2>3, SearchLower
  <2>5. Costs(q)[1] = 0
    BY <2>1, CostsSteps
  <2>6. dist[Destination] \in Nat
    BY <1>2, SizeFacts DEF SearchOK
  <2> QED BY <2>4, <2>5, <2>6
<1>5. ASSUME Found PROVE Path \in Routes /\ Cost(Path) = dist[Destination]
  <2>1. PICK l : IsPath(Path, l, dist, Origin, {}, {})
    BY <1>1, <1>2, <1>5, SearchPath
  <2>2. dist[Origin] = 0
    BY <1>2 DEF SearchOK
  <2>3. IsRoute(Path, l) /\ Cost(Path) = dist[Destination]
    BY <2>1, <2>2, PathIsRoute
  <2> QED BY <2>3, RouteIs
<1> QED BY <1>4, <1>5 DEF Found

(* The arcs a spur search does without are those by which the routes found *)
(* go on from the same root.                                               *)
LEMMA RemovedAre ==
  ASSUME A \in Seq(Routes), A # <<>>, i \in 1 .. Len(A[Len(A)]) - 1
  PROVE  /\ \A r \in ToSet(A) : Shares(r, A[Len(A)], i) /\ i < Len(r)
              => <<r[i], r[i + 1]>> \in RemovedArcs
         /\ \A e \in RemovedArcs : \E r \in ToSet(A) :
              Shares(r, A[Len(A)], i) /\ e = <<r[i], r[i + 1]>>
<1> DEFINE l == A[Len(A)]
<1>1. l \in Routes /\ ToSet(A) \in SUBSET Routes
  BY Lasts
<1>2. Len(l) \in Nat /\ i \in Nat /\ i >= 1 /\ i < Len(l)
  BY <1>1, RouteFacts DEF IsRoute
<1>3. ASSUME NEW r \in Routes, i <= Len(r)
      PROVE  SubSeq(r, 1, i) = [x \in 1 .. i |-> r[x]]
  <2>1. r \in Seq(Airports)
    BY RouteFacts
  <2> QED BY <1>2, <1>3, <2>1
<1>4. RootPath = [x \in 1 .. i |-> l[x]]
  BY <1>1, <1>2, <1>3 DEF RootPath
<1> HIDE DEF l
<1>5. ASSUME NEW r \in ToSet(A), Len(r) > i
      PROVE  SubSeq(r, 1, i) = RootPath <=> Shares(r, l, i)
  <2>1. r \in Routes
    BY <1>1
  <2>2. Len(r) \in Nat /\ i <= Len(r) /\ i <= Len(l)
    BY <1>2, <1>5, <2>1, RouteFacts DEF IsRoute
  <2>3. SubSeq(r, 1, i) = [x \in 1 .. i |-> r[x]]
    BY <1>3, <2>1, <2>2
  <2>4. ASSUME SubSeq(r, 1, i) = RootPath, NEW x \in 1 .. i PROVE r[x] = l[x]
    <3>1. [y \in 1 .. i |-> r[y]][x] = [y \in 1 .. i |-> l[y]][x]
      BY <1>4, <2>3, <2>4
    <3> QED BY <3>1
  <2>5. ASSUME \A x \in 1 .. i : r[x] = l[x] PROVE SubSeq(r, 1, i) = RootPath
    <3>1. [y \in 1 .. i |-> r[y]] = [y \in 1 .. i |-> l[y]]
      BY <2>5
    <3> QED BY <1>4, <2>3, <3>1
  <2> QED BY <2>2, <2>4, <2>5 DEF Shares
<1>6. RemovedArcs = {<<r[i], r[i + 1]>> : r \in {s \in ToSet(A) : Len(s) > i /\ SubSeq(s, 1, i) = RootPath}}
  BY <1>2 DEF RemovedArcs
<1>7. ASSUME NEW r \in ToSet(A), Shares(r, l, i), i < Len(r)
      PROVE  <<r[i], r[i + 1]>> \in RemovedArcs
  <2>1. Len(r) > i /\ SubSeq(r, 1, i) = RootPath
    <3>1. Len(r) \in Nat
      BY <1>1, RouteFacts DEF IsRoute
    <3>2. Len(r) > i
      BY <1>2, <1>7, <3>1
    <3> QED BY <1>5, <1>7, <3>2
  <2> QED BY <1>6, <2>1
<1>8. ASSUME NEW e \in RemovedArcs
      PROVE  \E r \in ToSet(A) : Shares(r, l, i) /\ e = <<r[i], r[i + 1]>>
  <2>1. PICK r \in {s \in ToSet(A) : Len(s) > i /\ SubSeq(s, 1, i) = RootPath} : e = <<r[i], r[i + 1]>>
    BY <1>6
  <2> QED BY <1>5, <2>1
<1> QED BY <1>7, <1>8 DEF l

(* A spur search adds a new route to the candidates, no dearer than any    *)
(* that leaves the routes found at this spur.                              *)
LEMMA SpurSearch ==
  ASSUME Priced, YenOK(A, B, i), i # 0, Searching, SearchEnds
  PROVE  /\ Candidates \in SUBSET (Routes \ ToSet(A))
         /\ Covers(A, Candidates, i + 1)
<1> DEFINE l == A[Len(A)]
           R == {l[x] : x \in 1 .. i - 1}
           X == RemovedArcs
           d == dist
           C == Candidate
<1>1. /\ A \in Seq(Routes) /\ A # <<>> /\ B \in SUBSET (Routes \ ToSet(A))
      /\ i \in Nat /\ i \in 1 .. Len(l) - 1 /\ Covers(A, B, i)
  BY DEF YenOK, BestOnes
<1>2. l \in Routes /\ l \in ToSet(A) /\ ToSet(A) \in SUBSET Routes
  BY <1>1, Lasts
<1>3. Source = l[i] /\ RemovedNodes = R /\ l[i] # Destination
  <2>1. Spur = l[i] /\ ToSet(RootPath) \ {l[i]} = R /\ l[i] # Destination
    BY <1>1, <1>2, SpurNodes DEF Spur, RootPath
  <2> QED BY <2>1 DEF Source, RemovedNodes
<1> HIDE DEF C, d, X
<1>4. SearchOK(d, prev, unvisited, l[i], R, X)
  BY <1>3 DEF Searching, d, X
<1>5. Ended(d, unvisited) /\ d[l[i]] = 0 /\ d[Destination] \in Nat
  <2>1. SearchOK(dist, prev, unvisited, l[i], R, X)
    BY <1>4 DEF d
  <2>2. Ended(d, unvisited)
    BY <2>1, SearchEnded DEF d
  <2> QED BY <1>4, <2>2, SizeFacts DEF SearchOK
<1>6. /\ Len(l) \in Nat /\ i \in Nat /\ i >= 1 /\ i < Len(l) /\ Costs(l)[i] \in Nat
  <2>1. Len(l) \in Nat /\ i \in Nat /\ i >= 1 /\ i < Len(l) /\ i \in 1 .. Len(l)
    BY <1>1, <1>2, RouteFacts DEF IsRoute
  <2> QED BY <1>2, <2>1, RouteCosts
<1>7. ASSUME Found
      PROVE  /\ C \in Routes \ ToSet(A) /\ Shares(C, l, i)
             /\ Cost(C) = Costs(l)[i] + d[Destination]
  <2>1. PICK k : IsPath(Path, k, d, l[i], R, X)
    <3>1. SearchOK(dist, prev, unvisited, Source, R, X) /\ Source # Destination
      BY <1>3, <1>4 DEF d
    <3>2. \E k : IsPath(Path, k, dist, Source, R, X)
      BY <1>7, <3>1, SearchPath
    <3> QED BY <1>3, <3>2 DEF d
  <2>2. /\ IsRoute(C, i - 1 + k) /\ Shares(C, l, i) /\ i < Len(C)
        /\ <<C[i], C[i + 1]>> \notin X
        /\ Cost(C) = Costs(l)[i] + d[Destination]
    <3>1. l \in Routes /\ i \in 1 .. Len(l) - 1 /\ d[l[i]] = 0
      BY <1>1, <1>2, <1>5
    <3>2. IsPath(Path, k, d, l[i], Earlier(l, i), X)
      BY <2>1 DEF Earlier
    <3>3. C = Join(l, i, Path)
      BY DEF C, Candidate, Join
    <3>4. Joined(Join(l, i, Path), l, i, k, d, X)
      <4> HIDE DEF l, R
      <4> QED BY <3>1, <3>2, JoinIsRoute
    <3> QED BY <3>3, <3>4 DEF Joined
  <2>3. C \in Routes
    BY <2>2, RouteIs
  <2>4. C \notin ToSet(A)
    BY <1>1, <2>2, RemovedAre DEF X
  <2> QED BY <2>2, <2>3, <2>4
<1>8. Candidates \in SUBSET (Routes \ ToSet(A)) /\ B \in SUBSET Candidates
      /\ (Found => C \in Candidates)
  BY <1>1, <1>7 DEF Candidates, C
<1>9. ASSUME NEW q \in Routes \ ToSet(A), Deepest(A, q, i), Shares(l, q, i), i \in 1 .. Len(q) - 1
      PROVE  Covered(Candidates, q, i)
  <2>1. /\ Len(q) \in Nat /\ DOMAIN q = 1 .. Len(q)
        /\ \A x, y \in 1 .. Len(q) : q[x] = q[y] => x = y
        /\ \A x \in 1 .. Len(q) - 1 : Served(q[x], q[x + 1]) /\ q[x] # q[x + 1]
    BY RouteFacts DEF IsRoute
  <2>2. \A x \in 1 .. i : l[x] = q[x]
    BY <1>9 DEF Shares
  <2>3. q[i] = l[i]
    BY <1>6, <2>2
  <2>4. ASSUME NEW x \in i .. Len(q) - 1 PROVE Allowed(q[x], q[x + 1], R, X)
    <3>1. x \in 1 .. Len(q) - 1 /\ x + 1 \in 1 .. Len(q) /\ x \in 1 .. Len(q) /\ i \in 1 .. Len(q)
      BY <1>6, <2>1
    <3>2. q[x + 1] \notin R
      <4> SUFFICES ASSUME NEW y \in 1 .. i - 1, q[x + 1] = l[y] PROVE FALSE
        OBVIOUS
      <4>1. y \in 1 .. i /\ y \in 1 .. Len(q) /\ y # x + 1
        BY <1>6, <2>1, <3>1
      <4> QED BY <2>1, <2>2, <3>1, <4>1
    <3>3. <<q[x], q[x + 1]>> \notin X
      <4> SUFFICES ASSUME <<q[x], q[x + 1]>> \in X PROVE FALSE
        OBVIOUS
      <4>1. PICK r \in ToSet(A) : Shares(r, l, i) /\ <<q[x], q[x + 1]>> = <<r[i], r[i + 1]>>
        BY <1>1, RemovedAre DEF X
      <4>2. \A y \in 1 .. i : r[y] = q[y]
        BY <2>2, <4>1 DEF Shares
      <4>3. i \in 1 .. i
        BY <1>6
      <4>4. q[x] = q[i]
        BY <4>1, <4>2, <4>3
      <4>5. x = i
        BY <2>1, <3>1, <4>4
      <4>6. r[i + 1] = q[i + 1]
        BY <4>1, <4>5
      <4>7. i + 1 <= Len(r)
        <5>1. r \in Routes
          BY <1>2
        <5>2. Shares(r, q, i)
          BY <2>1, <3>1, <4>1, <4>2 DEF Shares
        <5>3. i < Len(r)
          BY <1>9, <5>1, <5>2, SharedBefore
        <5>4. Len(r) \in Nat
          BY <5>1, RouteFacts DEF IsRoute
        <5> QED BY <1>6, <5>3, <5>4
      <4>8. Shares(r, q, i + 1)
        <5>1. \A y \in 1 .. i + 1 : y \in 1 .. i \/ y = i + 1
          BY <1>6
        <5>2. i + 1 <= Len(q)
          BY <3>1, <4>5
        <5> QED BY <4>2, <4>6, <4>7, <5>1, <5>2 DEF Shares
      <4> QED BY <1>9, <4>8 DEF Deepest
    <3> QED BY <2>1, <3>1, <3>2, <3>3 DEF Allowed
  <2>5. d[Destination] < Infinity /\ Costs(q)[i] + d[Destination] <= Cost(q)
    BY <1>4, <1>5, <1>9, <2>3, <2>4, SearchLower
  <2>6. Costs(q)[i] = Costs(l)[i]
    <3>1. Agree(l, Len(l), q, Len(q), i)
      <4>1. DOMAIN l = 1 .. Len(l)
        BY <1>2, RouteFacts
      <4>2. i <= Len(q)
        BY <1>6, <1>9, <2>1
      <4> QED BY <1>1, <1>6, <2>1, <2>2, <4>1, <4>2 DEF Agree
    <3>2. i \in 1 .. i
      BY <1>6
    <3> QED BY <3>1, <3>2, CostsAgree
  <2>7. Found
    BY <2>5 DEF Found, d
  <2>8. C \in Candidates /\ C \in Routes /\ Shares(C, l, i) /\ Cost(C) = Costs(l)[i] + d[Destination]
    BY <1>7, <1>8, <2>7
  <2>9. Shares(C, q, i)
    BY <1>9, <2>2, <2>8 DEF Shares
  <2>10. PriceOf[C] <= PriceOf[q]
    BY <2>5, <2>6, <2>8, Prices
  <2> QED BY <2>8, <2>9, <2>10 DEF Covered
<1>10. ASSUME NEW q \in Routes \ ToSet(A), NEW j \in 1 .. Len(q) - 1, Deepest(A, q, j)
       PROVE  Covered(Candidates, q, j) \/ (Shares(l, q, j) /\ j >= i + 1)
  <2>1. CASE Covered(B, q, j)
    BY <1>8, <2>1 DEF Covered
  <2>2. CASE Shares(l, q, j) /\ j >= i
    <3>1. CASE j = i
      BY <1>9, <1>10, <2>2, <3>1
    <3>2. CASE j # i
      <4>1. j \in Int /\ i \in Nat
        BY <1>1
      <4> QED BY <2>2, <3>2, <4>1
    <3> QED BY <3>1, <3>2
  <2> QED BY <1>1, <1>10, <2>1, <2>2 DEF Covers
<1>11. Covers(A, Candidates, i + 1)
  BY <1>10 DEF Covers
<1> QED BY <1>8, <1>11

(***************************************************************************)
(* Suggestions: the matrices stay as they are, and so do routes and costs. *)
(***************************************************************************)
CostsOf == [r \in Routes |-> Costs(r)]

(* Prices as one function, that a step can be said to keep ...             *)
LEMMA CostsOfSteps ==
  /\ PriceOf = [r \in Routes |-> PriceOf[r]]
  /\ \A r \in Routes :
       /\ PriceOf[r] = CostsOf[r][Len(r)] /\ CostsOf[r][1] = 0
       /\ \A x \in 1 .. Len(r) - 1 : CostsOf[r][x + 1] = CostsOf[r][x] + Weight(r[x], r[x + 1])
<1>1. ASSUME NEW r \in Routes
      PROVE  /\ Costs(r)[1] = 0
             /\ \A x \in 1 .. Len(r) - 1 : Costs(r)[x + 1] = Costs(r)[x] + Weight(r[x], r[x + 1])
  <2>1. Len(r) \in Nat /\ Len(r) >= 1 /\ DOMAIN r = 1 .. Len(r)
    BY RouteFacts DEF IsRoute
  <2> QED BY <2>1, CostsSteps
<1> QED BY <1>1 DEF CostsOf, PriceOf, Cost

(* ... since they add up the same way after it.                            *)
LEMMA CostsOfNext ==
  ( /\ PriceOf = [r \in Routes |-> PriceOf[r]]
    /\ \A r \in Routes :
         /\ PriceOf[r] = CostsOf[r][Len(r)] /\ CostsOf[r][1] = 0
         /\ \A x \in 1 .. Len(r) - 1 : CostsOf[r][x + 1] = CostsOf[r][x] + Weight(r[x], r[x + 1]) )'
BY CostsOfSteps, PTL

(* As long as the matrices stay, so do the routes and what they cost.      *)
LEMMA InputKept ==
  ASSUME UNCHANGED input
  PROVE  /\ Routes' = Routes /\ PriceOf' = PriceOf /\ (Priced => Priced')
         /\ \A u, v : Weight(u, v)' = Weight(u, v) /\ Served(u, v)' = Served(u, v)
<1>1. arc' = arc /\ criterio' = criterio
  BY DEF input
<1>2. Routes' = Routes
  BY <1>1 DEF Routes, Fare, Time
<1>3. ASSUME NEW u, NEW v PROVE Weight(u, v)' = Weight(u, v) /\ Served(u, v)' = Served(u, v)
  BY <1>1 DEF Weight, Served, Fare, Time
<1>4. ASSUME NEW r \in Routes PROVE PriceOf'[r] = PriceOf[r]
  <2> DEFINE c == CostsOf
             T == {x \in 1 .. Len(r) : c'[r][x] = c[r][x]}
  <2>1. Len(r) \in Nat /\ Len(r) >= 1
    BY RouteFacts DEF IsRoute
  <2>2. /\ PriceOf[r] = c[r][Len(r)] /\ c[r][1] = 0
        /\ \A x \in 1 .. Len(r) - 1 : c[r][x + 1] = c[r][x] + Weight(r[x], r[x + 1])
    BY CostsOfSteps
  <2>3. /\ PriceOf'[r] = c'[r][Len(r)] /\ c'[r][1] = 0
        /\ \A x \in 1 .. Len(r) - 1 : c'[r][x + 1] = c'[r][x] + Weight(r[x], r[x + 1])
    BY <1>2, <1>3, CostsOfNext
  <2> HIDE DEF c
  <2>4. 1 \in T
    BY <2>1, <2>2, <2>3
  <2>5. ASSUME NEW x \in 1 .. Len(r) - 1, x \in T PROVE x + 1 \in T
    <3>1. x + 1 \in 1 .. Len(r)
      BY <2>1
    <3> QED BY <2>2, <2>3, <2>5, <3>1
  <2>6. \A x \in 1 .. Len(r) : x \in T
    <3> HIDE DEF T
    <3> QED BY <2>1, <2>4, <2>5, RangeInduction
  <2>7. Len(r) \in 1 .. Len(r)
    BY <2>1
  <2> QED BY <2>2, <2>3, <2>6, <2>7
<1>5. PriceOf' = PriceOf
  <2>1. PriceOf' = [r \in Routes |-> PriceOf'[r]]
    BY <1>2, CostsOfNext
  <2>2. PriceOf = [r \in Routes |-> PriceOf[r]]
    BY CostsOfSteps
  <2>3. [r \in Routes |-> PriceOf'[r]] = [r \in Routes |-> PriceOf[r]]
    BY <1>4
  <2> QED BY <2>1, <2>2, <2>3
<1> QED BY <1>1, <1>2, <1>3, <1>5 DEF Priced

(* ... and what holds of the lists after a step.                           *)
LEMMA YenOKNext ==
  ASSUME UNCHANGED input, YenOK(A', B', i')
  PROVE  YenOK(A, B, i)'
<1>1. Routes' = Routes /\ PriceOf' = PriceOf
  BY InputKept
<1> QED BY <1>1 DEF YenOK, BestOnes, Covers, Covered, Deepest, Shares

(* The same for the tables of the search.                                  *)
LEMMA SearchNext ==
  ASSUME UNCHANGED input,
         SearchOK(dist', prev', unvisited', Source', RemovedNodes', RemovedArcs')
  PROVE  Searching'
<1>1. arc' = arc /\ criterio' = criterio
  BY DEF input
<1> QED BY <1>1 DEF Searching, SearchOK, Allowed, Visited, Served, Weight, Fare, Time

(***************************************************************************)
(* Suggestions: the invariant and the steps.                               *)
(***************************************************************************)
Complete(a) == Len(a) = K \/ Routes \in SUBSET ToSet(a)

YenInv ==
  /\ Priced
  /\ Origin # Destination =>
       /\ YenOK(A, B, i)
       /\ done => Complete(A)
       /\ ~done => Len(A) < K /\ Searching

(* Nothing is found yet, and the search is a fresh one from the origin.    *)
LEMMA YenStarts == YenInit => YenInv
<1> SUFFICES ASSUME YenInit, Origin # Destination PROVE YenInv
  BY DEF YenInit, YenInv, Priced
<1>1. Priced /\ ~done
  BY DEF YenInit, Priced
<1>2. YenOK(A, B, i)
  <2>1. A = <<>> /\ B = {} /\ i = 0 /\ ToSet(A) = {}
    BY DEF YenInit, ToSet
  <2>2. BestOnes(<<>>)
    BY SizeFacts DEF BestOnes
  <2> QED BY <2>1, <2>2 DEF YenOK
<1>3. Len(A) < K
  BY SizeFacts DEF YenInit
<1>4. Searching
  <2>1. Source = Origin /\ RemovedNodes = {} /\ unvisited = Airports \ {}
    BY DEF YenInit, Source, RemovedNodes
  <2>2. dist = [v \in Airports |-> IF v = Origin THEN 0 ELSE Infinity]
    BY DEF YenInit
  <2> QED BY <2>1, <2>2, FreshSearch, SizeFacts DEF Searching
<1> QED BY <1>1, <1>2, <1>3, <1>4 DEF YenInv

(* A visit only changes the tables.                                        *)
LEMMA VisitStep ==
  ASSUME YenInv, Origin # Destination, NEW u, Visit(u)
  PROVE  YenInv'
<1>1. /\ ~done /\ done' = done /\ UNCHANGED input /\ A' = A /\ B' = B /\ i' = i
      /\ u \in Nearest /\ u # Destination
  BY DEF Visit
<1>2. Priced /\ YenOK(A, B, i) /\ Len(A) < K /\ Searching
  BY <1>1 DEF YenInv
<1>3. Source' = Source /\ RemovedNodes' = RemovedNodes /\ RemovedArcs' = RemovedArcs
  BY <1>1 DEF Source, Spur, RemovedNodes, RemovedArcs, RootPath
<1>4. u \in unvisited /\ dist[u] < Infinity /\ \A m \in unvisited : dist[u] <= dist[m]
  BY <1>1 DEF Nearest
<1>5. /\ unvisited' = unvisited \ {u}
      /\ dist' = [v \in Airports |-> IF Better(dist, u, v, RemovedNodes, RemovedArcs)
                                     THEN dist[u] + Weight(u, v) ELSE dist[v]]
      /\ prev' = [v \in Airports |-> IF Better(dist, u, v, RemovedNodes, RemovedArcs)
                                     THEN u ELSE prev[v]]
  BY DEF Visit, Better
<1>6. SearchOK(dist', prev', unvisited', Source, RemovedNodes, RemovedArcs)
  BY <1>1, <1>2, <1>4, <1>5, VisitKeeps DEF Searching
<1>7. Searching'
  BY <1>1, <1>3, <1>6, SearchNext
<1>8. YenOK(A, B, i)' /\ Priced'
  BY <1>1, <1>2, YenOKNext, InputKept
<1>9. (Len(A) < K)' /\ ~done'
  BY <1>1, <1>2
<1> QED BY <1>7, <1>8, <1>9 DEF YenInv

(* The searches after the first start from a node of the last route. *)
LEMMA NewSearch ==
  ASSUME UNCHANGED input, YenOK(A', B', i'), i' # 0,
         StartSearch(A'[Len(A')][i'], {A'[Len(A')][x] : x \in 1 .. i' - 1})
  PROVE  Searching'
<1> DEFINE l == A'[Len(A')]
           R == {l[x] : x \in 1 .. i' - 1}
<1>1. l \in Routes /\ i' \in 1 .. Len(l) - 1
  BY Lasts DEF YenOK, BestOnes
<1>2. Source' = l[i'] /\ RemovedNodes' = R
  <2>1. Source' = l[i'] /\ RemovedNodes' = ToSet(SubSeq(l, 1, i')) \ {l[i']}
    BY DEF Source, Spur, RemovedNodes, RootPath
  <2> QED BY <1>1, <2>1, SpurNodes
<1>3. l[i'] \in Airports /\ l[i'] \notin R /\ Destination \notin R
  <2>1. /\ l[i'] \in Airports /\ l[i'] \notin {l[x] : x \in 1 .. i' - 1}
        /\ Destination \notin {l[x] : x \in 1 .. i'}
    BY <1>1, SpurNodes
  <2>2. \A x \in 1 .. i' - 1 : x \in 1 .. i'
    <3>1. i' \in Nat
      BY DEF YenOK
    <3>2. \A m \in Nat : \A x \in 1 .. m - 1 : x \in 1 .. m
      OBVIOUS
    <3> QED BY <3>1, <3>2
  <2> QED BY <2>1, <2>2
<1>4. /\ dist' = [v \in Airports |-> IF v = l[i'] THEN 0 ELSE Infinity]
      /\ unvisited' = Airports \ R
  BY DEF StartSearch
<1> HIDE DEF l, R
<1>5. SearchOK(dist', prev', Airports \ R, l[i'], R, RemovedArcs')
  BY <1>3, <1>4, FreshSearch
<1>6. SearchOK(dist', prev', unvisited', Source', RemovedNodes', RemovedArcs')
  BY <1>2, <1>4, <1>5
<1> QED BY <1>6, SearchNext

(* All other routes leave the first one, at a spur that is still to come.  *)
LEMMA FirstRouteStep ==
  ASSUME YenInv, Origin # Destination, FirstRoute
  PROVE  YenInv'
<1>1. ~done /\ i = 0 /\ SearchEnds /\ UNCHANGED input /\ B' = B
  BY DEF FirstRoute
<1>2. Priced /\ YenOK(A, B, i) /\ Len(A) < K /\ Searching
  BY <1>1 DEF YenInv
<1>3. A = <<>> /\ B = {} /\ BestOnes(A)
  BY <1>1, <1>2 DEF YenOK
<1>4. Priced'
  BY <1>1, <1>2, InputKept
<1>5. CASE Found
  <2> DEFINE P == Path
  <2>1. A' = <<P>> /\ i' = 1 /\ done' = (K = 1) /\ StartSearch(P[1], {})
    BY <1>5 DEF FirstRoute
  <2>2. P \in Routes /\ \A q \in Routes : Cost(P) <= Cost(q)
    BY <1>1, <1>2, <1>5, FirstSearch
  <2> HIDE DEF P
  <2>3. /\ Len(P) \in Nat /\ Len(P) >= 2 /\ DOMAIN P = 1 .. Len(P)
        /\ \A r \in Routes : r[1] = P[1] /\ Len(r) \in Nat /\ Len(r) >= 2
    BY <2>2, RouteFacts DEF IsRoute
  <2>4. /\ A' \in Seq(Routes) /\ Len(A') = 1 /\ A'[1] = P /\ A' # <<>> /\ A'[Len(A')] = P
        /\ ToSet(A') = {P}
    <3>1. <<P>> \in Seq(Routes) /\ Len(<<P>>) = 1 /\ <<P>>[1] = P /\ <<P>> # <<>>
      BY <2>2
    <3>2. ToSet(<<P>>) = {P}
      BY DEF ToSet
    <3> QED BY <2>1, <3>1, <3>2
  <2>5. BestOnes(A')
    <3>1. Len(A') <= K
      BY <2>4, SizeFacts
    <3>2. \A x, y \in 1 .. Len(A') : A'[x] = A'[y] => x = y
      BY <2>4
    <3>3. \A x \in 2 .. Len(A') : PriceOf[A'[x - 1]] <= PriceOf[A'[x]]
      BY <2>4
    <3>4. \A q \in Routes \ ToSet(A') : \A x \in 1 .. Len(A') : PriceOf[A'[x]] <= PriceOf[q]
      <4> TAKE q \in Routes \ ToSet(A')
      <4> TAKE x \in 1 .. Len(A')
      <4>1. A'[x] = P
        BY <2>4
      <4>2. PriceOf[P] = Cost(P) /\ PriceOf[q] = Cost(q)
        BY <1>2, <2>2, Prices
      <4> QED BY <2>2, <4>1, <4>2
    <3> QED BY <2>4, <3>1, <3>2, <3>3, <3>4 DEF BestOnes
  <2>6. ASSUME NEW q \in Routes \ ToSet(A'), NEW j \in 1 .. Len(q) - 1, Deepest(A', q, j)
        PROVE  Shares(A'[Len(A')], q, j) /\ j >= 1
    BY <2>4, <2>6 DEF Deepest
  <2>7. Covers(A', B', 1)
    BY <2>6 DEF Covers
  <2>8. YenOK(A', B', i')
    <3>1. 1 \in 1 .. Len(A'[Len(A')]) - 1
      BY <2>3, <2>4
    <3>2. B' \in SUBSET (Routes \ ToSet(A'))
      BY <1>1, <1>3
    <3>3. 1 \in Nat /\ 1 # 0
      OBVIOUS
    <3> QED BY <2>1, <2>4, <2>5, <2>7, <3>1, <3>2, <3>3 DEF YenOK
  <2>9. StartSearch(A'[Len(A')][i'], {A'[Len(A')][x] : x \in 1 .. i' - 1})
    <3>1. {A'[Len(A')][x] : x \in 1 .. i' - 1} = {}
      BY <2>1
    <3> QED BY <2>1, <2>4, <3>1
  <2>10. Searching'
    BY <1>1, <2>1, <2>8, <2>9, NewSearch
  <2>11. YenOK(A, B, i)'
    BY <1>1, <2>8, YenOKNext
  <2>12. /\ done' => Complete(A')
         /\ ~done' => Len(A') < K
    <3>1. CASE K = 1
      BY <2>1, <2>4, <3>1 DEF Complete
    <3>2. CASE K # 1
      <4>1. ~done'
        BY <2>1, <3>2
      <4>2. Len(A') < K
        BY <2>4, <3>2, SizeFacts
      <4> QED BY <4>1, <4>2
    <3> QED BY <3>1, <3>2
  <2>13. Routes' = Routes
    BY <1>1, InputKept
  <2>14. (done => Complete(A))' /\ (~done => Len(A) < K)'
    BY <2>12, <2>13 DEF Complete
  <2> QED BY <1>4, <2>10, <2>11, <2>14 DEF YenInv
<1>6. CASE ~Found
  <2>1. done' = TRUE /\ A' = A /\ i' = i
    BY <1>6 DEF FirstRoute
  <2>2. Routes = {}
    BY <1>1, <1>2, <1>6, FirstSearch
  <2>3. Routes' = {}
    BY <1>1, <2>2, InputKept
  <2>4. YenOK(A, B, i)'
    BY <1>1, <1>2, <2>1, YenOKNext
  <2>5. Complete(A)'
    BY <2>3 DEF Complete
  <2> QED BY <1>4, <2>1, <2>4, <2>5 DEF YenInv
<1> QED BY <1>5, <1>6

(* What left the routes found at the spur just searched has a candidate    *)
(* now.                                                                    *)
LEMMA NextSpurStep ==
  ASSUME YenInv, Origin # Destination, NextSpur
  PROVE  YenInv'
<1> DEFINE l == A[Len(A)]
<1>1. /\ ~done /\ i > 0 /\ SearchEnds /\ UNCHANGED input /\ A' = A /\ done' = done
      /\ i + 1 < Len(l) /\ B' = Candidates /\ i' = i + 1
      /\ StartSearch(l[i + 1], ToSet(RootPath))
  BY DEF NextSpur
<1>2. Priced /\ YenOK(A, B, i) /\ Len(A) < K /\ Searching
  BY <1>1 DEF YenInv
<1>3. i \in Nat /\ i # 0 /\ A # <<>> /\ BestOnes(A) /\ A \in Seq(Routes) /\ i \in 1 .. Len(l) - 1
  BY <1>1, <1>2 DEF YenOK, BestOnes
<1>4. l \in Routes /\ Len(l) \in Nat
  BY <1>3, Lasts, RouteFacts DEF IsRoute
<1>5. Candidates \in SUBSET (Routes \ ToSet(A)) /\ Covers(A, Candidates, i + 1)
  BY <1>1, <1>2, <1>3, SpurSearch
<1>6. YenOK(A', B', i')
  <2>1. i + 1 \in Nat /\ i + 1 # 0 /\ i + 1 \in 1 .. Len(l) - 1
    <3> HIDE DEF l
    <3> QED BY <1>1, <1>3, <1>4
  <2>2. YenOK(A, Candidates, i + 1)
    BY <1>3, <1>5, <2>1 DEF YenOK
  <2> QED BY <1>1, <2>2
<1>7. StartSearch(A'[Len(A')][i'], {A'[Len(A')][x] : x \in 1 .. i' - 1})
  <2>1. ToSet(RootPath) = {l[x] : x \in 1 .. i}
    BY <1>3, <1>4, SpurNodes DEF RootPath
  <2>2. i' - 1 = i
    <3> HIDE DEF l
    <3> QED BY <1>1, <1>3
  <2>3. {l[x] : x \in 1 .. i' - 1} = {l[x] : x \in 1 .. i}
    BY <2>2
  <2> QED BY <1>1, <2>1, <2>3
<1>8. Searching'
  <2>1. i' # 0
    BY <1>1, <1>3
  <2> QED BY <1>1, <1>6, <1>7, <2>1, NewSearch
<1>9. YenOK(A, B, i)' /\ Priced'
  BY <1>1, <1>2, <1>6, YenOKNext, InputKept
<1>10. (Len(A) < K)' /\ ~done'
  BY <1>1, <1>2
<1> QED BY <1>8, <1>9, <1>10 DEF YenInv

(* All spurs are searched: the cheapest candidate is the next best of all. *)
LEMMA NextRouteStep ==
  ASSUME YenInv, Origin # Destination, NextRoute
  PROVE  YenInv'
<1> DEFINE l == A[Len(A)]
<1>1. ~done /\ i > 0 /\ SearchEnds /\ UNCHANGED input /\ i + 1 = Len(l)
  BY DEF NextRoute
<1>2. Priced /\ YenOK(A, B, i) /\ Len(A) < K /\ Searching
  BY <1>1 DEF YenInv
<1>3. i \in Nat /\ i # 0 /\ A # <<>> /\ BestOnes(A) /\ A \in Seq(Routes) /\ B \in SUBSET (Routes \ ToSet(A))
  BY <1>1, <1>2 DEF YenOK, BestOnes
<1>4. Candidates \in SUBSET (Routes \ ToSet(A)) /\ Covers(A, Candidates, Len(l))
  BY <1>1, <1>2, <1>3, SpurSearch
<1>5. Priced' /\ Routes' = Routes
  BY <1>1, <1>2, InputKept
<1>6. CASE Candidates = {} /\ done' = TRUE /\ UNCHANGED <<A, B, i, tables>>
  <2>1. Routes \in SUBSET ToSet(A)
    BY <1>3, <1>4, <1>6, NoCandidate
  <2>2. A' = A /\ B' = B /\ i' = i /\ done'
    BY <1>6
  <2>3. Complete(A)'
    BY <1>5, <2>1, <2>2 DEF Complete
  <2>4. YenOK(A, B, i)'
    BY <1>1, <1>2, <2>2, YenOKNext
  <2> QED BY <1>5, <2>2, <2>3, <2>4 DEF YenInv
<1>7. ASSUME NEW r \in Cheapest(Candidates), A' = Append(A, r), B' = Candidates \ {r}, i' = 1,
             done' = (Len(A') = K), StartSearch(Origin, {})
      PROVE  YenInv'
  <2>1. r \in Candidates /\ \A q \in Candidates : Cost(r) <= Cost(q)
    BY DEF Cheapest
  <2>2. YenOK(Append(A, r), Candidates \ {r}, 1)
    BY <1>2, <1>3, <1>4, <2>1, NextBest
  <2>3. YenOK(A', B', i')
    BY <1>7, <2>2
  <2>4. r \in Routes /\ r[1] = Origin
    BY <1>4, <2>1, RouteFacts DEF IsRoute
  <2>5. Len(A') = Len(A) + 1 /\ A'[Len(A')] = r /\ Len(A) \in Nat
    BY <1>3, <1>7, <2>4
  <2>6. StartSearch(A'[Len(A')][i'], {A'[Len(A')][x] : x \in 1 .. i' - 1})
    <3>1. {A'[Len(A')][x] : x \in 1 .. i' - 1} = {}
      BY <1>7
    <3>2. A'[Len(A')][i'] = Origin
      BY <1>7, <2>4, <2>5
    <3> QED BY <1>7, <3>1, <3>2
  <2>7. Searching'
    <3>1. i' # 0
      BY <1>7
    <3> QED BY <1>1, <2>3, <2>6, <3>1, NewSearch
  <2>8. YenOK(A, B, i)'
    BY <1>1, <2>3, YenOKNext
  <2>9. /\ done' => Complete(A')
        /\ ~done' => Len(A') < K
    <3>1. CASE Len(A') = K
      BY <1>7, <3>1 DEF Complete
    <3>2. CASE Len(A') # K
      <4>1. ~done'
        BY <1>7, <3>2
      <4>2. Len(A') < K
        BY <1>2, <2>5, <3>2, SizeFacts
      <4> QED BY <4>1, <4>2
    <3> QED BY <3>1, <3>2
  <2>10. (done => Complete(A))' /\ (~done => Len(A) < K)'
    BY <1>5, <2>9 DEF Complete
  <2> QED BY <1>5, <2>7, <2>8, <2>10 DEF YenInv
<1> QED BY <1>6, <1>7 DEF NextRoute

(* A request between an airport and itself is answered before it starts.   *)
LEMMA YenStep == YenInv /\ [YenNext]_yenVars => YenInv'
<1> SUFFICES ASSUME YenInv, [YenNext]_yenVars PROVE YenInv'
  OBVIOUS
<1>1. CASE UNCHANGED yenVars
  <2>1. /\ UNCHANGED input /\ A' = A /\ B' = B /\ i' = i /\ done' = done
        /\ dist' = dist /\ prev' = prev /\ unvisited' = unvisited
    BY <1>1 DEF yenVars, tables
  <2>2. Source' = Source /\ RemovedNodes' = RemovedNodes /\ RemovedArcs' = RemovedArcs
    BY <2>1 DEF Source, Spur, RemovedNodes, RemovedArcs, RootPath
  <2>3. Priced' /\ Routes' = Routes
    BY <2>1, InputKept DEF YenInv
  <2>4. Origin # Destination => YenOK(A, B, i)'
    BY <2>1, YenOKNext DEF YenInv
  <2>5. Origin # Destination => (done => Complete(A))'
    BY <2>1, <2>3 DEF YenInv, Complete
  <2>6. Origin # Destination => (~done => Len(A) < K)'
    BY <2>1 DEF YenInv
  <2>7. Searching => Searching'
    BY <2>1, <2>2, SearchNext DEF Searching
  <2>8. Origin # Destination => (~done => Searching)'
    BY <2>1, <2>7 DEF YenInv
  <2> QED BY <2>3, <2>4, <2>5, <2>6, <2>8 DEF YenInv
<1>2. CASE YenNext /\ Origin = Destination
  <2>1. UNCHANGED input
    BY <1>2 DEF YenNext, Visit, FirstRoute, NextSpur, NextRoute
  <2> QED BY <1>2, <2>1, InputKept DEF YenInv
<1>3. CASE YenNext /\ Origin # Destination
  BY <1>3, VisitStep, FirstRouteStep, NextSpurStep, NextRouteStep DEF YenNext
<1> QED BY <1>1, <1>2, <1>3

(* There are finitely many routes. *)
LEMMA RoutesAreFinite == IsFiniteSet(Routes)
<1> DEFINE S == SUBSET ((1 .. Size) \X Airports)
           g == [r \in Routes |-> {<<x, r[x]>> : x \in 1 .. Len(r)}]
<1>1. IsFiniteSet(S)
  <2>1. IsFiniteSet(1 .. Size)
    BY SizeFacts, FS_Interval
  <2>2. IsFiniteSet((1 .. Size) \X Airports)
    BY <2>1, SizeFacts, FS_Product
  <2> QED BY <2>2, FS_SUBSET
<1>2. ASSUME NEW r \in Routes PROVE g[r] \in S /\ Len(r) \in Nat /\ DOMAIN r = 1 .. Len(r) /\ r \in [1 .. Len(r) -> Airports]
  <2>1. /\ Len(r) \in Nat /\ DOMAIN r = 1 .. Len(r) /\ Len(r) <= Size
        /\ r \in [1 .. Len(r) -> Airports]
    BY RouteFacts DEF IsRoute
  <2>2. ASSUME NEW x \in 1 .. Len(r) PROVE <<x, r[x]>> \in (1 .. Size) \X Airports
    <3>1. x \in 1 .. Size
      BY <2>1, SizeFacts
    <3> QED BY <2>1, <3>1
  <2> QED BY <2>1, <2>2
<1>3. ASSUME NEW r \in Routes, NEW q \in Routes, g[r] = g[q] PROVE r = q
  <2>1. {<<x, r[x]>> : x \in 1 .. Len(r)} = {<<x, q[x]>> : x \in 1 .. Len(q)}
    BY <1>3
  <2>2. ASSUME NEW x \in 1 .. Len(r) PROVE x \in 1 .. Len(q) /\ r[x] = q[x]
    <3>1. <<x, r[x]>> \in {<<y, q[y]>> : y \in 1 .. Len(q)}
      BY <2>1
    <3>2. PICK y \in 1 .. Len(q) : <<x, r[x]>> = <<y, q[y]>>
      BY <3>1
    <3> QED BY <3>2
  <2>3. ASSUME NEW x \in 1 .. Len(q) PROVE x \in 1 .. Len(r)
    <3>1. <<x, q[x]>> \in {<<y, r[y]>> : y \in 1 .. Len(r)}
      BY <2>1
    <3>2. PICK y \in 1 .. Len(r) : <<x, q[x]>> = <<y, r[y]>>
      BY <3>1
    <3> QED BY <3>2
  <2>4. 1 .. Len(r) = 1 .. Len(q)
    BY <2>2, <2>3
  <2>5. r = [x \in 1 .. Len(r) |-> r[x]] /\ q = [x \in 1 .. Len(q) |-> q[x]]
    BY <1>2
  <2>6. [x \in 1 .. Len(r) |-> r[x]] = [x \in 1 .. Len(q) |-> q[x]]
    BY <2>2, <2>4
  <2> QED BY <2>5, <2>6
<1>4. g \in Injection(Routes, S)
  <2>1. g \in [Routes -> S]
    BY <1>2
  <2> HIDE DEF g, S
  <2> QED BY <1>3, <2>1, Fun_IsInj
<1> HIDE DEF g, S
<1> QED BY <1>1, <1>4, FS_Injection

(* At the end the invariant says what was to be shown.                     *)
LEMMA YenInvSuggests == YenInv => SuggestsTheBest
<1> SUFFICES ASSUME YenInv, done, Origin # Destination
             PROVE  /\ ToSet(A) \subseteq Routes
                    /\ IsInjective(A)
                    /\ Len(A) = Min({K, Cardinality(Routes)})
                    /\ \A x \in 2 .. Len(A) : Cost(A[x - 1]) <= Cost(A[x])
                    /\ \A r \in Routes \ ToSet(A) : \A x \in DOMAIN A : Cost(A[x]) <= Cost(r)
  BY DEF SuggestsTheBest
<1>1. Priced /\ BestOnes(A) /\ Complete(A)
  BY DEF YenInv, YenOK
<1>2. /\ A \in Seq(Routes) /\ Len(A) \in Nat /\ DOMAIN A = 1 .. Len(A) /\ Len(A) <= K
      /\ A \in [1 .. Len(A) -> Routes]
      /\ \A x, y \in 1 .. Len(A) : A[x] = A[y] => x = y
  BY <1>1 DEF BestOnes
<1>3. ToSet(A) \subseteq Routes /\ \A x \in 1 .. Len(A) : A[x] \in Routes
  BY <1>2 DEF ToSet
<1>4. \A x \in 2 .. Len(A) : Cost(A[x - 1]) <= Cost(A[x])
  <2> TAKE x \in 2 .. Len(A)
  <2>1. x \in 1 .. Len(A) /\ x - 1 \in 1 .. Len(A)
    BY <1>2
  <2>2. PriceOf[A[x - 1]] <= PriceOf[A[x]]
    BY <1>1 DEF BestOnes
  <2> QED BY <1>1, <1>3, <2>1, <2>2, Prices
<1>5. \A r \in Routes \ ToSet(A) : \A x \in DOMAIN A : Cost(A[x]) <= Cost(r)
  <2> TAKE r \in Routes \ ToSet(A)
  <2> TAKE x \in DOMAIN A
  <2>1. x \in 1 .. Len(A)
    BY <1>2
  <2>2. PriceOf[A[x]] <= PriceOf[r]
    BY <1>1, <2>1 DEF BestOnes
  <2> QED BY <1>1, <1>3, <2>1, <2>2, Prices
<1>6. IsInjective(A)
  BY <1>2 DEF IsInjective
<1>7. Len(A) = Min({K, Cardinality(Routes)})
  <2> DEFINE c == Cardinality(Routes)
  <2>1. IsFiniteSet(Routes) /\ c \in Nat
    BY RoutesAreFinite, FS_CardinalityType
  <2>2. Cardinality(ToSet(A)) = Len(A)
    <3>1. \A a \in 1 .. Len(A) + 1, b \in 0 .. Len(A) :
            a <= b + 1 => /\ IsFiniteSet(Stretch(A, a, b))
                          /\ Cardinality(Stretch(A, a, b)) = b - a + 1
      BY <1>2, StretchSize
    <3>2. 1 \in 1 .. Len(A) + 1 /\ Len(A) \in 0 .. Len(A) /\ 1 <= Len(A) + 1 /\ Len(A) - 1 + 1 = Len(A)
      BY <1>2
    <3>3. Cardinality(Stretch(A, 1, Len(A))) = Len(A)
      BY <3>1, <3>2
    <3>4. Stretch(A, 1, Len(A)) = ToSet(A)
      BY <1>2 DEF Stretch, ToSet
    <3> QED BY <3>3, <3>4
  <2>3. Len(A) <= c
    BY <1>3, <2>1, <2>2, FS_Subset
  <2>4. Len(A) = K \/ Len(A) = c
    <3>1. ASSUME Routes \in SUBSET ToSet(A) PROVE Len(A) = c
      <4>1. Routes = ToSet(A)
        BY <1>3, <3>1
      <4> QED BY <2>2, <4>1
    <3> QED BY <1>1, <3>1 DEF Complete
  <2> HIDE DEF c
  <2>5. {K, c} \in SUBSET Nat /\ {K, c} # {}
    BY <2>1, SizeFacts
  <2>6. Min({K, c}) \in {K, c} /\ \A y \in {K, c} : Min({K, c}) <= y
    BY <2>5, LeastOfNats
  <2>7. Len(A) = Min({K, c})
    <3> DEFINE m == Min({K, c})
    <3>1. (m = K \/ m = c) /\ m <= K /\ m <= c
      BY <2>6
    <3> HIDE DEF m
    <3>2. Len(A) \in Nat /\ Len(A) <= K /\ K \in Nat
      BY <1>2, SizeFacts
    <3>3. Len(A) = m
      BY <2>1, <2>3, <2>4, <3>1, <3>2
    <3> QED BY <3>3 DEF m
  <2> QED BY <2>7 DEF c
<1> QED BY <1>3, <1>4, <1>5, <1>6, <1>7

(* The routes suggested are the best there are, the best first, each once  *)
(* (yenKSP): whatever the matrices, the airports and the number of routes. *)
THEOREM SuggestionsAreBest == YenSpec => []SuggestsTheBest
<1>1. YenSpec => []YenInv
  BY YenStarts, YenStep, PTL DEF YenSpec
<1> QED BY <1>1, YenInvSuggests, PTL
-----------------------------------------------------------------------------
(***************************************************************************)
(* Itineraries.  The tables of the dynamic programme exist (TablesExist):  *)
(* its recursion is over smaller and smaller masks.  An entry is at most   *)
(* the cost of any way (Extends, WayCosts), and if it is not infinite it is*)
(* the cost of the way that prev gives (ComesFrom, IndicesCost), which is a*)
(* tour since the masks of the way back shrink (BackShrinks).              *)
(***************************************************************************)


(* A request that is answered, of the matrices there are. *)
Asked == ciudades \in Requests /\ arcs \in Networks /\ returnToOrigin \in BOOLEAN /\ Valid

n == Len(ciudades)

(* What the assumption says of a request that is answered. *)
LEMMA AskedFacts ==
  ASSUME Asked
  PROVE  /\ n \in Nat /\ n >= 2 /\ n <= MaxCities /\ MaxCities \in Nat /\ NoWay \in Nat
         /\ Places = 1 .. n
         /\ ToSet(ciudades) = {ciudades[p] : p \in Places}
         /\ \A p, q \in Places : ciudades[p] = ciudades[q] => p = q
         /\ Starts \subseteq Places
         /\ IsFiniteSet(Places) /\ Cardinality(Places) = n
<1>1. n \in Nat /\ n >= 2 /\ n <= MaxCities /\ MaxCities \in Nat /\ NoWay \in Nat
  BY ItineraryAssumption DEF Asked, Valid, n
<1>2. Places = 1 .. n
  BY ItineraryAssumption DEF Asked, Places, n
<1>3. ToSet(ciudades) = {ciudades[p] : p \in Places}
  BY DEF ToSet, Places
<1>4. \A p, q \in Places : ciudades[p] = ciudades[q] => p = q
  BY DEF Asked, Valid, IsInjective, Places
<1>5. Starts \subseteq Places
  BY <1>1, <1>2 DEF Starts
<1>6. IsFiniteSet(1 .. n) /\ Cardinality(1 .. n) = n
  BY <1>1, FS_Interval
<1> QED BY <1>1, <1>2, <1>3, <1>4, <1>5, <1>6

(* A leg costs its weight, far less than NoWay, or it is NoWay. *)
LEMMA LegFacts ==
  ASSUME Asked, NEW p \in Places, NEW q \in Places, p # q
  PROVE  /\ Value(ciudades[p], ciudades[q]) \in Nat
         /\ MaxCities * Value(ciudades[p], ciudades[q]) < NoWay
         /\ Leg(p, q) \in Nat
         /\ Leg(p, q) = IF Offered(ciudades[p], ciudades[q])
                          THEN Value(ciudades[p], ciudades[q]) ELSE NoWay
<1>1. ciudades[p] # ciudades[q]
  BY AskedFacts
<1> DEFINE arc2 == arcs[<<ciudades[p], ciudades[q]>>]
<1>2. arc2 \in Nat \X Nat /\ \A w \in 1 .. 2 : MaxCities * arc2[w] < NoWay
  BY <1>1, ItineraryAssumption DEF Asked, Places
<1>3. arc2[1] \in Nat /\ arc2[2] \in Nat /\ MaxCities * arc2[1] < NoWay /\ MaxCities * arc2[2] < NoWay
  BY <1>2
<1> HIDE DEF arc2
<1>4. Value(ciudades[p], ciudades[q]) \in {arc2[1], arc2[2]}
  BY DEF Value, arc2
<1> QED BY <1>3, <1>4, AskedFacts DEF Leg

(* The masks are finite, and lose one with each place. *)
LEMMA MaskFacts ==
  ASSUME Asked, NEW mask \in SUBSET Places
  PROVE  /\ IsFiniteSet(mask) /\ Cardinality(mask) \in Nat /\ Cardinality(mask) <= n
         /\ \A p \in mask : Cardinality(mask \ {p}) = Cardinality(mask) - 1
<1>1. IsFiniteSet(mask) /\ Cardinality(mask) <= n
  BY AskedFacts, FS_Subset
<1>2. Cardinality(mask) \in Nat
  BY <1>1, FS_CardinalityType
<1>3. \A p \in mask : Cardinality(mask \ {p}) = Cardinality(mask) - 1
  BY <1>1, FS_RemoveElement
<1> QED BY <1>1, <1>2, <1>3

(* An entry looks at the row below only for the places that are left. *)
LEMMA EntryLooksBelow ==
  ASSUME NEW mask, NEW last, NEW f, NEW g,
         last \in mask => \A p \in mask \ {last} : f[p] = g[p]
  PROVE  Entry(mask, last, f) = Entry(mask, last, g)
<1>1. CASE last \notin mask
  BY <1>1 DEF Entry
<1>2. CASE last \in mask
  <2> DEFINE rest == mask \ {last}
             costs(row) == {Capped(row[p].cost + Leg(p, last)) : p \in rest}
             those(row, least) == {p \in rest : Capped(row[p].cost + Leg(p, last)) = least}
  <2>1. \A p \in rest : f[p] = g[p]
    BY <1>2
  <2>2. costs(f) = costs(g) /\ \A least : those(f, least) = those(g, least)
    BY <2>1
  <2>3. Entry(mask, last, f) = 
          IF rest = {} /\ last \notin Starts THEN [cost |-> NoWay, before |-> 0]
          ELSE IF rest = {} THEN [cost |-> 0, before |-> 0]
          ELSE [cost |-> Min(costs(f)),
                before |-> IF Min(costs(f)) = NoWay THEN 0 ELSE Min(those(f, Min(costs(f))))]
    BY <1>2 DEF Entry
  <2>4. Entry(mask, last, g) = 
          IF rest = {} /\ last \notin Starts THEN [cost |-> NoWay, before |-> 0]
          ELSE IF rest = {} THEN [cost |-> 0, before |-> 0]
          ELSE [cost |-> Min(costs(g)),
                before |-> IF Min(costs(g)) = NoWay THEN 0 ELSE Min(those(g, Min(costs(g))))]
    BY <1>2 DEF Entry
  <2> HIDE DEF costs, those, rest
  <2> QED BY <2>2, <2>3, <2>4
<1> QED BY <1>1, <1>2

(* Row(mask, f): what the tables are of a mask, from those of smaller ones. *)
Row(mask, f) == [last \in Places |-> Entry(mask, last, f[mask \ {last}])]

(* The programme has tables: its recursion is over smaller and smaller masks. *)
LEMMA TablesExist ==
  ASSUME Asked
  PROVE  \E f : f = [mask \in SUBSET Places |-> Row(mask, f)]
<1> DEFINE UpTo(k, f) == \A mask \in SUBSET Places : Cardinality(mask) <= k => f[mask] = Row(mask, f)
           T == {k \in Nat : \E f : UpTo(k, f)}
<1>1. ASSUME NEW k \in Nat, NEW f,
             \A mask \in SUBSET Places : Cardinality(mask) < k => f[mask] = Row(mask, f)
      PROVE  \E g : g = [mask \in SUBSET Places |-> g[mask]] /\ UpTo(k, g)
  <2> DEFINE g == [mask \in SUBSET Places |-> Row(mask, f)]
  <2>1. ASSUME NEW mask \in SUBSET Places, Cardinality(mask) <= k
        PROVE  Row(mask, f) = Row(mask, g)
    <3>1. ASSUME NEW last \in mask PROVE f[mask \ {last}] = g[mask \ {last}]
      <4>1. Cardinality(mask \ {last}) < k /\ mask \ {last} \in SUBSET Places
        BY <2>1, MaskFacts
      <4> QED BY <4>1, <1>1
    <3>2. \A last \in Places : Entry(mask, last, f[mask \ {last}]) = Entry(mask, last, g[mask \ {last}])
      <4> HIDE DEF g
      <4> QED BY <3>1, EntryLooksBelow
    <3> HIDE DEF g
    <3> QED BY <3>2 DEF Row
  <2>2. UpTo(k, g)
    BY <2>1
  <2>3. g = [mask \in SUBSET Places |-> g[mask]]
    OBVIOUS
  <2> QED BY <2>2, <2>3
<1>2. 0 \in T
  <2>1. \A mask \in SUBSET Places : ~ (Cardinality(mask) < 0)
    BY MaskFacts
  <2>2. \E g : UpTo(0, g)
    BY <2>1, <1>1
  <2> QED BY <2>2
<1>3. ASSUME NEW k \in T PROVE k + 1 \in T
  <2>1. PICK f : UpTo(k, f)
    OBVIOUS
  <2>2. \A mask \in SUBSET Places : Cardinality(mask) < k + 1 => f[mask] = Row(mask, f)
    BY <2>1, MaskFacts
  <2>3. \E g : UpTo(k + 1, g)
    BY <2>2, <1>1
  <2> QED BY <2>3
<1>4. n \in T
  <2> HIDE DEF T
  <2>1. T \in SUBSET Nat
    BY DEF T
  <2> QED BY <1>2, <1>3, <2>1, SetInduction, AskedFacts
<1>5. PICK f : UpTo(n, f)
  BY <1>4
<1>6. \A mask \in SUBSET Places : Cardinality(mask) < n + 1 => f[mask] = Row(mask, f)
  BY <1>5, MaskFacts, AskedFacts
<1>7. PICK g : g = [mask \in SUBSET Places |-> g[mask]] /\ UpTo(n + 1, g)
  <2>1. n + 1 \in Nat
    BY AskedFacts
  <2> HIDE DEF T
  <2> QED BY <1>1, <1>6, <2>1
<1>8. \A mask \in SUBSET Places : g[mask] = Row(mask, g)
  <2>1. \A mask \in SUBSET Places : Cardinality(mask) <= n + 1
    BY MaskFacts, AskedFacts
  <2> QED BY <1>7, <2>1
<1> QED BY <1>7, <1>8

(* The tables are the ones the recursion describes. *)
LEMMA BestWaysTables ==
  ASSUME Asked
  PROVE  BestWays = [mask \in SUBSET Places |-> Row(mask, BestWays)]
BY TablesExist DEF BestWays, Row

(* The entry of a mask and a last place. *)
LEMMA BestWaysEntry ==
  ASSUME Asked, NEW mask \in SUBSET Places, NEW last \in Places
  PROVE  BestWays[mask][last] = Entry(mask, last, BestWays[mask \ {last}])
<1>1. BestWays[mask] = Row(mask, BestWays)
  BY BestWaysTables
<1> QED BY <1>1 DEF Row

(* The cost of a best way that visits the places of mask and ends in last. *)
CostOf(mask, last) == BestWays[mask][last].cost
Before(mask, last) == BestWays[mask][last].before

CostType == \A mask \in SUBSET Places, last \in Places : CostOf(mask, last) \in 0 .. NoWay

(* A way of one place costs nothing where a route may start. *)
LEMMA EmptyEntry ==
  ASSUME Asked, NEW mask \in SUBSET Places, NEW last \in Places,
         last \notin mask \/ mask = {last}
  PROVE  CostOf(mask, last) = IF last \in mask /\ last \in Starts THEN 0 ELSE NoWay
<1> DEFINE row == BestWays[mask \ {last}]
<1>1. BestWays[mask][last] = Entry(mask, last, row)
  BY BestWaysEntry
<1>2. CASE last \notin mask
  <2>1. Entry(mask, last, row) = [cost |-> NoWay, before |-> 0]
    BY <1>2 DEF Entry
  <2> HIDE DEF row
  <2> QED BY <1>1, <1>2, <2>1 DEF CostOf
<1>3. CASE last \in mask
  <2>1. mask \ {last} = {}
    BY <1>3
  <2>2. Entry(mask, last, row) = IF last \in Starts THEN [cost |-> 0, before |-> 0]
                                 ELSE [cost |-> NoWay, before |-> 0]
    BY <1>3, <2>1 DEF Entry
  <2> HIDE DEF row
  <2> QED BY <1>1, <1>3, <2>2 DEF CostOf
<1> QED BY <1>2, <1>3

(* What the code compares: the costs of coming to last from the others. *)
Through(mask, last, p) == Capped(CostOf(mask \ {last}, p) + Leg(p, last))

(* Of more places, it is the least over the places before the last. *)
LEMMA LongerEntry ==
  ASSUME Asked, NEW mask \in SUBSET Places, NEW last \in mask, mask # {last},
         \A p \in mask \ {last} : CostOf(mask \ {last}, p) \in 0 .. NoWay
  PROVE  /\ CostOf(mask, last) \in 0 .. NoWay
         /\ \A p \in mask \ {last} : CostOf(mask, last) <= Through(mask, last, p)
         /\ CostOf(mask, last) < NoWay =>
              /\ Before(mask, last) \in mask \ {last}
              /\ CostOf(mask, last) = Through(mask, last, Before(mask, last))
<1> DEFINE rest == mask \ {last}
           costs == {Through(mask, last, p) : p \in rest}
           those == {p \in rest : Through(mask, last, p) = Min(costs)}
<1>1. rest # {} /\ rest \subseteq Places /\ last \in Places
  OBVIOUS
<1>2. ASSUME NEW p \in rest PROVE Through(mask, last, p) \in 0 .. NoWay
  <2>1. Leg(p, last) \in Nat
    BY <1>1, LegFacts
  <2>2. CostOf(mask \ {last}, p) \in 0 .. NoWay
    OBVIOUS
  <2>3. CostOf(mask \ {last}, p) \in Nat /\ NoWay \in Nat
    BY <2>2, AskedFacts
  <2> HIDE DEF rest
  <2> QED BY <2>1, <2>3 DEF Through, Capped
<1>3. costs \in SUBSET Nat /\ costs # {} /\ costs \subseteq 0 .. NoWay
  BY <1>1, <1>2, AskedFacts
<1>4. Min(costs) \in costs /\ \A c \in costs : Min(costs) <= c
  BY <1>3, LeastOfNats
<1>5. those \in SUBSET Nat /\ those # {}
  <2>1. rest \subseteq Nat
    BY <1>1, AskedFacts
  <2>2. PICK p \in rest : Through(mask, last, p) = Min(costs)
    BY <1>4
  <2> QED BY <2>1, <2>2
<1>6. Min(those) \in those
  BY <1>5, LeastOfNats
<1>7. /\ CostOf(mask, last) = Min(costs)
      /\ Before(mask, last) = IF Min(costs) = NoWay THEN 0 ELSE Min(those)
  <2>1. BestWays[mask][last] = Entry(mask, last, BestWays[rest])
    BY <1>1, BestWaysEntry
  <2>2. Entry(mask, last, BestWays[rest])
          = [cost |-> Min(costs), before |-> IF Min(costs) = NoWay THEN 0 ELSE Min(those)]
    BY <1>1 DEF Entry, Through, CostOf
  <2> HIDE DEF costs, those, rest
  <2> QED BY <2>1, <2>2 DEF CostOf, Before
<1>8. \A p \in rest : Min(costs) <= Through(mask, last, p)
  BY <1>4
<1>9. Min(those) \in rest /\ Through(mask, last, Min(those)) = Min(costs)
  BY <1>6
<1>10. Min(costs) \in 0 .. NoWay
  BY <1>3, <1>4
<1> HIDE DEF costs, those
<1>11. Min(costs) < NoWay => Before(mask, last) = Min(those)
  BY <1>7, AskedFacts
<1> QED BY <1>7, <1>8, <1>9, <1>10, <1>11

(* Every entry is a number up to NoWay. *)
LEMMA CostsAreTyped ==
  ASSUME Asked
  PROVE  CostType
<1> DEFINE T == {k \in Nat : \A mask \in SUBSET Places, last \in Places :
                               Cardinality(mask) <= k => CostOf(mask, last) \in 0 .. NoWay}
<1>1. ASSUME NEW mask \in SUBSET Places, NEW last \in Places,
             last \in mask => \A p \in mask \ {last} : CostOf(mask \ {last}, p) \in 0 .. NoWay
      PROVE  CostOf(mask, last) \in 0 .. NoWay
  <2>1. CASE last \notin mask \/ mask = {last}
    BY <2>1, EmptyEntry, AskedFacts
  <2>2. CASE last \in mask /\ mask # {last}
    BY <1>1, <2>2, LongerEntry
  <2> QED BY <2>1, <2>2
<1>2. 0 \in T
  <2>1. \A mask \in SUBSET Places : Cardinality(mask) <= 0 => mask = {}
    BY MaskFacts, FS_EmptySet
  <2>2. \A last \in Places : CostOf({}, last) \in 0 .. NoWay
    BY <1>1
  <2> QED BY <2>1, <2>2
<1>3. ASSUME NEW k \in T PROVE k + 1 \in T
  <2> SUFFICES ASSUME NEW mask \in SUBSET Places, NEW last \in Places, Cardinality(mask) <= k + 1
               PROVE  CostOf(mask, last) \in 0 .. NoWay
    OBVIOUS
  <2>1. ASSUME last \in mask, NEW p \in mask \ {last}
        PROVE  CostOf(mask \ {last}, p) \in 0 .. NoWay
    <3>1. Cardinality(mask \ {last}) <= k /\ mask \ {last} \in SUBSET Places
      BY <2>1, MaskFacts
    <3> QED BY <3>1
  <2> QED BY <1>1, <2>1
<1>4. n \in T
  <2>1. T \in SUBSET Nat
    OBVIOUS
  <2> HIDE DEF T
  <2> QED BY <1>2, <1>3, <2>1, SetInduction, AskedFacts
<1> QED BY <1>4, MaskFacts DEF CostType

(* What a step of the programme says, in terms of costs. *)
LEMMA Extends ==
  ASSUME Asked, NEW mask \in SUBSET Places, NEW last \in mask, mask # {last},
         NEW p \in mask \ {last}
  PROVE  CostOf(mask, last) <= CostOf(mask \ {last}, p) + Leg(p, last)
<1>1. mask \ {last} \in SUBSET Places /\ p \in Places /\ last \in Places /\ p # last
  OBVIOUS
<1>2. \A q \in mask \ {last} : CostOf(mask \ {last}, q) \in 0 .. NoWay
  BY <1>1, CostsAreTyped DEF CostType
<1>3. CostOf(mask, last) \in 0 .. NoWay /\ CostOf(mask, last) <= Through(mask, last, p)
  BY <1>2, LongerEntry
<1>4. Leg(p, last) \in Nat /\ NoWay \in Nat
  BY <1>1, LegFacts, AskedFacts
<1> QED BY <1>2, <1>3, <1>4 DEF Through, Capped

(* What is reached at all is reached from the place in prev, at that cost. *)
LEMMA ComesFrom ==
  ASSUME Asked, NEW mask \in SUBSET Places, NEW last \in mask, mask # {last},
         CostOf(mask, last) < NoWay
  PROVE  LET p == Before(mask, last)
         IN  /\ p \in mask \ {last}
             /\ Offered(ciudades[p], ciudades[last])
             /\ CostOf(mask \ {last}, p) < NoWay
             /\ CostOf(mask, last) = CostOf(mask \ {last}, p) + Value(ciudades[p], ciudades[last])
<1> DEFINE p == Before(mask, last)
<1>1. mask \ {last} \in SUBSET Places /\ last \in Places
  OBVIOUS
<1>2. \A q \in mask \ {last} : CostOf(mask \ {last}, q) \in 0 .. NoWay
  BY <1>1, CostsAreTyped DEF CostType
<1>3. p \in mask \ {last} /\ CostOf(mask, last) = Through(mask, last, p)
  BY <1>2, LongerEntry
<1> HIDE DEF p
<1>4. /\ Leg(p, last) \in Nat /\ NoWay \in Nat /\ Value(ciudades[p], ciudades[last]) \in Nat
      /\ Leg(p, last) = IF Offered(ciudades[p], ciudades[last])
                          THEN Value(ciudades[p], ciudades[last]) ELSE NoWay
  BY <1>1, <1>3, LegFacts, AskedFacts
<1>5. CostOf(mask \ {last}, p) \in Nat
  BY <1>2, <1>3, <1>4
<1> QED BY <1>3, <1>4, <1>5 DEF Through, Capped, p

(***************************************************************************)
(* Sums of the legs of a route.                                            *)
(***************************************************************************)
LEMMA SumsExist ==
  ASSUME NEW k \in Nat, NEW r, DOMAIN r = 1 .. k
  PROVE  Sums(r) = [x \in 1 .. k |-> IF x = 1 THEN 0 ELSE Sums(r)[x - 1] + Value(r[x - 1], r[x])]
<1> DEFINE Next1(f, x) == IF x = 1 THEN 0 ELSE f[x - 1] + Value(r[x - 1], r[x])
           UpTo(m, f) == \A x \in 1 .. k : x <= m => f[x] = Next1(f, x)
           T == {m \in Nat : \E f : f = [x \in 1 .. k |-> f[x]] /\ UpTo(m, f)}
<1>1. 0 \in T
  <2> DEFINE f == [x \in 1 .. k |-> 0]
  <2>1. f = [x \in 1 .. k |-> f[x]] /\ UpTo(0, f)
    OBVIOUS
  <2> QED BY <2>1
<1>2. ASSUME NEW m \in T PROVE m + 1 \in T
  <2>1. PICK f : f = [x \in 1 .. k |-> f[x]] /\ UpTo(m, f)
    OBVIOUS
  <2> DEFINE g == [x \in 1 .. k |-> IF x <= m THEN f[x] ELSE Next1(f, x)]
  <2>2. ASSUME NEW x \in 1 .. k, x <= m + 1 PROVE g[x] = Next1(g, x)
    <3>1. g[x] = Next1(f, x)
      BY <2>1
    <3>2. x # 1 => x - 1 \in 1 .. k /\ x - 1 <= m
      BY <2>2
    <3>3. x # 1 => g[x - 1] = f[x - 1]
      BY <3>2
    <3> HIDE DEF g
    <3> QED BY <3>1, <3>3
  <2>3. g = [x \in 1 .. k |-> g[x]]
    OBVIOUS
  <2> HIDE DEF g
  <2>4. \E e : e = [x \in 1 .. k |-> e[x]] /\ UpTo(m + 1, e)
    BY <2>2, <2>3
  <2>5. m + 1 \in Nat
    OBVIOUS
  <2> QED BY <2>4, <2>5
<1>3. T \in SUBSET Nat
  OBVIOUS
<1>4. k \in T
  <2> HIDE DEF T
  <2> QED BY <1>1, <1>2, <1>3, SetInduction
<1>5. PICK f : f = [x \in 1 .. k |-> f[x]] /\ UpTo(k, f)
  BY <1>4
<1>6. f = [x \in DOMAIN r |-> Next1(f, x)]
  <2> HIDE DEF Next1
  <2>1. \A x \in 1 .. k : f[x] = Next1(f, x)
    BY <1>5
  <2> QED BY <1>5, <2>1
<1> QED BY <1>6 DEF Sums

(* A sum grows with each leg by its weight. *)
LEMMA SumsSteps ==
  ASSUME NEW k \in Nat, NEW r, DOMAIN r = 1 .. k
  PROVE  /\ k >= 1 => Sums(r)[1] = 0
         /\ \A x \in 1 .. k - 1 : Sums(r)[x + 1] = Sums(r)[x] + Value(r[x], r[x + 1])
<1> DEFINE s == Sums(r)
<1>1. s = [x \in 1 .. k |-> IF x = 1 THEN 0 ELSE s[x - 1] + Value(r[x - 1], r[x])]
  BY SumsExist
<1> HIDE DEF s
<1>2. k >= 1 => s[1] = 0
  BY <1>1
<1>3. ASSUME NEW x \in 1 .. k - 1 PROVE s[x + 1] = s[x] + Value(r[x], r[x + 1])
  <2>1. x + 1 \in 1 .. k /\ x + 1 # 1 /\ x + 1 - 1 = x
    OBVIOUS
  <2> QED BY <1>1, <2>1
<1> QED BY <1>2, <1>3 DEF s



(***************************************************************************)
(* Every tour costs at least what the tables say, and less than NoWay.     *)
(***************************************************************************)
Seen(places, x) == {places[y] : y \in 1 .. x}

(* An order of the places: each of them once, over arcs that are sold. *)
IsWay(places) ==
  /\ places \in [1 .. n -> Places]
  /\ \A x, y \in 1 .. n : places[x] = places[y] => x = y
  /\ places[1] \in Starts
  /\ \A x \in 1 .. n - 1 : Offered(ciudades[places[x]], ciudades[places[x + 1]])

(* In the end it has been in every place. *)
LEMMA AllSeen ==
  ASSUME Asked, NEW places, IsWay(places)
  PROVE  Seen(places, n) = Places
<1>1. IsFiniteSet(Places) /\ Cardinality(Places) = n /\ n \in Nat
  BY AskedFacts
<1>2. 1 \in 1 .. n + 1 /\ n \in 0 .. n /\ 1 <= n + 1 /\ n - 1 + 1 = n
  BY <1>1
<1>3. Cardinality(Stretch(places, 1, n)) = n - 1 + 1
  <2>1. places \in [1 .. n -> Places] /\ \A x, y \in 1 .. n : places[x] = places[y] => x = y
    BY DEF IsWay
  <2>2. \A a \in 1 .. n + 1, b \in 0 .. n :
          a <= b + 1 => /\ IsFiniteSet(Stretch(places, a, b))
                        /\ Cardinality(Stretch(places, a, b)) = b - a + 1
    <3>1. n \in Nat
      BY <1>1
    <3> QED BY <2>1, <3>1, StretchSize
  <2> QED BY <1>2, <2>2
<1>4. Seen(places, n) = Stretch(places, 1, n) /\ Seen(places, n) \in SUBSET Places
  BY DEF Seen, Stretch, IsWay
<1> QED BY <1>1, <1>2, <1>3, <1>4, FS_Subset

(* On the way, no table entry is more than what it has cost so far. *)
LEMMA WayCosts ==
  ASSUME Asked, NEW places, IsWay(places), NEW k \in Nat, k >= n, NEW r, DOMAIN r = 1 .. k,
         \A x \in 1 .. n : r[x] = ciudades[places[x]]
  PROVE  \A x \in 1 .. n : /\ Sums(r)[x] \in Nat
                           /\ CostOf(Seen(places, x), places[x]) <= Sums(r)[x]
                           /\ MaxCities * Sums(r)[x] + (x - 1) <= (x - 1) * NoWay
<1> DEFINE P(x) == /\ Sums(r)[x] \in Nat
                   /\ CostOf(Seen(places, x), places[x]) <= Sums(r)[x]
                   /\ MaxCities * Sums(r)[x] + (x - 1) <= (x - 1) * NoWay
           T == {m \in Nat : m + 1 \in 1 .. n => P(m + 1)}
<1>0. n \in Nat /\ n >= 2 /\ MaxCities \in Nat /\ NoWay \in Nat
  BY AskedFacts
<1>1. P(1)
  <2>1. Seen(places, 1) = {places[1]} /\ places[1] \in Places
    BY <1>0 DEF Seen, IsWay
  <2>2. CostOf(Seen(places, 1), places[1]) = 0
    BY <2>1, EmptyEntry DEF IsWay
  <2>3. Sums(r)[1] = 0
    BY <1>0, SumsSteps
  <2>4. MaxCities * 0 = 0 /\ 0 * NoWay = 0
    BY <1>0, Z3
  <2> QED BY <2>2, <2>3, <2>4
<1>2. ASSUME NEW x \in 1 .. n - 1, P(x) PROVE P(x + 1)
  <2> DEFINE mask == Seen(places, x + 1)
             last == places[x + 1]
             v    == Value(r[x], r[x + 1])
  <2>0. x \in 1 .. n /\ x + 1 \in 1 .. n /\ x \in 1 .. k - 1 /\ x - 1 \in Nat /\ x \in Nat
    BY <1>0
  <2>1. places[x] \in Places /\ last \in Places /\ places[x] # last
    BY <2>0 DEF IsWay
  <2>2. mask \in SUBSET Places /\ last \in mask /\ mask \ {last} = Seen(places, x)
        /\ places[x] \in mask \ {last}
    <3>1. \A y \in 1 .. x + 1 : y \in 1 .. n /\ (y = x + 1 \/ y \in 1 .. x)
      BY <1>0, <2>0
    <3>2. \A y \in 1 .. x : y \in 1 .. n /\ y # x + 1 /\ y \in 1 .. x + 1
      BY <1>0, <2>0
    <3>3. mask \in SUBSET Places
      BY <3>1 DEF Seen, IsWay
    <3>4. last \in mask
      <4>1. x + 1 \in 1 .. x + 1
        BY <2>0
      <4> QED BY <4>1 DEF Seen
    <3>5. Seen(places, x) \subseteq mask \ {last}
      BY <2>0, <3>2 DEF Seen, IsWay
    <3>6. mask \ {last} \subseteq Seen(places, x)
      BY <3>1 DEF Seen
    <3>7. places[x] \in Seen(places, x)
      <4>1. x \in 1 .. x
        BY <2>0
      <4> QED BY <4>1 DEF Seen
    <3> QED BY <3>3, <3>4, <3>5, <3>6, <3>7
  <2>3. CostOf(mask, last) <= CostOf(Seen(places, x), places[x]) + Leg(places[x], last)
    <3>1. mask # {last}
      BY <2>2
    <3> HIDE DEF mask, last
    <3> QED BY <2>2, <3>1, Extends
  <2>4. v = Value(ciudades[places[x]], ciudades[last]) /\ Offered(ciudades[places[x]], ciudades[last])
    BY <2>0 DEF IsWay
  <2>5. Leg(places[x], last) = v /\ v \in Nat /\ MaxCities * v < NoWay
    <3> HIDE DEF v, last
    <3> QED BY <2>1, <2>4, LegFacts
  <2>6. Sums(r)[x + 1] = Sums(r)[x] + v
    BY <2>0, SumsSteps
  <2>7. CostOf(Seen(places, x), places[x]) \in Nat /\ CostOf(mask, last) \in Nat
    <3>1. Seen(places, x) \in SUBSET Places
      BY <2>2
    <3> HIDE DEF mask, last
    <3> QED BY <1>0, <2>1, <2>2, <3>1, CostsAreTyped DEF CostType
  <2> HIDE DEF mask, last, v
  <2>8. MaxCities * (Sums(r)[x] + v) + (x - 1 + 1) <= (x - 1 + 1) * NoWay
    BY <1>0, <1>2, <2>0, <2>5, OneMore
  <2>9. CostOf(mask, last) <= Sums(r)[x + 1] /\ Sums(r)[x + 1] \in Nat
    BY <1>2, <2>3, <2>5, <2>6, <2>7
  <2>10. x - 1 + 1 = x /\ x + 1 - 1 = x
    BY <2>0
  <2>11. MaxCities * Sums(r)[x + 1] + (x + 1 - 1) <= (x + 1 - 1) * NoWay
    BY <2>6, <2>8, <2>10
  <2> QED BY <2>9, <2>11 DEF mask, last
<1>3. T \in SUBSET Nat /\ 0 \in T
  BY <1>1
<1>4. ASSUME NEW m \in T PROVE m + 1 \in T
  <2>1. m \in Nat /\ (m + 1 \in 1 .. n => P(m + 1))
    OBVIOUS
  <2> HIDE DEF P
  <2>2. m + 1 + 1 \in 1 .. n => m + 1 \in 1 .. n - 1 /\ m + 1 \in 1 .. n
    BY <1>0, <2>1
  <2>3. m + 1 + 1 \in 1 .. n => P(m + 1 + 1)
    BY <1>2, <2>1, <2>2
  <2> QED BY <2>1, <2>3
<1>5. T = Nat
  <2> HIDE DEF T
  <2> QED BY <1>3, <1>4, SetInduction
<1> HIDE DEF P
<1>6. ASSUME NEW x \in 1 .. n PROVE P(x)
  <2>1. x - 1 \in Nat /\ x - 1 + 1 = x
    BY <1>0
  <2>2. x - 1 \in T
    <3> HIDE DEF T
    <3> QED BY <1>5, <2>1
  <2> QED BY <2>1, <2>2
<1> QED BY <1>6 DEF P

(* What the end of the programme compares. *)
Whole(last) == Capped(CostOf(Places, last) + Closing(last))
Best        == Min({Whole(last) : last \in Places})
BestEnd     == Min({last \in Places : Whole(last) = Best})

(* The least of them, and where it is found. *)
LEMMA BestFacts ==
  ASSUME Asked
  PROVE  /\ \A last \in Places : Whole(last) \in Nat /\ Closing(last) \in Nat /\ Best <= Whole(last)
         /\ Best \in 0 .. NoWay
         /\ BestEnd \in Places /\ Whole(BestEnd) = Best
<1>0. n \in Nat /\ n >= 2 /\ NoWay \in Nat /\ Places = 1 .. n
  BY AskedFacts
<1>1. ASSUME NEW last \in Places PROVE Closing(last) \in Nat /\ Whole(last) \in 0 .. NoWay
  <2>1. Closing(last) \in Nat
    BY <1>0, LegFacts DEF Closing
  <2>2. CostOf(Places, last) \in Nat
    BY <1>0, CostsAreTyped DEF CostType
  <2> QED BY <1>0, <2>1, <2>2 DEF Whole, Capped
<1> DEFINE all == {Whole(last) : last \in Places}
           those == {last \in Places : Whole(last) = Best}
<1>2. all \in SUBSET Nat /\ all # {} /\ all \subseteq 0 .. NoWay
  BY <1>0, <1>1
<1>3. Best \in all /\ \A c \in all : Best <= c
  BY <1>2, LeastOfNats DEF Best
<1>4. those \in SUBSET Nat /\ those # {}
  BY <1>0, <1>3
<1>5. BestEnd \in those
  BY <1>4, LeastOfNats DEF BestEnd
<1> QED BY <1>1, <1>2, <1>3, <1>5

(* A sequence that is one longer. *)
LEMMA Appended ==
  ASSUME NEW S, NEW s \in Seq(S), NEW v \in S
  PROVE  /\ Append(s, v) \in Seq(S) /\ Len(s) \in Nat
         /\ Len(Append(s, v)) = Len(s) + 1 /\ DOMAIN Append(s, v) = 1 .. Len(s) + 1
         /\ \A x \in 1 .. Len(s) : Append(s, v)[x] = s[x]
         /\ Append(s, v)[Len(s) + 1] = v
OBVIOUS

ComesBack(r, places) ==
  Len(r) = n + 1 /\ r[n + 1] = r[1] /\ places[1] = 1 /\ Offered(r[n], r[1])

(* A tour is an order of the places, come back to the first if asked. *)
LEMMA TourIsWay ==
  ASSUME Asked, NEW r \in Tours
  PROVE  \E places : /\ IsWay(places)
                     /\ \A x \in 1 .. n : r[x] = ciudades[places[x]]
                     /\ DOMAIN r = 1 .. Len(r) /\ Len(r) \in Nat /\ Len(r) >= n
                     /\ \/ returnToOrigin /\ ComesBack(r, places)
                        \/ ~returnToOrigin /\ Len(r) = n
<1>0. /\ n \in Nat /\ n >= 2 /\ Places = 1 .. n
      /\ ToSet(ciudades) = {ciudades[p] : p \in Places}
      /\ \A p, q \in Places : ciudades[p] = ciudades[q] => p = q
  BY AskedFacts
<1>a. n \in Nat /\ n >= 2
  BY <1>0
<1>1. PICK o \in [1 .. n -> ToSet(ciudades)] :
           /\ IsInjective(o) /\ (returnToOrigin => o[1] = ciudades[1])
           /\ r = IF returnToOrigin THEN Append(o, o[1]) ELSE o
  BY DEF Tours, n
<1>2. \A leg \in Legs(r) : arcs[leg][1] > 0 /\ arcs[leg][2] > 0
  BY DEF Tours
<1>1a. o \in [1 .. n -> ToSet(ciudades)] /\ IsInjective(o)
  BY <1>1
<1>3. o \in Seq(ToSet(ciudades)) /\ Len(o) = n /\ o[1] \in ToSet(ciudades)
  BY <1>a, <1>1a
<1>4. /\ DOMAIN r = 1 .. Len(r) /\ Len(r) \in Nat /\ Len(r) >= n
      /\ \A x \in 1 .. n : r[x] = o[x]
  <2>1. CASE returnToOrigin
    <3>1. r = Append(o, o[1])
      BY <1>1, <2>1
    <3>2. /\ Len(r) = Len(o) + 1 /\ DOMAIN r = 1 .. Len(o) + 1
          /\ \A x \in 1 .. Len(o) : r[x] = o[x]
      BY <1>3, <3>1, Appended
    <3>3. n \in Nat /\ Len(o) = n
      BY <1>0, <1>3
    <3>4. Len(r) = n + 1 /\ DOMAIN r = 1 .. n + 1 /\ \A x \in 1 .. n : r[x] = o[x]
      BY <3>2, <3>3
    <3> QED BY <3>3, <3>4
  <2>2. CASE ~returnToOrigin
    <3>1. r = o
      BY <1>1, <2>2
    <3> QED BY <1>a, <1>1a, <1>3, <3>1
  <2> QED BY <2>1, <2>2
<1> DEFINE places == [x \in 1 .. n |-> CHOOSE p \in Places : ciudades[p] = o[x]]
<1>5. \A x \in 1 .. n : places[x] \in Places /\ ciudades[places[x]] = o[x]
  <2>1. \A x \in 1 .. n : \E p \in Places : ciudades[p] = o[x]
    <3>1. \A x \in 1 .. n : o[x] \in ToSet(ciudades)
      BY <1>1a
    <3>2. ToSet(ciudades) = {ciudades[p] : p \in Places}
      BY <1>0
    <3>3. \A c \in ToSet(ciudades) : \E p \in Places : ciudades[p] = c
      BY <3>2
    <3> QED BY <3>1, <3>3
  <2> QED BY <2>1
<1>6. places \in [1 .. n -> Places]
  BY <1>5
<1> HIDE DEF places
<1>7. \A x, y \in 1 .. n : places[x] = places[y] => x = y
  <2>1. \A x, y \in 1 .. n : o[x] = o[y] => x = y
    BY <1>1a DEF IsInjective
  <2> QED BY <1>5, <2>1
<1>8. ASSUME returnToOrigin PROVE places[1] = 1
  <2>1. o[1] = ciudades[1]
    BY <1>1, <1>8
  <2>2. 1 \in 1 .. n
    BY <1>0
  <2> QED BY <1>0, <1>5, <2>1, <2>2
<1>9. places[1] \in Starts
  <2>1. places[1] \in Places
    BY <1>0, <1>6
  <2> QED BY <1>8, <2>1 DEF Starts
<1>10. \A x \in 1 .. Len(r) - 1 : Offered(r[x], r[x + 1])
  BY <1>2 DEF Legs, Offered
<1>11. \A x \in 1 .. n - 1 : Offered(ciudades[places[x]], ciudades[places[x + 1]])
  <2>1. ASSUME NEW x \in 1 .. n - 1
        PROVE  x \in 1 .. Len(r) - 1 /\ x \in 1 .. n /\ x + 1 \in 1 .. n
    BY <1>0, <1>4
  <2> QED BY <1>4, <1>5, <1>10, <2>1
<1>12. IsWay(places) /\ \A x \in 1 .. n : r[x] = ciudades[places[x]]
  BY <1>4, <1>5, <1>6, <1>7, <1>9, <1>11 DEF IsWay
<1>13. CASE returnToOrigin
  <2>1. r = Append(o, o[1])
    BY <1>1, <1>13
  <2>2. Len(r) = n + 1 /\ r[n + 1] = o[1]
    BY <1>a, <1>3, <2>1, Appended
  <2>3. n \in 1 .. Len(r) - 1 /\ 1 \in 1 .. n
    BY <1>0, <2>2
  <2>4. r[n + 1] = r[1]
    BY <1>4, <2>2, <2>3
  <2>5. Offered(r[n], r[1])
    BY <1>10, <2>3, <2>4
  <2>6. ComesBack(r, places)
    BY <1>8, <1>13, <2>2, <2>4, <2>5 DEF ComesBack
  <2> QED BY <1>4, <1>12, <1>13, <2>6
<1>14. CASE ~returnToOrigin
  <2>1. r = o
    BY <1>1, <1>14
  <2>2. Len(r) = n
    BY <1>3, <2>1
  <2> QED BY <1>4, <1>12, <1>14, <2>2
<1> QED BY <1>13, <1>14

(* No tour is cheaper than the best that is found, or as dear as NoWay. *)
LEMMA TourCosts ==
  ASSUME Asked, NEW r \in Tours
  PROVE  Total(r) \in Nat /\ Best <= Total(r) /\ Total(r) < NoWay
<1>0. n \in Nat /\ n >= 2 /\ n <= MaxCities /\ MaxCities \in Nat /\ NoWay \in Nat
      /\ Places = 1 .. n
  BY AskedFacts
<1>1. PICK places : /\ IsWay(places)
                    /\ \A x \in 1 .. n : r[x] = ciudades[places[x]]
                    /\ DOMAIN r = 1 .. Len(r) /\ Len(r) \in Nat /\ Len(r) >= n
                    /\ \/ returnToOrigin /\ ComesBack(r, places)
                       \/ ~returnToOrigin /\ Len(r) = n
  BY TourIsWay
<1>2. /\ IsWay(places)
      /\ \A x \in 1 .. n : r[x] = ciudades[places[x]]
      /\ DOMAIN r = 1 .. Len(r) /\ Len(r) \in Nat /\ Len(r) >= n
  BY <1>1
<1> DEFINE last == places[n]
           s    == Sums(r)[n]
<1>3. s \in Nat /\ CostOf(Places, last) <= s /\ MaxCities * s + (n - 1) <= (n - 1) * NoWay
  <2>1. n \in 1 .. n
    BY <1>0
  <2> HIDE DEF s, last
  <2>2. /\ Sums(r)[n] \in Nat
        /\ CostOf(Seen(places, n), places[n]) <= Sums(r)[n]
        /\ MaxCities * Sums(r)[n] + (n - 1) <= (n - 1) * NoWay
    BY <1>2, <2>1, WayCosts
  <2> QED BY <1>2, <2>2, AllSeen DEF s, last
<1>4. last \in Places /\ CostOf(Places, last) \in Nat
  <2>1. last \in Places
    BY <1>0, <1>2 DEF IsWay
  <2> HIDE DEF last
  <2> QED BY <1>0, <2>1, CostsAreTyped DEF CostType
<1>5. Best <= Whole(last) /\ Closing(last) \in Nat
  BY <1>4, BestFacts
<1>6. CASE ~returnToOrigin
  <2>1. Total(r) = s
    <3>1. Len(r) = n
      BY <1>1, <1>6
    <3> QED BY <3>1 DEF Total
  <2>2. Closing(last) = 0
    BY <1>6 DEF Closing
  <2>3. s < NoWay
    <3>1. n - 1 \in Nat /\ 1 <= n - 1 /\ n - 1 <= MaxCities
      BY <1>0
    <3> HIDE DEF s
    <3> QED BY <1>0, <1>3, <3>1, FewerThan
  <2> HIDE DEF s, last
  <2>4. Whole(last) <= s
    BY <1>0, <1>3, <1>4, <2>2 DEF Whole, Capped
  <2>5. Best \in Nat /\ Whole(last) \in Nat
    BY <1>0, <1>4, BestFacts
  <2> QED BY <1>3, <1>5, <2>1, <2>3, <2>4, <2>5
<1>7. CASE returnToOrigin
  <2> DEFINE v == Value(r[n], r[1])
  <2>a. Len(r) = n + 1 /\ r[n + 1] = r[1] /\ places[1] = 1 /\ Offered(r[n], r[1])
    BY <1>1, <1>7 DEF ComesBack
  <2>0. 1 \in 1 .. n /\ n \in 1 .. n /\ n # 1 /\ n \in 1 .. Len(r) - 1
    BY <1>0, <2>a
  <2>1. Total(r) = s + v
    <3>1. Total(r) = Sums(r)[n + 1] /\ r[n + 1] = r[1]
      BY <2>a DEF Total
    <3>2. Sums(r)[n + 1] = Sums(r)[n] + Value(r[n], r[n + 1])
      BY <1>2, <2>0, SumsSteps
    <3> QED BY <3>1, <3>2
  <2>2. last # 1 /\ 1 \in Places
    BY <1>0, <1>2, <2>a, <2>0 DEF IsWay
  <2>3. r[n] = ciudades[last] /\ r[1] = ciudades[1]
    BY <1>2, <2>a, <2>0
  <2>4. Closing(last) = v /\ v \in Nat /\ MaxCities * v < NoWay
    <3>1. Offered(ciudades[last], ciudades[1])
      BY <2>a, <2>3
    <3>2. v = Value(ciudades[last], ciudades[1])
      BY <2>3
    <3> HIDE DEF v, last
    <3> QED BY <1>4, <1>7, <2>2, <3>1, <3>2, LegFacts DEF Closing
  <2> HIDE DEF s, v, last
  <2>5. MaxCities * (s + v) + (n - 1 + 1) <= (n - 1 + 1) * NoWay
    <3>1. n - 1 \in Nat
      BY <1>0
    <3> QED BY <1>0, <1>3, <2>4, <3>1, OneMore
  <2>6. s + v < NoWay
    <3>1. n - 1 + 1 = n /\ 1 <= n /\ s + v \in Nat
      BY <1>0, <1>3, <2>4
    <3>2. MaxCities * (s + v) + n <= n * NoWay
      BY <2>5, <3>1
    <3> QED BY <1>0, <3>1, <3>2, FewerThan
  <2>7. Whole(last) <= s + v
    BY <1>0, <1>3, <1>4, <2>4 DEF Whole, Capped
  <2>8. Best \in Nat /\ Whole(last) \in Nat
    BY <1>0, <1>4, BestFacts
  <2> QED BY <1>3, <1>5, <2>1, <2>4, <2>6, <2>7, <2>8
<1> QED BY <1>6, <1>7

(***************************************************************************)
(* The way back from the best end is a tour, and costs what the tables say.*)
(***************************************************************************)
LEMMA WayBackExists ==
  ASSUME Asked, NEW way, NEW end
  PROVE  WayBack(way, end) =
           [m \in 1 .. n |->
              IF m = 1 THEN [mask |-> Places, last |-> end]
              ELSE [mask |-> WayBack(way, end)[m - 1].mask \ {WayBack(way, end)[m - 1].last},
                    last |-> way[WayBack(way, end)[m - 1].mask]
                                [WayBack(way, end)[m - 1].last].before]]
<1> DEFINE Next1(f, m) == IF m = 1 THEN [mask |-> Places, last |-> end]
                          ELSE [mask |-> f[m - 1].mask \ {f[m - 1].last},
                                last |-> way[f[m - 1].mask][f[m - 1].last].before]
           UpTo(k, f) == \A m \in 1 .. n : m <= k => f[m] = Next1(f, m)
           T == {k \in Nat : \E f : f = [m \in 1 .. n |-> f[m]] /\ UpTo(k, f)}
<1>0. n \in Nat
  BY AskedFacts
<1>1. 0 \in T
  <2> DEFINE f == [m \in 1 .. n |-> 0]
  <2>1. f = [m \in 1 .. n |-> f[m]]
    OBVIOUS
  <2>2. UpTo(0, f)
    BY <1>0
  <2> HIDE DEF f
  <2> QED BY <2>1, <2>2
<1>2. ASSUME NEW k \in T PROVE k + 1 \in T
  <2>1. PICK f : f = [m \in 1 .. n |-> f[m]] /\ UpTo(k, f)
    OBVIOUS
  <2> DEFINE g == [m \in 1 .. n |-> IF m <= k THEN f[m] ELSE Next1(f, m)]
  <2>2. ASSUME NEW m \in 1 .. n, m <= k + 1 PROVE g[m] = Next1(g, m)
    <3> HIDE DEF Next1
    <3>1. g[m] = Next1(f, m)
      BY <2>1
    <3>2. m # 1 => m - 1 \in 1 .. n /\ m - 1 <= k
      BY <1>0, <2>2
    <3>3. m # 1 => g[m - 1] = f[m - 1]
      BY <3>2
    <3> HIDE DEF g
    <3> QED BY <3>1, <3>3 DEF Next1
  <2>3. g = [m \in 1 .. n |-> g[m]]
    OBVIOUS
  <2> HIDE DEF g
  <2>4. UpTo(k + 1, g)
    BY <2>2
  <2>5. k + 1 \in Nat
    OBVIOUS
  <2> HIDE DEF UpTo
  <2> QED BY <2>3, <2>4, <2>5
<1>3. T \in SUBSET Nat
  OBVIOUS
<1>4. n \in T
  <2> HIDE DEF T
  <2> QED BY <1>0, <1>1, <1>2, <1>3, SetInduction
<1>5. PICK f : f = [m \in 1 .. n |-> f[m]] /\ UpTo(n, f)
  BY <1>4
<1>6. f = [m \in 1 .. n |-> Next1(f, m)]
  <2> HIDE DEF Next1
  <2> QED BY <1>0, <1>5
<1> QED BY <1>6 DEF WayBack, n

(* Its first place, and each next one. *)
LEMMA WayBackSteps ==
  ASSUME Asked, NEW way, NEW end
  PROVE  LET back == WayBack(way, end)
         IN  /\ back[1].mask = Places /\ back[1].last = end
             /\ \A m \in 1 .. n - 1 :
                  /\ back[m + 1].mask = back[m].mask \ {back[m].last}
                  /\ back[m + 1].last = way[back[m].mask][back[m].last].before
<1> DEFINE back == WayBack(way, end)
<1>0. n \in Nat /\ n >= 2
  BY AskedFacts
<1>1. back = [m \in 1 .. n |->
                IF m = 1 THEN [mask |-> Places, last |-> end]
                ELSE [mask |-> back[m - 1].mask \ {back[m - 1].last},
                      last |-> way[back[m - 1].mask][back[m - 1].last].before]]
  BY WayBackExists
<1> HIDE DEF back
<1>2. \A k \in 1 .. n :
        back[k] = IF k = 1 THEN [mask |-> Places, last |-> end]
                  ELSE [mask |-> back[k - 1].mask \ {back[k - 1].last},
                        last |-> way[back[k - 1].mask][back[k - 1].last].before]
  BY <1>1, Zenon
<1>3. back[1] = [mask |-> Places, last |-> end]
  <2>1. 1 \in 1 .. n
    BY <1>0
  <2> QED BY <1>2, <2>1, Zenon
<1>4. ASSUME NEW m \in 1 .. n - 1
      PROVE  back[m + 1] = [mask |-> back[m].mask \ {back[m].last},
                            last |-> way[back[m].mask][back[m].last].before]
  <2> DEFINE k == m + 1
  <2>1. k \in 1 .. n /\ k # 1 /\ k - 1 = m
    BY <1>0
  <2> HIDE DEF k
  <2>2. back[k] = [mask |-> back[k - 1].mask \ {back[k - 1].last},
                   last |-> way[back[k - 1].mask][back[k - 1].last].before]
    BY <1>2, <2>1, Zenon
  <2>3. back[k] = [mask |-> back[m].mask \ {back[m].last},
                   last |-> way[back[m].mask][back[m].last].before]
    BY <2>1, <2>2, Zenon
  <2> QED BY <2>3 DEF k
<1>5. back[1].mask = Places /\ back[1].last = end
  BY <1>3
<1>6. ASSUME NEW m \in 1 .. n - 1
      PROVE  /\ back[m + 1].mask = back[m].mask \ {back[m].last}
             /\ back[m + 1].last = way[back[m].mask][back[m].last].before
  <2> DEFINE here == back[m].mask \ {back[m].last}
             from == way[back[m].mask][back[m].last].before
  <2>1. back[m + 1] = [mask |-> here, last |-> from]
    BY <1>4
  <2> HIDE DEF here, from
  <2>2. back[m + 1].mask = here /\ back[m + 1].last = from
    BY <2>1
  <2> QED BY <2>2 DEF here, from
<1> QED BY <1>5, <1>6 DEF back

(* Where the way back is after m places, if there is one at all. *)
Back == WayBack(BestWays, BestEnd)

OnTheWay(m) ==
  /\ Back[m].mask \in SUBSET Places /\ Cardinality(Back[m].mask) = n - m + 1
  /\ Back[m].last \in Back[m].mask
  /\ CostOf(Back[m].mask, Back[m].last) < NoWay

(* From one place of it to the one before. *)
OneBack(m) ==
  /\ Offered(ciudades[Back[m + 1].last], ciudades[Back[m].last])
  /\ CostOf(Back[m].mask, Back[m].last)
       = CostOf(Back[m + 1].mask, Back[m + 1].last)
           + Value(ciudades[Back[m + 1].last], ciudades[Back[m].last])

(* Each step back is over an arc that is sold, at the cost in the tables. *)
LEMMA WayBackIsWay ==
  ASSUME Asked, Best < NoWay
  PROVE  /\ \A m \in 1 .. n : OnTheWay(m)
         /\ \A m \in 1 .. n - 1 : OneBack(m)
<1>0. n \in Nat /\ n >= 2 /\ Places \in SUBSET Places /\ Cardinality(Places) = n /\ NoWay \in Nat
  BY AskedFacts
<1>1. OnTheWay(1)
  <2>1. Back[1].mask = Places /\ Back[1].last = BestEnd
    BY WayBackSteps DEF Back
  <2>2. BestEnd \in Places /\ Whole(BestEnd) < NoWay /\ Closing(BestEnd) \in Nat
    BY BestFacts
  <2>3. CostOf(Places, BestEnd) \in Nat
    BY <1>0, <2>2, CostsAreTyped DEF CostType
  <2>4. CostOf(Places, BestEnd) < NoWay
    BY <1>0, <2>2, <2>3 DEF Whole, Capped
  <2>5. n - 1 + 1 = n
    BY <1>0
  <2> QED BY <1>0, <2>1, <2>2, <2>4, <2>5 DEF OnTheWay
<1>2. ASSUME NEW m \in 1 .. n - 1, OnTheWay(m) PROVE OnTheWay(m + 1) /\ OneBack(m)
  <2> DEFINE mask == Back[m].mask
             last == Back[m].last
             p    == Before(mask, last)
  <2>0. m \in Nat /\ n - m + 1 >= 2 /\ n - (m + 1) + 1 = n - m + 1 - 1
    BY <1>0
  <2>1. Back[m + 1].mask = mask \ {last} /\ Back[m + 1].last = p
    BY WayBackSteps DEF Back, Before
  <2>2. mask \in SUBSET Places /\ Cardinality(mask) = n - m + 1 /\ last \in mask
        /\ CostOf(mask, last) < NoWay
    BY <1>2 DEF OnTheWay
  <2> HIDE DEF mask, last
  <2>3. Cardinality(mask \ {last}) = n - m + 1 - 1
    <3>1. Cardinality(mask \ {last}) = Cardinality(mask) - 1
      BY <2>2, MaskFacts
    <3>2. Cardinality(mask) = n - m + 1
      BY <2>2
    <3> QED BY <1>0, <2>0, <3>1, <3>2
  <2>4. mask # {last}
    <3>1. mask = {last} => Cardinality(mask) = 1
      BY FS_Singleton
    <3> QED BY <2>0, <2>2, <3>1
  <2>5. /\ p \in mask \ {last}
        /\ Offered(ciudades[p], ciudades[last])
        /\ CostOf(mask \ {last}, p) < NoWay
        /\ CostOf(mask, last) = CostOf(mask \ {last}, p) + Value(ciudades[p], ciudades[last])
    BY <2>2, <2>4, ComesFrom
  <2> HIDE DEF p
  <2>6. OneBack(m)
    BY <2>1, <2>5 DEF OneBack, mask, last
  <2>7. mask \ {last} \in SUBSET Places /\ Cardinality(mask \ {last}) = n - (m + 1) + 1
    BY <2>0, <2>2, <2>3
  <2> QED BY <2>1, <2>5, <2>6, <2>7 DEF OnTheWay
<1> DEFINE T == {k \in Nat : k + 1 \in 1 .. n => OnTheWay(k + 1)}
<1>3. T \in SUBSET Nat /\ 0 \in T
  BY <1>1
<1>4. ASSUME NEW k \in T PROVE k + 1 \in T
  <2>1. k \in Nat /\ (k + 1 \in 1 .. n => OnTheWay(k + 1))
    OBVIOUS
  <2>2. k + 1 + 1 \in 1 .. n => k + 1 \in 1 .. n - 1 /\ k + 1 \in 1 .. n
    BY <1>0, <2>1
  <2>3. k + 1 + 1 \in 1 .. n => OnTheWay(k + 1 + 1)
    BY <1>2, <2>1, <2>2
  <2> QED BY <2>1, <2>3
<1>5. T = Nat
  <2> HIDE DEF T
  <2> QED BY <1>3, <1>4, SetInduction
<1>6. ASSUME NEW m \in 1 .. n PROVE OnTheWay(m)
  <2>1. m - 1 \in Nat /\ m - 1 + 1 = m
    BY <1>0
  <2>2. m - 1 \in T
    <3> HIDE DEF T
    <3> QED BY <1>5, <2>1
  <2> QED BY <2>1, <2>2
<1>7. ASSUME NEW m \in 1 .. n - 1 PROVE OneBack(m)
  <2>1. m \in 1 .. n
    BY <1>0
  <2> QED BY <1>2, <1>6, <2>1
<1> QED BY <1>6, <1>7

(* The masks of the way back shrink, so that no place comes twice. *)
LEMMA BackShrinks ==
  ASSUME Asked, Best < NoWay, NEW m \in 1 .. n
  PROVE  \A k \in 1 .. n : m < k => Back[k].mask \subseteq Back[m].mask \ {Back[m].last}
<1>0. n \in Nat /\ m \in Nat
  BY AskedFacts
<1> DEFINE P(k) == Back[k].mask \subseteq Back[m].mask \ {Back[m].last}
           T == {k \in Nat : m + k + 1 \in 1 .. n => P(m + k + 1)}
<1>1. ASSUME NEW k \in 1 .. n - 1 PROVE Back[k + 1].mask = Back[k].mask \ {Back[k].last}
  BY WayBackSteps DEF Back
<1>2. 0 \in T
  <2>1. m + 0 + 1 = m + 1 /\ (m + 1 \in 1 .. n => m \in 1 .. n - 1)
    BY <1>0
  <2>2. m + 1 \in 1 .. n => P(m + 1)
    BY <1>1, <2>1
  <2> HIDE DEF P
  <2> QED BY <2>1, <2>2
<1>3. ASSUME NEW k \in T PROVE k + 1 \in T
  <2>1. k \in Nat /\ (m + k + 1 \in 1 .. n => P(m + k + 1))
    OBVIOUS
  <2>2. /\ m + (k + 1) + 1 = m + k + 1 + 1
        /\ m + k + 1 + 1 \in 1 .. n => m + k + 1 \in 1 .. n - 1 /\ m + k + 1 \in 1 .. n
    BY <1>0, <2>1
  <2>3. m + k + 1 + 1 \in 1 .. n => P(m + k + 1 + 1)
    BY <1>1, <2>1, <2>2
  <2> HIDE DEF P
  <2> QED BY <2>1, <2>2, <2>3
<1>4. T = Nat
  <2>1. T \in SUBSET Nat
    OBVIOUS
  <2> HIDE DEF T
  <2> QED BY <1>2, <1>3, <2>1, SetInduction
<1> SUFFICES ASSUME NEW k \in 1 .. n, m < k PROVE P(k)
  OBVIOUS
<1>5. k - m - 1 \in Nat /\ m + (k - m - 1) + 1 = k
  BY <1>0
<1>6. k - m - 1 \in T
  <2> HIDE DEF T
  <2> QED BY <1>4, <1>5
<1> HIDE DEF P
<1> QED BY <1>5, <1>6

(* The places of the best way, from its start. *)
Indices == [x \in Places |-> Back[n + 1 - x].last]

(* They are a way through all of them ... *)
LEMMA IndicesAreWay ==
  ASSUME Asked, Best < NoWay
  PROVE  /\ IsWay(Indices) /\ Indices[n] = BestEnd
         /\ \A x \in 1 .. n : Indices[x] = Back[n + 1 - x].last
<1>0. n \in Nat /\ n >= 2 /\ Places = 1 .. n
  BY AskedFacts
<1>1. ASSUME NEW x \in 1 .. n
      PROVE  n + 1 - x \in 1 .. n /\ OnTheWay(n + 1 - x) /\ Indices[x] = Back[n + 1 - x].last
  <2>1. n + 1 - x \in 1 .. n
    BY <1>0
  <2>2. OnTheWay(n + 1 - x)
    BY <2>1, WayBackIsWay
  <2>3. Indices[x] = Back[n + 1 - x].last
    BY <1>0 DEF Indices
  <2> QED BY <2>1, <2>2, <2>3
<1>2. Indices \in [1 .. n -> Places]
  <2>1. \A x \in 1 .. n : Indices[x] \in Places
    BY <1>1 DEF OnTheWay
  <2> QED BY <1>0, <2>1 DEF Indices
<1>3. ASSUME NEW x \in 1 .. n, NEW y \in 1 .. n, x < y PROVE Indices[x] # Indices[y]
  <2> DEFINE h == n + 1 - y
             j == n + 1 - x
  <2>1. h < j
    BY <1>0, <1>3
  <2>2. h \in 1 .. n /\ j \in 1 .. n /\ OnTheWay(j) /\ Indices[x] = Back[j].last /\ Indices[y] = Back[h].last
    BY <1>1
  <2> HIDE DEF h, j
  <2>3. Back[j].mask \subseteq Back[h].mask \ {Back[h].last}
    BY <2>1, <2>2, BackShrinks
  <2>4. Back[j].last \in Back[j].mask
    BY <2>2 DEF OnTheWay
  <2> QED BY <2>2, <2>3, <2>4
<1>4. \A x, y \in 1 .. n : Indices[x] = Indices[y] => x = y
  <2>1. \A x, y \in 1 .. n : x = y \/ x < y \/ y < x
    BY <1>0
  <2> QED BY <1>3, <2>1
<1>5. Indices[1] \in Starts
  <2> DEFINE mask == Back[n].mask
             last == Back[n].last
  <2>1. 1 \in 1 .. n /\ n + 1 - 1 = n /\ n \in 1 .. n /\ n - n + 1 = 1
    BY <1>0
  <2>2. Indices[1] = last /\ OnTheWay(n)
    BY <1>1, <2>1
  <2>3. mask \in SUBSET Places /\ Cardinality(mask) = 1 /\ last \in mask /\ CostOf(mask, last) < NoWay
    BY <2>1, <2>2 DEF OnTheWay
  <2> HIDE DEF mask, last
  <2>4. mask = {last}
    <3>1. IsFiniteSet(mask)
      BY <2>3, MaskFacts
    <3>2. Cardinality({last}) = 1 /\ {last} \in SUBSET mask
      BY <2>3, FS_Singleton
    <3> QED BY <2>3, <3>1, <3>2, FS_Subset
  <2>5. last \in Starts
    <3>1. last \notin Starts => CostOf(mask, last) = NoWay
      BY <2>3, <2>4, EmptyEntry
    <3> QED BY <2>3, <3>1, AskedFacts
  <2> QED BY <2>2, <2>5
<1>6. ASSUME NEW x \in 1 .. n - 1
      PROVE  Offered(ciudades[Indices[x]], ciudades[Indices[x + 1]])
  <2> DEFINE h == n + 1 - (x + 1)
  <2>1. x \in 1 .. n /\ x + 1 \in 1 .. n /\ h \in 1 .. n - 1 /\ n + 1 - x = h + 1
    BY <1>0
  <2>2. Indices[x] = Back[h + 1].last /\ Indices[x + 1] = Back[h].last
    BY <1>1, <2>1
  <2> HIDE DEF h
  <2> QED BY <2>1, <2>2, WayBackIsWay DEF OneBack
<1>7. Indices[n] = BestEnd
  <2>1. n \in 1 .. n /\ n + 1 - n = 1
    BY <1>0
  <2>2. Indices[n] = Back[1].last
    BY <1>1, <2>1
  <2> QED BY <2>2, WayBackSteps DEF Back
<1> QED BY <1>1, <1>2, <1>4, <1>5, <1>6, <1>7 DEF IsWay

(* ... which costs what the tables say. *)
LEMMA IndicesCost ==
  ASSUME Asked, Best < NoWay, NEW k \in Nat, k >= n, NEW r, DOMAIN r = 1 .. k,
         \A x \in 1 .. n : r[x] = ciudades[Indices[x]]
  PROVE  Sums(r)[n] = CostOf(Places, BestEnd)
<1>0. n \in Nat /\ n >= 2
  BY AskedFacts
<1> DEFINE P(x) == Sums(r)[x] = CostOf(Back[n + 1 - x].mask, Back[n + 1 - x].last)
           T == {m \in Nat : m + 1 \in 1 .. n => P(m + 1)}
<1>1. P(1)
  <2> DEFINE mask == Back[n].mask
             last == Back[n].last
  <2>1. 1 \in 1 .. n /\ n + 1 - 1 = n /\ n \in 1 .. n /\ n - n + 1 = 1
    BY <1>0
  <2>2. Indices[1] = last /\ OnTheWay(n)
    BY <2>1, IndicesAreWay, WayBackIsWay
  <2>3. mask \in SUBSET Places /\ Cardinality(mask) = 1 /\ last \in mask /\ last \in Starts
    BY <2>1, <2>2, IndicesAreWay DEF OnTheWay, IsWay
  <2> HIDE DEF mask, last
  <2>4. mask = {last}
    <3>1. IsFiniteSet(mask)
      BY <2>3, MaskFacts
    <3>2. Cardinality({last}) = 1 /\ {last} \in SUBSET mask
      BY <2>3, FS_Singleton
    <3> QED BY <2>3, <3>1, <3>2, FS_Subset
  <2>5. CostOf(mask, last) = 0
    BY <2>3, <2>4, EmptyEntry
  <2>6. Sums(r)[1] = 0
    BY <1>0, SumsSteps
  <2> QED BY <2>1, <2>5, <2>6 DEF mask, last
<1>2. ASSUME NEW x \in 1 .. n - 1, P(x) PROVE P(x + 1)
  <2> DEFINE h == n + 1 - (x + 1)
  <2>1. x \in 1 .. n /\ x + 1 \in 1 .. n /\ h \in 1 .. n - 1 /\ n + 1 - x = h + 1 /\ x \in 1 .. k - 1
    BY <1>0
  <2>2. Indices[x] = Back[h + 1].last /\ Indices[x + 1] = Back[h].last
    BY <2>1, IndicesAreWay
  <2>3. Sums(r)[x] = CostOf(Back[h + 1].mask, Back[h + 1].last)
    BY <1>2, <2>1
  <2>4. Sums(r)[x + 1] = Sums(r)[x] + Value(r[x], r[x + 1])
    BY <2>1, SumsSteps
  <2> HIDE DEF h
  <2>5. OneBack(h)
    BY <2>1, WayBackIsWay
  <2>6. Value(r[x], r[x + 1]) = Value(ciudades[Back[h + 1].last], ciudades[Back[h].last])
    BY <2>1, <2>2
  <2>7. Sums(r)[x + 1] = CostOf(Back[h].mask, Back[h].last)
    BY <2>3, <2>4, <2>5, <2>6 DEF OneBack
  <2> QED BY <2>7 DEF h
<1>3. T \in SUBSET Nat /\ 0 \in T
  <2> HIDE DEF P
  <2> QED BY <1>1
<1>4. ASSUME NEW m \in T PROVE m + 1 \in T
  <2>1. m \in Nat /\ (m + 1 \in 1 .. n => P(m + 1))
    OBVIOUS
  <2> HIDE DEF P
  <2>2. m + 1 + 1 \in 1 .. n => m + 1 \in 1 .. n - 1 /\ m + 1 \in 1 .. n
    BY <1>0, <2>1
  <2>3. m + 1 + 1 \in 1 .. n => P(m + 1 + 1)
    BY <1>2, <2>1, <2>2
  <2> QED BY <2>1, <2>3
<1>5. T = Nat
  <2> HIDE DEF T
  <2> QED BY <1>3, <1>4, SetInduction
<1>6. P(n)
  <2>1. n - 1 \in Nat /\ n - 1 + 1 = n /\ n \in 1 .. n
    BY <1>0
  <2>2. n - 1 \in T
    <3> HIDE DEF T
    <3> QED BY <1>5, <2>1
  <2> HIDE DEF P
  <2> QED BY <2>1, <2>2
<1>7. n + 1 - n = 1
  BY <1>0
<1>8. Back[1].mask = Places /\ Back[1].last = BestEnd
  BY WayBackSteps DEF Back
<1> QED BY <1>6, <1>7, <1>8

(* What the programme answers, in these terms. *)
LEMMA AnswerOf ==
  CalculateTSP =
    LET places == IF returnToOrigin THEN Append(Indices, Indices[1]) ELSE Indices
    IN  IF Best = NoWay THEN NoRoute ELSE [x \in DOMAIN places |-> ciudades[places[x]]]
BY DEF CalculateTSP, Indices, Back, Best, BestEnd, Whole, CostOf, n

(* The best cost is that of the way and of the arc that closes it. *)
LEMMA ClosingFacts ==
  ASSUME Asked, Best < NoWay
  PROVE  /\ CostOf(Places, BestEnd) \in Nat
         /\ Best = CostOf(Places, BestEnd) + Closing(BestEnd)
         /\ ~returnToOrigin => Closing(BestEnd) = 0
         /\ returnToOrigin =>
              /\ BestEnd # 1
              /\ Offered(ciudades[BestEnd], ciudades[1])
              /\ Closing(BestEnd) = Value(ciudades[BestEnd], ciudades[1])
<1> DEFINE c == Closing(BestEnd)
           d == CostOf(Places, BestEnd)
<1>0. n \in Nat /\ n >= 2 /\ NoWay \in Nat /\ Places = 1 .. n
  BY AskedFacts
<1>1. BestEnd \in Places /\ Whole(BestEnd) = Best /\ c \in Nat
  BY BestFacts
<1>2. d \in Nat
  BY <1>0, <1>1, CostsAreTyped DEF CostType
<1>3. Whole(BestEnd) = Capped(d + c)
  BY DEF Whole
<1>4. ~returnToOrigin => c = 0
  BY DEF Closing
<1>5. returnToOrigin => c = IF BestEnd = 1 THEN NoWay ELSE Leg(BestEnd, 1)
  BY DEF Closing
<1> HIDE DEF c, d
<1>6. Best = d + c /\ c < NoWay
  BY <1>0, <1>1, <1>2, <1>3 DEF Capped
<1>7. ASSUME returnToOrigin
      PROVE  /\ BestEnd # 1 /\ Offered(ciudades[BestEnd], ciudades[1])
             /\ c = Value(ciudades[BestEnd], ciudades[1])
  <2>1. c = IF BestEnd = 1 THEN NoWay ELSE Leg(BestEnd, 1)
    BY <1>5, <1>7
  <2>2. BestEnd # 1 /\ c = Leg(BestEnd, 1) /\ 1 \in Places
    BY <1>0, <1>6, <2>1
  <2>3. Leg(BestEnd, 1) = IF Offered(ciudades[BestEnd], ciudades[1])
                            THEN Value(ciudades[BestEnd], ciudades[1]) ELSE NoWay
    BY <1>1, <2>2, LegFacts
  <2> QED BY <1>0, <1>6, <2>2, <2>3
<1> QED BY <1>2, <1>4, <1>6, <1>7 DEF c, d

(* If there is a way at all, the answer is a tour of that cost ... *)
LEMMA AnswerIsTour ==
  ASSUME Asked, Best < NoWay
  PROVE  CalculateTSP \in Tours /\ Total(CalculateTSP) = Best
<1> DEFINE o == [x \in 1 .. n |-> ciudades[Indices[x]]]
           r == CalculateTSP
           S == ToSet(ciudades)
<1>0. /\ n \in Nat /\ n >= 2 /\ Places = 1 .. n /\ NoWay \in Nat
      /\ S = {ciudades[p] : p \in Places}
      /\ \A p, q \in Places : ciudades[p] = ciudades[q] => p = q
  BY AskedFacts
<1>1. /\ IsWay(Indices) /\ Indices[n] = BestEnd
      /\ Indices \in [1 .. n -> Places] /\ Indices \in Seq(Places) /\ Len(Indices) = n
  <2>1. IsWay(Indices) /\ Indices[n] = BestEnd
    BY IndicesAreWay
  <2>2. Indices \in [1 .. n -> Places]
    BY <2>1 DEF IsWay
  <2> QED BY <1>0, <2>1, <2>2
<1>2. o \in [1 .. n -> S] /\ IsInjective(o) /\ o \in Seq(S) /\ Len(o) = n /\ DOMAIN o = 1 .. n
  <2>1. \A x \in 1 .. n : o[x] \in S
    BY <1>0, <1>1
  <2>2. o \in [1 .. n -> S]
    BY <2>1
  <2>3. \A x, y \in 1 .. n : o[x] = o[y] => x = y
    <3>1. \A x \in 1 .. n : o[x] = ciudades[Indices[x]] /\ Indices[x] \in Places
      BY <1>1
    <3>2. \A x, y \in 1 .. n : Indices[x] = Indices[y] => x = y
      BY <1>1 DEF IsWay
    <3> HIDE DEF o
    <3> QED BY <1>0, <3>1, <3>2
  <2> HIDE DEF o, S
  <2>4. DOMAIN o = 1 .. n
    BY <2>2
  <2>5. o \in Seq(S) /\ Len(o) = n
    <3>1. n \in Nat
      BY <1>0
    <3> QED BY <2>2, <3>1
  <2> QED BY <2>2, <2>3, <2>4, <2>5 DEF IsInjective
<1>3. Best # NoWay
  BY <1>0
<1>4. r = IF returnToOrigin THEN Append(o, o[1]) ELSE o
  <2>1. CASE returnToOrigin
    <3> DEFINE places == Append(Indices, Indices[1])
    <3>1. r = [x \in DOMAIN places |-> ciudades[places[x]]]
      BY <1>3, <2>1, AnswerOf
    <3>2. /\ DOMAIN places = 1 .. Len(Indices) + 1 
          /\ \A x \in 1 .. Len(Indices) : places[x] = Indices[x]
          /\ places[Len(Indices) + 1] = Indices[1]
      <4>1. Indices[1] \in Places
        BY <1>0, <1>1
      <4> QED BY <1>1, <4>1, Appended
    <3>3. DOMAIN places = 1 .. n + 1 /\ (\A x \in 1 .. n : places[x] = Indices[x])
          /\ places[n + 1] = Indices[1]
      BY <1>1, <3>2
    <3>4. /\ Append(o, o[1]) \in Seq(S)
          /\ DOMAIN Append(o, o[1]) = 1 .. n + 1
          /\ (\A x \in 1 .. n : Append(o, o[1])[x] = o[x])
          /\ Append(o, o[1])[n + 1] = o[1]
      <4>1. o[1] \in S
        BY <1>0, <1>2
      <4> HIDE DEF o, S
      <4> QED BY <1>2, <4>1, Appended
    <3> HIDE DEF places
    <3>5. \A x \in 1 .. n + 1 : x \in 1 .. n \/ x = n + 1
      BY <1>0
    <3>6. \A x \in 1 .. n + 1 : ciudades[places[x]] = Append(o, o[1])[x]
      <4>1. 1 \in 1 .. n
        BY <1>0
      <4> QED BY <3>3, <3>4, <3>5, <4>1
    <3>7. Append(o, o[1]) = [x \in 1 .. n + 1 |-> Append(o, o[1])[x]]
      <4>1. \A q \in Seq(S) : q = [x \in DOMAIN q |-> q[x]]
        OBVIOUS
      <4> HIDE DEF o, S
      <4> QED BY <3>4, <4>1, Zenon
    <3>8. r = Append(o, o[1])
      <4> HIDE DEF o, r
      <4> QED BY <3>1, <3>3, <3>6, <3>7
    <3> HIDE DEF o, r
    <3> QED BY <2>1, <3>8
  <2>2. CASE ~returnToOrigin
    <3>1. r = [x \in DOMAIN Indices |-> ciudades[Indices[x]]]
      BY <1>3, <2>2, AnswerOf
    <3>2. DOMAIN Indices = 1 .. n
      BY <1>1
    <3> QED BY <2>2, <3>1, <3>2
  <2> QED BY <2>1, <2>2
<1>5. ASSUME returnToOrigin PROVE Indices[1] = 1
  BY <1>1, <1>5 DEF IsWay, Starts
<1>6. \A x \in 1 .. n - 1 : Offered(o[x], o[x + 1])
  <2>1. ASSUME NEW x \in 1 .. n - 1 PROVE x \in 1 .. n /\ x + 1 \in 1 .. n
    BY <1>0
  <2> QED BY <1>1, <2>1 DEF IsWay
<1>7. o[1] = ciudades[Indices[1]] /\ o[n] = ciudades[BestEnd] /\ \A x \in 1 .. n : o[x] = ciudades[Indices[x]]
  <2>1. 1 \in 1 .. n /\ n \in 1 .. n
    BY <1>0
  <2>2. \A x \in 1 .. n : o[x] = ciudades[Indices[x]]
    OBVIOUS
  <2>3. Indices[n] = BestEnd
    BY <1>1
  <2> HIDE DEF o
  <2> QED BY <2>1, <2>2, <2>3
<1> HIDE DEF o, r, S
<1>8. ASSUME \A x \in 1 .. Len(r) - 1 : Offered(r[x], r[x + 1])
      PROVE  r \in Tours
  <2>1. \A leg \in Legs(r) : arcs[leg][1] > 0 /\ arcs[leg][2] > 0
    BY <1>8 DEF Legs, Offered
  <2>2. returnToOrigin => o[1] = ciudades[1]
    BY <1>5, <1>7
  <2> QED BY <1>2, <1>4, <2>1, <2>2 DEF Tours, S, n
<1>9. CASE returnToOrigin
  <2>1. o[1] \in S
    BY <1>0, <1>2
  <2>2. r = Append(o, o[1])
    BY <1>4, <1>9
  <2>3. /\ Len(r) = n + 1 /\ DOMAIN r = 1 .. n + 1 /\ r[n + 1] = o[1]
        /\ \A x \in 1 .. n : r[x] = o[x]
    BY <1>2, <2>1, <2>2, Appended
  <2>4. o[1] = ciudades[1]
    BY <1>5, <1>7, <1>9
  <2>5. /\ CostOf(Places, BestEnd) \in Nat
        /\ Best = CostOf(Places, BestEnd) + Value(o[n], o[1])
        /\ Offered(o[n], o[1])
    BY <1>7, <1>9, <2>4, ClosingFacts
  <2>6. 1 \in 1 .. n /\ n \in 1 .. n /\ n + 1 \in Nat /\ n + 1 >= n /\ n \in 1 .. n + 1 - 1
    BY <1>0
  <2>7. Sums(r)[n] = CostOf(Places, BestEnd)
    BY <1>7, <2>3, <2>6, IndicesCost
  <2>8. Sums(r)[n + 1] = Sums(r)[n] + Value(r[n], r[n + 1])
    BY <2>3, <2>6, SumsSteps
  <2>9. Total(r) = Best
    BY <2>3, <2>5, <2>6, <2>7, <2>8 DEF Total
  <2>10. ASSUME NEW x \in 1 .. Len(r) - 1 PROVE Offered(r[x], r[x + 1])
    <3>1. x \in 1 .. n - 1 \/ x = n
      BY <1>0, <2>3
    <3>2. CASE x \in 1 .. n - 1
      <4>1. x \in 1 .. n /\ x + 1 \in 1 .. n
        BY <1>0, <3>2
      <4> QED BY <1>6, <2>3, <3>2, <4>1
    <3>3. CASE x = n
      BY <2>3, <2>5, <2>6, <3>3
    <3> QED BY <3>1, <3>2, <3>3
  <2> QED BY <1>8, <2>9, <2>10 DEF r
<1>10. CASE ~returnToOrigin
  <2>1. r = o
    BY <1>4, <1>10
  <2>2. CostOf(Places, BestEnd) \in Nat /\ Best = CostOf(Places, BestEnd) + Closing(BestEnd)
        /\ Closing(BestEnd) = 0
    BY <1>10, ClosingFacts
  <2>3. n \in Nat /\ n >= n
    BY <1>0
  <2>4. Sums(r)[n] = CostOf(Places, BestEnd)
    BY <1>2, <1>7, <2>1, <2>3, IndicesCost
  <2>5. Total(r) = Sums(r)[n]
    BY <1>2, <2>1 DEF Total
  <2>6. Total(r) = Best
    BY <2>2, <2>4, <2>5
  <2> QED BY <1>2, <1>6, <1>8, <2>1, <2>6 DEF r
<1> QED BY <1>9, <1>10

(* ... and so a best one; else there is no tour. *)
LEMMA AnswerIsBest ==
  ASSUME Asked
  PROVE  \/ CalculateTSP = NoRoute /\ Tours = {}
         \/ /\ CalculateTSP \in Tours
            /\ \A r \in Tours : Total(CalculateTSP) <= Total(r)
<1>1. Best \in Nat /\ NoWay \in Nat /\ Best <= NoWay
  BY BestFacts, AskedFacts
<1>2. CASE Best = NoWay
  <2>1. Tours = {}
    BY <1>1, <1>2, TourCosts
  <2>2. CalculateTSP = NoRoute
    BY <1>2, AnswerOf
  <2> QED BY <2>1, <2>2
<1>3. CASE Best < NoWay
  <2>1. CalculateTSP \in Tours /\ Total(CalculateTSP) = Best
    BY <1>3, AnswerIsTour
  <2>2. \A r \in Tours : Best <= Total(r)
    BY TourCosts
  <2> QED BY <2>1, <2>2
<1> QED BY <1>1, <1>2, <1>3

(* A request is of the lists there are, of matrices there are. *)
TourInv ==
  /\ ciudades \in Requests /\ arcs \in Networks /\ returnToOrigin \in BOOLEAN
  /\ AnswersABestTour

(* What is asked for decides what the tours are, and what they cost. *)
LEMMA SameTours ==
  ASSUME UNCHANGED asked
  PROVE  /\ Valid' = Valid /\ Tours' = Tours
         /\ \A r : Total(r)' = Total(r)
<1>1. ciudades' = ciudades /\ arcs' = arcs /\ returnToOrigin' = returnToOrigin /\ criterion' = criterion
  BY DEF asked
<1>2. Valid' = Valid
  BY <1>1 DEF Valid
<1>3. Tours' = Tours
  BY <1>1 DEF Tours
<1>4. \A r : Total(r)' = Total(r)
  BY <1>1 DEF Total, Sums, Value
<1> QED BY <1>2, <1>3, <1>4

(* A valid request is answered with a route that visits every city asked   *)
(* for once, over arcs that are sold, comes back if that was wanted, and   *)
(* costs no more than any other such route; it is refused only when there  *)
(* is none: the programme of CalculateTSPFromMatrices is right, whatever   *)
(* the cities and the matrices.                                            *)
THEOREM ItinerariesAreBest == TourSpec => []AnswersABestTour
<1>1. TourInit => TourInv
  BY DEF TourInit, TourInv, AnswersABestTour
<1>2. TourInv /\ [TourNext]_tourVars => TourInv'
  <2> SUFFICES ASSUME TourInv, [TourNext]_tourVars PROVE TourInv'
    OBVIOUS
  <2>1. CASE GetTSPRoute
    <3>1. UNCHANGED asked /\ route' = (IF Valid THEN CalculateTSP ELSE NoRoute)
      BY <2>1 DEF GetTSPRoute
    <3>2. ciudades' \in Requests /\ arcs' \in Networks /\ returnToOrigin' \in BOOLEAN
      BY <3>1, Zenon DEF TourInv, asked
    <3>3. Valid => Asked
      BY DEF TourInv, Asked
    <3>4. Valid => \/ route' = NoRoute /\ Tours = {}
                   \/ route' \in Tours /\ \A r \in Tours : Total(route') <= Total(r)
      BY <3>1, <3>3, AnswerIsBest
    <3>5. Valid' = Valid /\ Tours' = Tours /\ \A r : Total(r)' = Total(r)
      BY <3>1, SameTours
    <3>6. AnswersABestTour'
      BY <3>4, <3>5 DEF AnswersABestTour
    <3> QED BY <3>2, <3>6 DEF TourInv
  <2>2. CASE UNCHANGED tourVars
    <3>1. UNCHANGED asked /\ route' = route /\ answered' = answered
      BY <2>2 DEF tourVars
    <3>2. ciudades' \in Requests /\ arcs' \in Networks /\ returnToOrigin' \in BOOLEAN
      BY <3>1, Zenon DEF TourInv, asked
    <3>5. Valid' = Valid /\ Tours' = Tours /\ \A r : Total(r)' = Total(r)
      BY <3>1, SameTours
    <3>6. AnswersABestTour'
      BY <3>1, <3>5 DEF TourInv, AnswersABestTour
    <3> QED BY <3>2, <3>6 DEF TourInv
  <2> QED BY <2>1, <2>2 DEF TourNext
<1>3. TourInv => AnswersABestTour
  BY DEF TourInv
<1> QED BY <1>1, <1>2, <1>3, PTL DEF TourSpec
=============================================================================
