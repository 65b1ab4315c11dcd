---------------------------- MODULE MCDomainRules ----------------------------
(***************************************************************************)
(* The three parts of the airline's rules that share nothing but the       *)
(* matrices, as one instance for TLC: manifests, suggested routes and      *)
(* itineraries.  A behaviour is one of a single part (rule); the other two *)
(* rest in an initial state.                                               *)
(***************************************************************************)
EXTENDS Occupancy, RouteSuggestions, Itinerary

VARIABLE rule   \* the part a behaviour is of

domainVars == <<rule, vars, yenVars, tourVars>>

(* Occupancy of a plane of a few seats.  The shuffle puts the last third   *)
(* of the seats first: any fixed order will do, since seats differ only by *)
(* their tickets, and these take every form.                               *)
Shuffled(S) ==
  LET inOrder == SetToSortSeq(S, LAMBDA x, y : x < y)
      n       == Len(inOrder)
  IN  [m \in 1 .. n |-> inOrder[((m + (n \div 3)) % n) + 1]]

(* Suggestions between two of four airports.  Arcs into the origin and out *)
(* of the destination are on no loopless route, and left out.  An arc is   *)
(* cheap and slow, dear and fast, or none: without a fare, or a time.      *)
FourAirports == {"ATL", "LON", "MAD", "SIN"}
UsefulArcs   == {x \in FourAirports \X FourAirports :
                   x[1] # x[2] /\ x[2] # "ATL" /\ x[1] # "SIN"}
NoArc(x)     == IF x[2] = "SIN" THEN <<0, 1>> ELSE <<1, 0>>
SomeFareTables ==
  {[x \in UsefulArcs |-> IF x \in none THEN NoArc(x)
                         ELSE IF x \in cheap THEN <<1, 2>> ELSE <<2, 1>>] :
     cheap \in SUBSET UsefulArcs, none \in SUBSET UsefulArcs}

(* Itineraries over four cities, each arc either missing or with a fare    *)
(* and a time of its own: the cheap arcs are not the fast ones, and the    *)
(* two directions differ.                                                  *)
Pairs      == {x \in (1 .. 4) \X (1 .. 4) : x[1] # x[2]}
Present(x) == <<((3 * x[1] + 5 * x[2]) % 7) + 1, ((4 * x[1] + x[2]) % 5) + 1>>
Missing(x) == IF x[1] < x[2] THEN <<0, 1>> ELSE <<1, 0>>

SomeNetworks ==
  {[x \in Pairs |-> IF x \in sold THEN Present(x) ELSE Missing(x)] : sold \in SUBSET Pairs}
SomeRequests == {<<1, 2, 3, 4>>, <<3, 1, 4>>, <<2, 4>>, <<2>>, <<1, 2, 1>>}
-----------------------------------------------------------------------------
OccupancyRests == eligible = {} /\ Init
YenRests ==
  arc = [x \in Arcs |-> NoArc(x)] /\ criterio = "costo" /\ YenInit
TourRests ==
  /\ arcs = [x \in Pairs |-> Missing(x)] /\ ciudades = <<2>>
  /\ criterion = "COST" /\ returnToOrigin = FALSE
  /\ TourInit

DomainInit ==
  \/ rule = "occupancy"   /\ Init /\ YenRests /\ TourRests
  \/ rule = "suggestions" /\ OccupancyRests /\ YenInit /\ TourRests
  \/ rule = "itinerary"   /\ OccupancyRests /\ YenRests /\ TourInit

DomainNext ==
  /\ UNCHANGED rule
  /\ \/ rule = "occupancy"   /\ Next /\ UNCHANGED <<yenVars, tourVars>>
     \/ rule = "suggestions" /\ YenNext /\ UNCHANGED <<vars, tourVars>>
     \/ rule = "itinerary"   /\ TourNext /\ UNCHANGED <<vars, yenVars>>

DomainSpec == DomainInit /\ [][DomainNext]_domainVars
=============================================================================
