-------------------------- MODULE RouteSuggestions --------------------------
(***************************************************************************)
(* The three best routes between two airports: FindTop3Paths and yenKSP of *)
(* sugerencias_service.go, with Dijkstra's algorithm as its inner loop.    *)
(*                                                                         *)
(* Go visits a map in any order and sort.Slice is not stable, so that of   *)
(* equally short candidates any may be taken: this is the only choice.     *)
(* The relaxations of one node's arcs do not depend on each other and are  *)
(* one step with its visit.                                                *)
(*                                                                         *)
(* A definition whose name has a suffix (RemovedArcs_last) is a plausible  *)
(* mistake in the one it precedes; no other definition uses it.            *)
(***************************************************************************)
EXTENDS Naturals, Sequences, SequencesExt, FiniteSetsExt

CONSTANTS
  Airports,     \* the keys of the matrices
  Origin, Destination,
  Arcs,         \* the directed pairs of airports that are not always 0
  FareTables,   \* what the matrices may be: fare and time of each arc, 0 for none
  Criteria,     \* "costo" or "tiempo"
  K,            \* how many routes are wanted
  Infinity      \* math.Inf(1): more than any route costs

ASSUME RouteSuggestionsAssumption ==
  /\ IsFiniteSet(Airports) /\ Origin \in Airports /\ Destination \in Airports
  /\ Arcs \subseteq Airports \X Airports
  /\ FareTables \subseteq [Arcs -> Nat \X Nat]
  /\ K \in Nat \ {0} /\ Infinity \in Nat \ {0}
  /\ \A table \in FareTables, a \in Arcs, w \in 1 .. 2 :
       Cardinality(Airports) * table[a][w] < Infinity

None == "none"

VARIABLES
  arc,        \* the fare and the time of each arc
  criterio,
  A,          \* the routes found
  B,          \* the candidates: routes and their costs
  i,          \* the place of the spur node in the last route found, 0 if none
  dist, prev, unvisited,   \* Dijkstra's tables
  done

input  == <<arc, criterio>>
tables == <<dist, prev, unvisited>>
yenVars   == <<input, A, B, i, tables, done>>
-----------------------------------------------------------------------------
Fare(u, v) == IF <<u, v>> \in Arcs THEN arc[<<u, v>>][1] ELSE 0
Time(u, v) == IF <<u, v>> \in Arcs THEN arc[<<u, v>>][2] ELSE 0

(* getWeight: an arc without fare or time is none, whatever the criterion. *)
Served(u, v) == Fare(u, v) > 0 /\ Time(u, v) > 0

Weight(u, v) ==
  IF u = v THEN 0
  ELSE IF ~Served(u, v) THEN Infinity
  ELSE IF criterio = "costo" THEN Fare(u, v) ELSE Time(u, v)

Costs(route) ==
  LET sum[x \in DOMAIN route] ==
        IF x = 1 THEN 0 ELSE sum[x - 1] + Weight(route[x - 1], route[x])
  IN  sum
Cost(route) == Costs(route)[Len(route)]

(* The route the spur leaves, the node it leaves it at, and the way there. *)
Spur     == A[Len(A)][i]
RootPath == SubSeq(A[Len(A)], 1, i)
Source   == IF i = 0 THEN Origin ELSE Spur

RemovedNodes == IF i = 0 THEN {} ELSE ToSet(RootPath) \ {Spur}

(* The arcs by which the routes found so far go on from the same root. *)
RemovedArcs_last ==
  IF i = 0 THEN {} ELSE {<<A[Len(A)][i], A[Len(A)][i + 1]>>}

RemovedArcs ==
  IF i = 0 THEN {}
  ELSE {<<route[i], route[i + 1]>> :
          route \in {r \in ToSet(A) : Len(r) > i /\ SubSeq(r, 1, i) = RootPath}}

(* The tables at the start of a search. *)
StartSearch(source, removed) ==
  /\ dist' = [n \in Airports |-> IF n = source THEN 0 ELSE Infinity]
  /\ prev' = [n \in Airports |-> None]
  /\ unvisited' = Airports \ removed

YenInit ==
  /\ arc \in FareTables
  /\ criterio \in Criteria
  /\ A = <<>> /\ B = {} /\ i = 0
  /\ dist = [n \in Airports |-> IF n = Origin THEN 0 ELSE Infinity]
  /\ prev = [n \in Airports |-> None]
  /\ unvisited = Airports
  /\ done = (Origin = Destination)

(* The next node of the search: a nearest one, if any can be reached. *)
Nearest == {n \in unvisited : dist[n] < Infinity /\ \A m \in unvisited : dist[n] <= dist[m]}

SearchEnds == Nearest = {} \/ Destination \in Nearest

Visit(u) ==
  /\ ~done
  /\ u \in Nearest \ {Destination}
  /\ unvisited' = unvisited \ {u}
  /\ LET better(v) == /\ v \notin RemovedNodes
                      /\ <<u, v>> \notin RemovedArcs
                      /\ dist[u] + Weight(u, v) < dist[v]
     IN  /\ dist' = [v \in Airports |-> IF better(v) THEN dist[u] + Weight(u, v) ELSE dist[v]]
         /\ prev' = [v \in Airports |-> IF better(v) THEN u ELSE prev[v]]
  /\ UNCHANGED <<input, A, B, i, done>>

(* The path of the search, back from the destination. *)
Found == dist[Destination] < Infinity

Curr ==
  LET curr[n \in 1 .. Cardinality(Airports)] ==
        IF n = 1 THEN Destination
        ELSE IF curr[n - 1] = Source THEN Source ELSE prev[curr[n - 1]]
  IN  curr

Path ==
  LET length == Min({n \in DOMAIN Curr : Curr[n] = Source})
  IN  [x \in 1 .. length |-> Curr[length + 1 - x]]

Candidate == SubSeq(A[Len(A)], 1, i - 1) \o Path

(* The first search finds the shortest route, or there is none. *)
FirstRoute ==
  /\ ~done /\ i = 0 /\ SearchEnds
  /\ IF Found
       THEN /\ A' = <<Path>>
            /\ i' = 1
            /\ done' = (K = 1)
            /\ StartSearch(Path[1], {})
       ELSE done' = TRUE /\ UNCHANGED <<A, i, tables>>
  /\ UNCHANGED <<input, B>>

(* A spur search adds its route to the candidates, unless it is known; the *)
(* next one leaves the route at its next node.                             *)
Candidates == IF Found /\ Candidate \notin ToSet(A) THEN B \union {Candidate} ELSE B

NextSpur ==
  /\ ~done /\ i > 0 /\ SearchEnds
  /\ i + 1 < Len(A[Len(A)])
  /\ B' = Candidates
  /\ i' = i + 1
  /\ StartSearch(A[Len(A)][i + 1], ToSet(RootPath))
  /\ UNCHANGED <<input, A, done>>

Cheapest(routes) == {r \in routes : \A q \in routes : Cost(r) <= Cost(q)}

(* After the last spur of a route a cheapest candidate is the next route.  *)
NextRoute ==
  /\ ~done /\ i > 0 /\ SearchEnds
  /\ i + 1 = Len(A[Len(A)])
  /\ \/ /\ Candidates = {}
        /\ done' = TRUE
        /\ UNCHANGED <<A, B, i, tables>>
     \/ \E route \in Cheapest(Candidates) :
          /\ A' = Append(A, route)
          /\ B' = Candidates \ {route}
          /\ i' = 1
          /\ done' = (Len(A') = K)
          /\ StartSearch(Origin, {})
  /\ UNCHANGED input

YenNext == (\E u \in Airports : Visit(u)) \/ FirstRoute \/ NextSpur \/ NextRoute

YenSpec == YenInit /\ [][YenNext]_yenVars
-----------------------------------------------------------------------------
(* The reference: every loopless route over arcs that have a fare in the   *)
(* class asked for, and a time, whichever of the two counts.               *)
Routes ==
  {r \in UNION {[1 .. n -> Airports] : n \in 2 .. Cardinality(Airports)} :
     /\ r[1] = Origin /\ r[Len(r)] = Destination
     /\ IsInjective(r)
     /\ \A x \in 2 .. Len(r) : Fare(r[x - 1], r[x]) > 0 /\ Time(r[x - 1], r[x]) > 0}

(* The routes suggested are the K best there are, each once, without a     *)
(* stop visited twice, the best first (yenKSP).                            *)
SuggestsTheBest ==
  done /\ Origin # Destination =>
    /\ ToSet(A) \subseteq Routes
    /\ IsInjective(A)
    /\ Len(A) = Min({K, Cardinality(Routes)})
    /\ \A x \in 2 .. Len(A) : Cost(A[x - 1]) <= Cost(A[x])
    /\ \A r \in Routes \ ToSet(A) : \A x \in DOMAIN A : Cost(A[x]) <= Cost(r)
=============================================================================
