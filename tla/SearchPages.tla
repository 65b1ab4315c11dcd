----------------------------- MODULE SearchPages -----------------------------
(***************************************************************************)
(* The two search pages of the web client: the suggested routes            *)
(* (app/sugerencias/page.tsx) and the travelling salesman (app/tsp/        *)
(* page.tsx).  Both send one search at a time and show its answer under    *)
(* controls that may have changed meanwhile.  What the server answers is   *)
(* in the modules RouteSuggestions and Itinerary: here an answer is the    *)
(* number of its routes, and a search is known by its number.              *)
(*                                                                         *)
(* The page of the suggestions takes any answer for a list: the object of  *)
(* a refused request (503 while an import runs) has no routes to lay out   *)
(* and ends the page (roto).                                               *)
(***************************************************************************)
EXTENDS Naturals

CONSTANTS Ciudades,     \* the choices of cities: a pair, or a set to visit
          Buscables,    \* those a search can be made for
          Opciones,     \* the criterion, the class and the return
          Top,          \* the routes of an answer are at most these
          MaxSearches   \* bound on the searches

ASSUME SearchAssumption ==
    /\ Buscables \subseteq Ciudades /\ Buscables # {} /\ Opciones # {}
    /\ Top \in Nat \ {0} /\ MaxSearches \in Nat

VARIABLES pagina,     \* which of the two pages is open
          eleccion,   \* what its controls say
          busqueda,   \* how many searches were sent
          pendientes, \* the searches on their way
          mostrada,   \* the search whose answer is shown, 0 when none is
          rutas,      \* how many routes it has
          activeTab, buscando, roto

searchVars == <<pagina, eleccion, busqueda, pendientes, mostrada, rutas, activeTab,
                buscando, roto>>

\* The type invariant.
SearchTypeOK ==
    /\ pagina \in {"sugerencias", "tsp"}
    /\ eleccion \in [ciudades : Ciudades, opcion : Opciones]
    /\ busqueda \in 0..MaxSearches
    /\ pendientes \subseteq 1..MaxSearches
    /\ mostrada \in 0..MaxSearches /\ rutas \in 0..Top /\ activeTab \in 0..(Top - 1)
    /\ buscando \in BOOLEAN /\ roto \in BOOLEAN
----------------------------------------------------------------------------
SearchInit ==
    /\ pagina \in {"sugerencias", "tsp"}
    /\ eleccion \in [ciudades : Ciudades \ Buscables, opcion : Opciones]
    /\ busqueda = 0 /\ pendientes = {} /\ mostrada = 0 /\ rutas = 0
    /\ activeTab = 0 /\ buscando = FALSE /\ roto = FALSE

\* The two airports, the class and the criterion of the suggestions, which
\* work during a search as well.
ChooseRoute(c, o) ==
    /\ pagina = "sugerencias" /\ ~roto
    /\ eleccion' = [ciudades |-> c, opcion |-> o]
    /\ UNCHANGED <<pagina, busqueda, pendientes, mostrada, rutas, activeTab, buscando, roto>>

\* toggle: another set of cities for the salesman, which takes the answer away.
Toggle(c) ==
    /\ pagina = "tsp" /\ c # eleccion.ciudades
    /\ eleccion' = [eleccion EXCEPT !.ciudades = c]
    /\ mostrada' = 0 /\ rutas' = 0
    /\ UNCHANGED <<pagina, busqueda, pendientes, activeTab, buscando, roto>>

\* The criterion, the class and the return of the salesman leave it there.
ChooseOption(o) ==
    /\ pagina = "tsp"
    /\ eleccion' = [eleccion EXCEPT !.opcion = o]
    /\ UNCHANGED <<pagina, busqueda, pendientes, mostrada, rutas, activeTab, buscando, roto>>

\* The buttons: two different cities, or at least two, and no search running.
CanSearch_always == eleccion.ciudades \in Buscables
CanSearch == eleccion.ciudades \in Buscables /\ ~buscando

\* A new search starts at the best route.
FirstTab == activeTab' = 0

\* simulateDijkstra and calculate up to their await.
Search ==
    /\ ~roto /\ CanSearch /\ busqueda < MaxSearches
    /\ buscando' = TRUE
    /\ busqueda' = busqueda + 1 /\ pendientes' = pendientes \cup {busqueda + 1}
    /\ mostrada' = 0 /\ rutas' = 0
    /\ FirstTab
    /\ UNCHANGED <<pagina, eleccion, roto>>

SearchOver(n) == pendientes' = pendientes \ {n} /\ buscando' = FALSE

Show(n, k) == mostrada' = n /\ rutas' = k
ShowNothing == UNCHANGED <<mostrada, rutas>>

\* The server answers: up to Top suggestions, perhaps none, or the tour.
SearchAnswered(n) ==
    /\ n \in pendientes /\ ~roto
    /\ \/ pagina = "sugerencias" /\ \E k \in 0..Top : Show(n, k)
       \/ pagina = "tsp" /\ Show(n, 1)
    /\ SearchOver(n)
    /\ UNCHANGED <<pagina, eleccion, busqueda, activeTab, roto>>

\* It refuses: the salesman says so, the suggestions break.
SearchRefused(n) ==
    /\ n \in pendientes /\ ~roto
    /\ roto' = (pagina = "sugerencias")
    /\ ShowNothing /\ SearchOver(n)
    /\ UNCHANGED <<pagina, eleccion, busqueda, activeTab>>

\* It is not reached: the suggestions say that there is no route.
SearchLost(n) ==
    /\ n \in pendientes /\ ~roto
    /\ IF pagina = "sugerencias" THEN Show(n, 0) ELSE ShowNothing
    /\ SearchOver(n)
    /\ UNCHANGED <<pagina, eleccion, busqueda, activeTab, roto>>

\* The tabs of the suggestions, one per route.
TabExists_last(i) == i <= rutas
TabExists(i) == i < rutas

ClickTab(i) ==
    /\ ~roto /\ pagina = "sugerencias" /\ TabExists(i)
    /\ activeTab' = i
    /\ UNCHANGED <<pagina, eleccion, busqueda, pendientes, mostrada, rutas,
                   buscando, roto>>

\* currentRoute: whether one of the routes is laid out, below the tabs.
CurrentRoute == activeTab < rutas

SearchEnded(n) == SearchAnswered(n) \/ SearchRefused(n) \/ SearchLost(n)

SearchNext ==
    \/ \E c \in Ciudades, o \in Opciones : ChooseRoute(c, o)
    \/ \E c \in Ciudades : Toggle(c)
    \/ \E o \in Opciones : ChooseOption(o)
    \/ Search
    \/ \E n \in pendientes : SearchEnded(n)
    \/ \E i \in 0..Top : ClickTab(i)

SearchSpec == SearchInit /\ [][SearchNext]_searchVars
----------------------------------------------------------------------------
(***************************************************************************)
(* Properties.                                                             *)
(***************************************************************************)

\* What is shown answers the last search, never an earlier one: the answers
\* have no number in the code, only the button keeps them apart.  And the tab
\* that is open is one of its routes, although answers have different numbers
\* of them.
LastSearchIsShown ==
    /\ mostrada # 0 => mostrada = busqueda
    /\ rutas > 0 => CurrentRoute
=============================================================================
