-------------------------- MODULE FlightCatalogue --------------------------
(***************************************************************************)
(* The flight list of the web client (app/vuelos/page.tsx): its filters    *)
(* and pages, the requests that fill it, and the change of a flight's      *)
(* state from the detail dialog.                                           *)
(*                                                                         *)
(* Every change of a filter or of the page sends a request while earlier   *)
(* ones may still be on their way, answers come back in any order, and     *)
(* `thisRequest' (line 43) decides which of them may be shown.  An action  *)
(* is one handler up to its next await, with the render and the effects    *)
(* React flushes before the next event.  The list is the request it        *)
(* answers; of its flights one is followed, by its state and by those it   *)
(* has had: a list is read from a copy and may show any of them.           *)
(***************************************************************************)
EXTENDS Naturals, FiniteSets

CONSTANTS Filters,      \* scope, identifier, origin and destination, together
          NoFilter,     \* what the page starts with
          Sizes,        \* rows per page
          FirstSize,    \* what the page starts with: 25
          MaxTotal,     \* bound on the flights that match
          MaxRequests,  \* bound on the requests of one visit of the page
          MaxChanges,   \* bound on the changes of state of one visit
          LastState     \* the state that has no next one: 6, "Llegó"

ASSUME CatalogueAssumption ==
    /\ NoFilter \in Filters
    /\ Sizes \subseteq Nat \ {0} /\ FirstSize \in Sizes
    /\ MaxTotal \in Nat /\ MaxRequests \in Nat \ {0} /\ MaxChanges \in Nat
    /\ LastState \in Nat \ {0}

VARIABLES query,      \* filters, rows per page and page, as the controls say
          requestID,  \* the ref of line 25
          call,       \* call[i]: how far request i has come
          asked,      \* asked[i]: the query request i was sent with
          loading, listError,
          shown,      \* the request whose list is displayed, 0 before any
          totalVuelos,
          selectedVuelo,  \* the state of the flight in the dialog, 0 when closed
          puts,       \* the changes sent: the query and the state they carry
          changes,    \* how many changes were sent
          arriving,   \* those of them the server has not come to, answered or not
          stage,      \* the state of the flight on the server that owns it
          history,    \* the states it has had, one of which a copy has
          departed    \* whether its departure has passed

pageVars == <<query, loading, listError, shown, totalVuelos, selectedVuelo>>
callVars == <<requestID, call, asked>>
flightVars == <<stage, history, departed>>
changeVars == <<puts, changes, arriving>>
catalogueVars == <<pageVars, callVars, changeVars, flightVars>>

Requests == 1..MaxRequests
MaxPage == IF MaxTotal = 0 THEN 1 ELSE MaxTotal    \* a page has a flight, or there is one
Queries == [filter : Filters, size : Sizes, page : 1..MaxPage]
States == 1..LastState
Calls == [n : 1..MaxChanges, query : Queries, state : 1..(LastState + 1)]

\* The type invariant.
CatalogueTypeOK ==
    /\ query \in Queries
    /\ requestID \in 0..MaxRequests
    /\ call \in [Requests -> {"none", "sent", "read", "done"}]
    /\ asked \in [Requests -> Queries]
    /\ loading \in BOOLEAN /\ listError \in BOOLEAN
    /\ shown \in 0..MaxRequests
    /\ totalVuelos \in 0..MaxTotal
    /\ selectedVuelo \in 0..LastState
    /\ changes \in 0..MaxChanges
    /\ puts \subseteq Calls /\ arriving \subseteq Calls
    /\ stage \in 1..(LastState + 1) /\ history \subseteq 1..(LastState + 1)
    /\ departed \in BOOLEAN
----------------------------------------------------------------------------
\* ceil(total / size), and one page of nothing.
TotalPages_floor(total, size) == total \div size + 1
TotalPages(total, size) ==
    IF total = 0 THEN 1 ELSE (total + size - 1) \div size

\* The pages the list of now has: what handlePageChange takes and its buttons offer.
Pages == 1..TotalPages(totalVuelos, query.size)

\* What of request i may be shown: only the last one sent.
IsCurrent_always(i) == TRUE
IsCurrent(i) == i = requestID

\* fetchVuelos up to its await, sent for query q.
FetchVuelos(q) ==
    /\ requestID < MaxRequests
    /\ requestID' = requestID + 1
    /\ call' = [call EXCEPT ![requestID + 1] = "sent"]
    /\ asked' = [asked EXCEPT ![requestID + 1] = q]
    /\ loading' = TRUE
    /\ listError' = FALSE

\* The effect of the filters and the page: a request when one of them changed.
SetQuery(q) ==
    /\ query' = q
    /\ IF q # query THEN FetchVuelos(q)
                    ELSE UNCHANGED <<callVars, loading, listError>>

FirstQuery == [filter |-> NoFilter, size |-> FirstSize, page |-> 1]

\* The page is mounted and its first request is sent.
CatalogueInit ==
    /\ query = FirstQuery
    /\ asked = [i \in Requests |-> FirstQuery]
    /\ requestID = 1
    /\ call = [i \in Requests |-> IF i = 1 THEN "sent" ELSE "none"]
    /\ loading = TRUE /\ listError = FALSE
    /\ shown = 0 /\ totalVuelos = 0 /\ selectedVuelo = 0
    /\ puts = {} /\ arriving = {} /\ changes = 0
    /\ stage \in States /\ history = {stage}
    /\ departed \in BOOLEAN
----------------------------------------------------------------------------
\* The dialog covers the page: its controls answer only when it is closed.
Uncovered == selectedVuelo = 0

\* The buttons of the scope, the form of the identifier, the two selects and
\* "Limpiar": each one goes back to the first page.
ChangeFilter ==
    /\ Uncovered
    /\ \E f \in Filters : SetQuery([query EXCEPT !.filter = f, !.page = 1])
    /\ UNCHANGED <<shown, totalVuelos, selectedVuelo, changeVars, flightVars>>

\* The list and its pages are displayed: not while loading, not when empty.
Listed == ~loading /\ totalVuelos > 0

ChangeSize ==
    /\ Uncovered /\ Listed
    /\ \E s \in Sizes : SetQuery([query EXCEPT !.size = s, !.page = 1])
    /\ UNCHANGED <<shown, totalVuelos, selectedVuelo, changeVars, flightVars>>

\* handlePageChange, from the buttons and from "Ir a página".
HandlePageChange ==
    /\ Uncovered /\ Listed
    /\ \E p \in Pages : SetQuery([query EXCEPT !.page = p])
    /\ UNCHANGED <<shown, totalVuelos, selectedVuelo, changeVars, flightVars>>

\* "Reintentar" after an error, "Nuevo Vuelo", and the end of its dialog when
\* the flights are saved: the dialog covered the controls since its click.
FetchAgain ==
    /\ Uncovered
    /\ FetchVuelos(query)
    /\ UNCHANGED <<query, shown, totalVuelos, selectedVuelo, changeVars, flightVars>>

\* "Ver detalle" of the followed flight, in the state a copy had it.
VerDetalle ==
    /\ Uncovered /\ Listed /\ shown # 0
    /\ (asked[shown].page - 1) * asked[shown].size < totalVuelos
    /\ selectedVuelo' \in history \cap (1..LastState)
    /\ UNCHANGED <<query, loading, listError, shown, totalVuelos,
                   callVars, changeVars, flightVars>>

Cerrar ==
    /\ ~Uncovered
    /\ selectedVuelo' = 0
    /\ UNCHANGED <<query, loading, listError, shown, totalVuelos,
                   callVars, changeVars, flightVars>>

\* What the button of the dialog asks for: the state after the one displayed.
NextState(s) == s + 1

\* The dialog after the click of its button: closed, not ahead of the answer.
AfterChange_ahead(s) == NextState(s)
AfterChange(s) == 0

\* changeState up to its await; the list it will ask for is the one of this
\* moment's render.
ChangeState ==
    /\ selectedVuelo \in 1..(LastState - 1)
    /\ changes < MaxChanges
    /\ changes' = changes + 1
    /\ LET c == [n |-> changes', query |-> query, state |-> NextState(selectedVuelo)]
       IN  puts' = puts \cup {c} /\ arriving' = arriving \cup {c}
    /\ selectedVuelo' = AfterChange(selectedVuelo)
    /\ UNCHANGED <<query, loading, listError, shown, totalVuelos, callVars, flightVars>>
----------------------------------------------------------------------------
\* The guarded part of a request's answer: the list of request i replaces the
\* displayed one.  The catalogue may have changed since any earlier answer.
ListArrives(i) ==
    /\ call[i] = "sent"
    /\ IF IsCurrent(i)
         THEN /\ call' = [call EXCEPT ![i] = "read"]
              /\ shown' = i
              /\ totalVuelos' \in 0..MaxTotal
         ELSE /\ call' = [call EXCEPT ![i] = "done"]
              /\ UNCHANGED <<shown, totalVuelos>>
    /\ UNCHANGED <<query, requestID, asked, loading, listError, selectedVuelo,
                   changeVars, flightVars>>

\* The finally of a request.
Finally(i, failed) ==
    IF IsCurrent(i)
      THEN /\ listError' = (listError \/ failed)
           /\ loading' = FALSE
      ELSE UNCHANGED <<listError, loading>>

\* The tables of the cities, planes, times and fares have been read too.
TablesArrive(i) ==
    /\ call[i] = "read"
    /\ call' = [call EXCEPT ![i] = "done"]
    /\ Finally(i, FALSE)
    /\ UNCHANGED <<query, shown, totalVuelos, selectedVuelo, requestID, asked,
                   changeVars, flightVars>>

\* The server refuses the request, one of the five is lost, or an answer
\* cannot be read.
RequestFails(i) ==
    /\ call[i] \in {"sent", "read"}
    /\ call' = [call EXCEPT ![i] = "done"]
    /\ Finally(i, TRUE)
    /\ UNCHANGED <<query, shown, totalVuelos, selectedVuelo, requestID, asked,
                   changeVars, flightVars>>

\* UpdateEstadoVuelo: a flight that has not departed is scheduled, whatever is asked.
UpdateEstado(s) == IF departed THEN s ELSE 1

\* The server comes to a call, in any order and whether or not the page still
\* waits for it: the change is made, whatever the state is now, or refused.
ServerHandles(c) ==
    /\ c \in arriving
    /\ arriving' = arriving \ {c}
    /\ \/ /\ stage' = UpdateEstado(c.state)
          /\ history' = history \cup {stage'}
       \/ UNCHANGED <<stage, history>>
    /\ UNCHANGED <<pageVars, callVars, puts, changes, departed>>

\* It answers: changeState asks for its list again without a look at the answer.
PutAnswered(c) ==
    /\ c \in puts \ arriving
    /\ puts' = puts \ {c}
    /\ FetchVuelos(c.query)
    /\ UNCHANGED <<query, shown, totalVuelos, selectedVuelo, changes, arriving, flightVars>>

\* The call is lost for the page, before or after the server comes to it, if it
\* does: the exception leaves changeState and nothing is fetched.
PutLost(c) ==
    /\ c \in puts
    /\ puts' = puts \ {c}
    /\ UNCHANGED <<pageVars, callVars, changes, arriving, flightVars>>

\* The time of departure passes.
Departs ==
    /\ ~departed
    /\ departed' = TRUE
    /\ UNCHANGED <<pageVars, callVars, changeVars, stage, history>>

UserActs == \/ ChangeFilter \/ ChangeSize \/ HandlePageChange \/ FetchAgain
            \/ VerDetalle \/ Cerrar \/ ChangeState

AnswerArrives(i) == ListArrives(i) \/ TablesArrive(i) \/ RequestFails(i)

CatalogueNext ==
    \/ UserActs
    \/ \E i \in Requests : AnswerArrives(i)
    \/ \E c \in arriving : ServerHandles(c)
    \/ \E c \in puts : PutAnswered(c) \/ PutLost(c)
    \/ Departs

CatalogueSpec == CatalogueInit /\ [][CatalogueNext]_catalogueVars

\* A request is answered or fails: the browser and the proxy give up at last.
CatalogueFairness == \A i \in Requests : WF_catalogueVars(AnswerArrives(i))

CatalogueFairSpec == CatalogueSpec /\ CatalogueFairness
----------------------------------------------------------------------------
(***************************************************************************)
(* Properties.                                                             *)
(***************************************************************************)

\* A displayed list with neither a spinner nor an error is the answer of the
\* last request sent, in whatever order the answers came (lines 69, 78, 80).
ShownIsLatest == ~loading /\ ~listError => shown = requestID

\* The last list asked for by the controls is the list of the controls: only
\* the list a change of state asks for may belong to other filters (line 103).
ControlsAskForTheirList ==
    ~loading /\ ~listError /\ changes = 0 => asked[shown] = query

\* Both: what is displayed is the last answer, to the controls' own question.
ListIsCurrent == ShownIsLatest /\ ControlsAskForTheirList

\* The last request of the page always ends its spinner (lines 77 to 81).
LoadingEnds == loading ~> ~loading

\* However stale the copies the dialog reads and whatever calls overtake each
\* other, a flight enters no state before it was in the one before, except the
\* first, which none enters after its departure (lines 573 and 574, the time
\* UpdateEstadoVuelo looks at).  A stale dialog may take it back to a state it
\* had, as the server compares nothing.
StagesInOrder ==
    [][stage' # stage => IF stage' = 1 THEN ~departed ELSE stage' - 1 \in history]_catalogueVars

\* "Resultado de los filtros actuales." (line 587): the displayed list answers
\* the filters and the page of the controls.
ShownAnswersTheFilters == ~loading /\ ~listError => asked[shown] = query
=============================================================================
