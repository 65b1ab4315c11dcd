-------------------------- MODULE WebFollowingProofs --------------------------
(***************************************************************************)
(* Theorems about the two pages that follow the server (FlightCatalogue    *)
(* and InputsPage, one instance in MCWebFollowing), for all filters, sizes *)
(* of a page, flights, requests, files, jobs, polls and visits.            *)
(*                                                                         *)
(* That the list displayed is the last one asked for is not inductive: it  *)
(* says nothing of the requests that are on their way.  RequestsInv adds   *)
(* what the answers rely on, namely that the last request sent is the only *)
(* one that decides on the spinner, the error and the list.  Nor is that   *)
(* the job displayed is true: what lookups, validations and polls on their *)
(* way may bring is in LookupsOK, RequestsOK and PollsOK.                  *)
(***************************************************************************)
EXTENDS MCWebFollowing, Integers, FiniteSetTheorems, TLAPS

USE CatalogueAssumption

\* Division rounds down.
LEMMA DivBounds ==
    ASSUME NEW n \in Nat, NEW d \in Nat \ {0}
    PROVE  n \div d \in Nat /\ d * (n \div d) <= n /\ n < d * (n \div d) + d
<1>1. n = d * (n \div d) + (n % d) /\ n % d \in 0..(d - 1) /\ n \div d \in Int
  OBVIOUS
<1> QED BY <1>1

\* The pages of a list of at most MaxTotal flights are pages the queries have.
LEMMA TotalPagesBound ==
    ASSUME NEW total \in 0..MaxTotal, NEW size \in Nat \ {0}
    PROVE  TotalPages(total, size) \in 1..MaxPage
<1>1. CASE total = 0
  BY <1>1 DEF TotalPages, MaxPage
<1>2. CASE total # 0
  <2> DEFINE q == (total + size - 1) \div size
  <2>1. q \in Nat /\ size * q <= total + size - 1 /\ total + size - 1 < size * q + size
    BY <1>2, DivBounds
  <2>2. q >= 1
    BY <2>1, <1>2
  <2>3. q <= total
    BY <2>1, <1>2
  <2> QED BY <2>1, <2>2, <2>3, <1>2 DEF TotalPages, MaxPage
<1> QED BY <1>1, <1>2
----------------------------------------------------------------------------
\* A request sent for query q has its types.
LEMMA FetchType ==
    ASSUME CatalogueTypeOK, NEW q \in Queries, FetchVuelos(q)
    PROVE  /\ requestID' \in 0..MaxRequests
           /\ call' \in [Requests -> {"none", "sent", "read", "done"}]
           /\ asked' \in [Requests -> Queries]
           /\ loading' \in BOOLEAN /\ listError' \in BOOLEAN
<1>1. requestID' \in 0..MaxRequests /\ requestID + 1 \in Requests
  BY DEF CatalogueTypeOK, FetchVuelos, Requests
<1>2. call' \in [Requests -> {"none", "sent", "read", "done"}]
  BY <1>1 DEF CatalogueTypeOK, FetchVuelos
<1>3. asked' \in [Requests -> Queries]
  BY <1>1 DEF CatalogueTypeOK, FetchVuelos
<1> QED BY <1>1, <1>2, <1>3 DEF FetchVuelos

LEMMA SetQueryType ==
    ASSUME CatalogueTypeOK, NEW q \in Queries, SetQuery(q)
    PROVE  /\ query' \in Queries
           /\ requestID' \in 0..MaxRequests
           /\ call' \in [Requests -> {"none", "sent", "read", "done"}]
           /\ asked' \in [Requests -> Queries]
           /\ loading' \in BOOLEAN /\ listError' \in BOOLEAN
<1>1. query' = q
  BY DEF SetQuery
<1>2. CASE q # query
  BY <1>1, <1>2, FetchType DEF SetQuery
<1>3. CASE q = query
  BY <1>1, <1>3 DEF SetQuery, callVars, CatalogueTypeOK
<1> QED BY <1>2, <1>3

LEMMA FinallyType ==
    ASSUME CatalogueTypeOK, NEW i \in Requests, NEW failed \in BOOLEAN, Finally(i, failed)
    PROVE  loading' \in BOOLEAN /\ listError' \in BOOLEAN
BY DEF CatalogueTypeOK, Finally

LEMMA FirstQueryType == FirstQuery \in Queries
BY DEF FirstQuery, Queries, MaxPage

\* A query with another page, filter or size is a query.
LEMMA WithPage ==
    ASSUME NEW q \in Queries, NEW p \in 1..MaxPage
    PROVE  [q EXCEPT !.page = p] \in Queries
BY DEF Queries

LEMMA WithFilter ==
    ASSUME NEW q \in Queries, NEW f \in Filters
    PROVE  [q EXCEPT !.filter = f] \in Queries
BY DEF Queries

LEMMA WithSize ==
    ASSUME NEW q \in Queries, NEW s \in Sizes
    PROVE  [q EXCEPT !.size = s] \in Queries
BY DEF Queries

LEMMA CatalogueInitType == CatalogueInit => CatalogueTypeOK
<1> SUFFICES ASSUME CatalogueInit PROVE CatalogueTypeOK
  OBVIOUS
<1>1. query \in Queries /\ asked \in [Requests -> Queries]
  BY FirstQueryType DEF CatalogueInit
<1>2. call \in [Requests -> {"none", "sent", "read", "done"}]
  BY DEF CatalogueInit
<1>3. /\ stage \in 1..(LastState + 1) /\ history \subseteq 1..(LastState + 1)
      /\ departed \in BOOLEAN
  BY DEF CatalogueInit, States
<1>4. /\ requestID = 1 /\ shown = 0 /\ totalVuelos = 0 /\ selectedVuelo = 0
      /\ changes = 0 /\ puts = {} /\ arriving = {} /\ loading = TRUE /\ listError = FALSE
  BY DEF CatalogueInit
<1>5. /\ 1 \in 0..MaxRequests /\ 0 \in 0..MaxRequests /\ 0 \in 0..MaxTotal
      /\ 0 \in 0..LastState /\ 0 \in 0..MaxChanges
  OBVIOUS
<1> QED BY <1>1, <1>2, <1>3, <1>4, <1>5 DEF CatalogueTypeOK

LEMMA CatalogueNextType == CatalogueTypeOK /\ [CatalogueNext]_catalogueVars => CatalogueTypeOK'
<1> SUFFICES ASSUME CatalogueTypeOK, [CatalogueNext]_catalogueVars PROVE CatalogueTypeOK'
  OBVIOUS
<1>1. CASE ChangeFilter
  <2>1. PICK f \in Filters : SetQuery([query EXCEPT !.filter = f, !.page = 1])
    BY <1>1 DEF ChangeFilter
  <2>2. [query EXCEPT !.filter = f, !.page = 1] \in Queries
    <3>1. [query EXCEPT !.filter = f] \in Queries /\ 1 \in 1..MaxPage
      BY WithFilter DEF CatalogueTypeOK, MaxPage
    <3> QED BY <3>1, WithPage
  <2> QED BY <2>1, <2>2, SetQueryType, <1>1
          DEF ChangeFilter, CatalogueTypeOK, changeVars, flightVars
<1>2. CASE ChangeSize
  <2>1. PICK s \in Sizes : SetQuery([query EXCEPT !.size = s, !.page = 1])
    BY <1>2 DEF ChangeSize
  <2>2. [query EXCEPT !.size = s, !.page = 1] \in Queries
    <3>1. [query EXCEPT !.size = s] \in Queries /\ 1 \in 1..MaxPage
      BY WithSize DEF CatalogueTypeOK, MaxPage
    <3> QED BY <3>1, WithPage
  <2> QED BY <2>1, <2>2, SetQueryType, <1>2
          DEF ChangeSize, CatalogueTypeOK, changeVars, flightVars
<1>3. CASE HandlePageChange
  <2>1. PICK p \in Pages : SetQuery([query EXCEPT !.page = p])
    BY <1>3 DEF HandlePageChange
  <2>2. query.size \in Nat \ {0} /\ totalVuelos \in 0..MaxTotal
    BY DEF CatalogueTypeOK, Queries
  <2>3. p \in 1..MaxPage
    BY <2>1, <2>2, TotalPagesBound DEF MaxPage, Pages
  <2>4. [query EXCEPT !.page = p] \in Queries
    BY <2>3, WithPage DEF CatalogueTypeOK
  <2> QED BY <2>1, <2>4, SetQueryType, <1>3
          DEF HandlePageChange, CatalogueTypeOK, changeVars, flightVars
<1>4. CASE FetchAgain
  <2>1. query \in Queries /\ FetchVuelos(query)
    BY <1>4 DEF FetchAgain, CatalogueTypeOK
  <2> QED BY <2>1, FetchType, <1>4 DEF FetchAgain, CatalogueTypeOK, changeVars, flightVars
<1>5. CASE VerDetalle
  BY <1>5 DEF VerDetalle, CatalogueTypeOK, callVars, changeVars, flightVars
<1>6. CASE Cerrar
  BY <1>6 DEF Cerrar, CatalogueTypeOK, callVars, changeVars, flightVars
<1>7. CASE ChangeState
  <2>1. changes' \in 1..MaxChanges /\ NextState(selectedVuelo) \in 1..(LastState + 1)
    BY <1>7 DEF ChangeState, CatalogueTypeOK, NextState
  <2>2. [n |-> changes + 1, query |-> query, state |-> NextState(selectedVuelo)] \in Calls
    BY <2>1, <1>7 DEF ChangeState, CatalogueTypeOK, Calls
  <2>3. puts' \subseteq Calls /\ arriving' \subseteq Calls
    BY <2>2, <1>7 DEF ChangeState, CatalogueTypeOK
  <2>4. selectedVuelo' \in 0..LastState
    BY <1>7 DEF ChangeState, AfterChange
  <2> QED BY <2>1, <2>3, <2>4, <1>7 DEF ChangeState, CatalogueTypeOK, callVars, flightVars
<1>8. ASSUME NEW i \in Requests, ListArrives(i) PROVE CatalogueTypeOK'
  BY <1>8 DEF ListArrives, CatalogueTypeOK, Requests, changeVars, flightVars
<1>9. ASSUME NEW i \in Requests, TablesArrive(i) PROVE CatalogueTypeOK'
  <2>1. loading' \in BOOLEAN /\ listError' \in BOOLEAN
    BY <1>9, FinallyType DEF TablesArrive
  <2> QED BY <2>1, <1>9 DEF TablesArrive, CatalogueTypeOK, changeVars, flightVars
<1>10. ASSUME NEW i \in Requests, RequestFails(i) PROVE CatalogueTypeOK'
  <2>1. loading' \in BOOLEAN /\ listError' \in BOOLEAN
    BY <1>10, FinallyType DEF RequestFails
  <2> QED BY <2>1, <1>10 DEF RequestFails, CatalogueTypeOK, changeVars, flightVars
<1>11. ASSUME NEW c \in puts, PutAnswered(c) PROVE CatalogueTypeOK'
  <2>1. c.query \in Queries
    BY DEF CatalogueTypeOK, Calls
  <2>2. FetchVuelos(c.query)
    BY <1>11 DEF PutAnswered
  <2> QED BY <2>1, <2>2, FetchType, <1>11 DEF PutAnswered, CatalogueTypeOK, flightVars
<1>12. ASSUME NEW c \in puts, PutLost(c) PROVE CatalogueTypeOK'
  BY <1>12 DEF PutLost, CatalogueTypeOK, pageVars, callVars, flightVars
<1>15. ASSUME NEW c \in arriving, ServerHandles(c) PROVE CatalogueTypeOK'
  <2>1. UpdateEstado(c.state) \in 1..(LastState + 1)
    BY DEF CatalogueTypeOK, UpdateEstado, Calls
  <2>2. stage' \in 1..(LastState + 1) /\ history' \subseteq 1..(LastState + 1)
    BY <2>1, <1>15 DEF ServerHandles, CatalogueTypeOK
  <2> QED BY <2>2, <1>15 DEF ServerHandles, CatalogueTypeOK, pageVars, callVars
<1>13. CASE Departs
  BY <1>13 DEF Departs, CatalogueTypeOK, pageVars, callVars, changeVars
<1>14. CASE UNCHANGED catalogueVars
  BY <1>14 DEF CatalogueTypeOK, catalogueVars, pageVars, callVars, changeVars, flightVars
<1> QED
  BY <1>1, <1>2, <1>3, <1>4, <1>5, <1>6, <1>7, <1>8, <1>9, <1>10, <1>11, <1>12, <1>13, <1>14,
     <1>15
     DEF CatalogueNext, UserActs, AnswerArrives

\* The types hold for every instance of the page.
THEOREM CatalogueTypeCorrect == CatalogueSpec => []CatalogueTypeOK
BY CatalogueInitType, CatalogueNextType, PTL DEF CatalogueSpec
----------------------------------------------------------------------------
\* What the answers rely on: only the last request sent can end the spinner,
\* show its list and report its failure.
RequestsInv ==
    /\ requestID >= 1
    /\ ~loading => call[requestID] = "done"
    /\ call[requestID] = "read" => shown = requestID
    /\ call[requestID] = "done" => listError \/ shown = requestID

\* Until a state is changed every request is sent for the controls.
ControlsInv == changes = 0 => puts = {} /\ asked[requestID] = query

\* The state a change carries comes after one the flight has had.
StagesInv ==
    /\ selectedVuelo # 0 => selectedVuelo \in history
    /\ \A c \in arriving : c.state \in Nat \ {1} /\ c.state - 1 \in history

\* Sending a request for the query of the controls keeps both.
LEMMA FetchKeeps ==
    ASSUME CatalogueTypeOK, NEW q \in Queries, FetchVuelos(q)
    PROVE  /\ RequestsInv'
           /\ asked'[requestID'] = q
<1>1. requestID' = requestID + 1 /\ requestID + 1 \in Requests /\ requestID' >= 1
  BY DEF CatalogueTypeOK, FetchVuelos, Requests
<1>2. call'[requestID'] = "sent" /\ asked'[requestID'] = q
  BY <1>1 DEF CatalogueTypeOK, FetchVuelos
<1>3. loading' = TRUE
  BY DEF FetchVuelos
<1> QED BY <1>1, <1>2, <1>3 DEF RequestsInv

LEMMA SetQueryKeeps ==
    ASSUME CatalogueTypeOK, RequestsInv, ControlsInv, NEW q \in Queries, SetQuery(q),
           UNCHANGED <<shown, changes, puts>>
    PROVE  RequestsInv' /\ ControlsInv'
<1>1. CASE q # query
  <2>1. FetchVuelos(q) /\ query' = q
    BY <1>1 DEF SetQuery
  <2> QED BY <2>1, FetchKeeps DEF ControlsInv
<1>2. CASE q = query
  <2>1. UNCHANGED <<query, requestID, call, asked, loading, listError, shown, changes, puts>>
    BY <1>2 DEF SetQuery, callVars
  <2> QED BY <2>1 DEF RequestsInv, ControlsInv
<1> QED BY <1>1, <1>2

LEMMA CatalogueInitInv == CatalogueInit => RequestsInv /\ ControlsInv /\ StagesInv
<1> SUFFICES ASSUME CatalogueInit PROVE RequestsInv /\ ControlsInv /\ StagesInv
  OBVIOUS
<1>1. /\ requestID = 1 /\ loading = TRUE /\ selectedVuelo = 0 /\ puts = {}
      /\ call = [i \in Requests |-> IF i = 1 THEN "sent" ELSE "none"]
  BY DEF CatalogueInit
<1>2. 1 \in Requests
  BY DEF Requests
<1>3. call[requestID] = "sent"
  BY <1>1, <1>2
<1>4. asked[requestID] = query /\ arriving = {}
  BY <1>1, <1>2 DEF CatalogueInit
<1> QED BY <1>1, <1>3, <1>4 DEF RequestsInv, ControlsInv, StagesInv

\* An answer of a request changes the invariant only when it is the last one.
LEMMA AnswerKeeps ==
    ASSUME CatalogueTypeOK, RequestsInv, ControlsInv, NEW i \in Requests, AnswerArrives(i)
    PROVE  RequestsInv' /\ ControlsInv'
<1>1. ControlsInv'
  BY DEF AnswerArrives, ListArrives, TablesArrive, RequestFails, ControlsInv, changeVars
<1>2. requestID' = requestID /\ requestID \in Requests
  <2>1. requestID' = requestID
    BY DEF AnswerArrives, ListArrives, TablesArrive, RequestFails
  <2>2. requestID \in Requests
    BY DEF CatalogueTypeOK, RequestsInv, Requests
  <2> QED BY <2>1, <2>2
<1>3. CASE i # requestID
  <2>1. UNCHANGED <<loading, listError, shown>>
    BY <1>3 DEF AnswerArrives, ListArrives, TablesArrive, RequestFails, Finally, IsCurrent
  <2>2. call'[requestID] = call[requestID]
    BY <1>2, <1>3 DEF AnswerArrives, ListArrives, TablesArrive, RequestFails, CatalogueTypeOK
  <2> QED BY <1>1, <1>2, <2>1, <2>2 DEF RequestsInv
<1>4. CASE i = requestID
  <2>1. CASE ListArrives(i)
    <3>1. call'[i] = "read" /\ shown' = i /\ loading' = loading /\ call[i] = "sent"
      BY <1>4, <2>1 DEF ListArrives, IsCurrent, CatalogueTypeOK
    <3> QED BY <1>1, <1>2, <1>4, <3>1 DEF RequestsInv
  <2>2. CASE TablesArrive(i)
    <3>1. /\ call'[i] = "done" /\ call[i] = "read" /\ loading' = FALSE
          /\ listError' = (listError \/ FALSE) /\ shown' = shown
      BY <1>4, <2>2 DEF TablesArrive, Finally, IsCurrent, CatalogueTypeOK
    <3> QED BY <1>1, <1>2, <1>4, <3>1 DEF RequestsInv
  <2>3. CASE RequestFails(i)
    <3>1. /\ call'[i] = "done" /\ loading' = FALSE /\ listError' = (listError \/ TRUE)
      BY <1>4, <2>3 DEF RequestFails, Finally, IsCurrent, CatalogueTypeOK
    <3> QED BY <1>1, <1>2, <1>4, <3>1 DEF RequestsInv
  <2> QED BY <2>1, <2>2, <2>3 DEF AnswerArrives
<1> QED BY <1>3, <1>4

LEMMA CatalogueNextInv ==
    CatalogueTypeOK /\ RequestsInv /\ ControlsInv /\ [CatalogueNext]_catalogueVars
      => RequestsInv' /\ ControlsInv'
<1> SUFFICES ASSUME CatalogueTypeOK, RequestsInv, ControlsInv, [CatalogueNext]_catalogueVars
             PROVE  RequestsInv' /\ ControlsInv'
  OBVIOUS
<1>1. CASE ChangeFilter
  <2>1. PICK f \in Filters : SetQuery([query EXCEPT !.filter = f, !.page = 1])
    BY <1>1 DEF ChangeFilter
  <2>2. [query EXCEPT !.filter = f, !.page = 1] \in Queries
    <3>1. [query EXCEPT !.filter = f] \in Queries /\ 1 \in 1..MaxPage
      BY WithFilter DEF CatalogueTypeOK, MaxPage
    <3> QED BY <3>1, WithPage
  <2> QED BY <2>1, <2>2, SetQueryKeeps, <1>1 DEF ChangeFilter, changeVars
<1>2. CASE ChangeSize
  <2>1. PICK s \in Sizes : SetQuery([query EXCEPT !.size = s, !.page = 1])
    BY <1>2 DEF ChangeSize
  <2>2. [query EXCEPT !.size = s, !.page = 1] \in Queries
    <3>1. [query EXCEPT !.size = s] \in Queries /\ 1 \in 1..MaxPage
      BY WithSize DEF CatalogueTypeOK, MaxPage
    <3> QED BY <3>1, WithPage
  <2> QED BY <2>1, <2>2, SetQueryKeeps, <1>2 DEF ChangeSize, changeVars
<1>3. CASE HandlePageChange
  <2>1. PICK p \in Pages : SetQuery([query EXCEPT !.page = p])
    BY <1>3 DEF HandlePageChange
  <2>2. query.size \in Nat \ {0} /\ totalVuelos \in 0..MaxTotal
    BY DEF CatalogueTypeOK, Queries
  <2>3. p \in 1..MaxPage
    BY <2>1, <2>2, TotalPagesBound DEF MaxPage, Pages
  <2>4. [query EXCEPT !.page = p] \in Queries
    BY <2>3, WithPage DEF CatalogueTypeOK
  <2> QED BY <2>1, <2>4, SetQueryKeeps, <1>3 DEF HandlePageChange, changeVars
<1>4. CASE FetchAgain
  <2>1. query \in Queries /\ FetchVuelos(query) /\ UNCHANGED <<query, puts, changes>>
    BY <1>4 DEF FetchAgain, CatalogueTypeOK, changeVars
  <2> QED BY <2>1, FetchKeeps DEF ControlsInv
<1>5. CASE VerDetalle \/ Cerrar \/ Departs
  BY <1>5 DEF VerDetalle, Cerrar, Departs, pageVars, callVars, changeVars, RequestsInv, ControlsInv
<1>6. CASE ChangeState
  <2>1. changes' # 0 /\ UNCHANGED <<requestID, call, asked, loading, listError, shown>>
    BY <1>6 DEF ChangeState, callVars, CatalogueTypeOK
  <2> QED BY <2>1 DEF RequestsInv, ControlsInv
<1>7. ASSUME NEW i \in Requests, AnswerArrives(i) PROVE RequestsInv' /\ ControlsInv'
  BY <1>7, AnswerKeeps
<1>8. ASSUME NEW c \in puts, PutAnswered(c) PROVE RequestsInv' /\ ControlsInv'
  <2>1. c.query \in Queries /\ FetchVuelos(c.query)
    BY <1>8 DEF PutAnswered, CatalogueTypeOK, Calls
  <2>2. changes' # 0
    BY <1>8 DEF PutAnswered, ControlsInv
  <2> QED BY <2>1, <2>2, FetchKeeps DEF ControlsInv
<1>9. ASSUME NEW c \in puts, PutLost(c) PROVE RequestsInv' /\ ControlsInv'
  BY <1>9 DEF PutLost, pageVars, callVars, RequestsInv, ControlsInv
<1>11. ASSUME NEW c \in arriving, ServerHandles(c) PROVE RequestsInv' /\ ControlsInv'
  BY <1>11 DEF ServerHandles, pageVars, callVars, RequestsInv, ControlsInv
<1>10. CASE UNCHANGED catalogueVars
  BY <1>10 DEF catalogueVars, pageVars, callVars, changeVars, RequestsInv, ControlsInv
<1> QED
  BY <1>1, <1>2, <1>3, <1>4, <1>5, <1>6, <1>7, <1>8, <1>9, <1>10, <1>11
     DEF CatalogueNext, UserActs

\* A displayed list with neither a spinner nor an error is the answer of the
\* last request sent (page.tsx:69, 78, 80), for any number of requests.
THEOREM ShownIsLatestCorrect == CatalogueSpec => []ShownIsLatest
<1>1. CatalogueTypeOK /\ RequestsInv => ShownIsLatest
  BY DEF CatalogueTypeOK, RequestsInv, ShownIsLatest
<1> QED BY <1>1, CatalogueInitType, CatalogueNextType, CatalogueInitInv, CatalogueNextInv, PTL
        DEF CatalogueSpec

\* Only a list that a change of state asks for may belong to other filters
\* than the ones of the controls (page.tsx:103).
THEOREM ControlsCorrect == CatalogueSpec => []ControlsAskForTheirList
<1>1. CatalogueTypeOK /\ RequestsInv /\ ControlsInv => ControlsAskForTheirList
  BY DEF CatalogueTypeOK, RequestsInv, ControlsInv, ControlsAskForTheirList
<1> QED BY <1>1, CatalogueInitType, CatalogueNextType, CatalogueInitInv, CatalogueNextInv, PTL
        DEF CatalogueSpec

\* Both: what is displayed is the answer to the last question, the controls'.
THEOREM ListIsCurrentCorrect == CatalogueSpec => []ListIsCurrent
BY ShownIsLatestCorrect, ControlsCorrect, PTL DEF ListIsCurrent
----------------------------------------------------------------------------
\* What a step does to the flight: nothing, or the server came to a call.
StageMoves ==
    \/ UNCHANGED <<stage, history, departed>>
    \/ departed' /\ UNCHANGED <<stage, history>>
    \/ \E c \in arriving : /\ stage' = UpdateEstado(c.state)
                          /\ history' = history \cup {stage'} /\ departed' = departed

\* Every step is one of these, and what it leaves on its way to the server
\* still comes after a state the flight has had.
LEMMA StagesStep ==
    ASSUME CatalogueTypeOK, StagesInv, [CatalogueNext]_catalogueVars
    PROVE  StagesInv' /\ StageMoves
<1>1. ASSUME /\ UNCHANGED <<stage, history>> /\ (departed' \/ departed' = departed)
             /\ selectedVuelo' \in history \cup {0, selectedVuelo}
             /\ arriving' \subseteq arriving
      PROVE  StagesInv' /\ StageMoves
  BY <1>1 DEF StagesInv, StageMoves
<1>2. CASE ChangeState
  <2>1. /\ selectedVuelo # 0 /\ selectedVuelo \in Nat /\ selectedVuelo' = 0
        /\ UNCHANGED <<stage, history, departed>>
    BY <1>2 DEF ChangeState, AfterChange, flightVars, CatalogueTypeOK
  <2>2. \A c \in arriving' : c \in arriving \/ c.state = selectedVuelo + 1
    BY <1>2 DEF ChangeState, NextState
  <2>3. StagesInv'
    BY <2>1, <2>2 DEF StagesInv
  <2> QED BY <2>1, <2>3 DEF StageMoves
<1>3. ASSUME NEW c \in arriving, ServerHandles(c)
      PROVE  StagesInv' /\ StageMoves
  <2>1. /\ arriving' \subseteq arriving /\ selectedVuelo' = selectedVuelo
        /\ history \subseteq history' /\ departed' = departed
    BY <1>3 DEF ServerHandles, pageVars
  <2>2. StagesInv'
    BY <2>1 DEF StagesInv
  <2>3. StageMoves
    BY <1>3, <2>1 DEF ServerHandles, StageMoves
  <2> QED BY <2>2, <2>3
<1>4. ASSUME NEW i \in Requests, AnswerArrives(i)
      PROVE  UNCHANGED <<stage, history, departed, selectedVuelo, arriving>>
  BY <1>4 DEF AnswerArrives, ListArrives, TablesArrive, RequestFails, changeVars, flightVars
<1>5. ASSUME NEW c \in puts, PutAnswered(c) \/ PutLost(c)
      PROVE  UNCHANGED <<stage, history, departed, selectedVuelo, arriving>>
  BY <1>5 DEF PutAnswered, PutLost, pageVars, flightVars
<1>6. ASSUME ChangeFilter \/ ChangeSize \/ HandlePageChange \/ FetchAgain
             \/ VerDetalle \/ Cerrar \/ Departs \/ UNCHANGED catalogueVars
      PROVE  /\ UNCHANGED <<stage, history, arriving>>
             /\ departed' \/ departed' = departed
             /\ selectedVuelo' \in history \cup {0, selectedVuelo}
  BY <1>6 DEF ChangeFilter, ChangeSize, HandlePageChange, FetchAgain, VerDetalle, Cerrar,
              Departs, catalogueVars, pageVars, changeVars, flightVars
<1> QED BY <1>1, <1>2, <1>3, <1>4, <1>5, <1>6 DEF CatalogueNext, UserActs

\* A flight enters no state before it was in the one before, but the first
\* while it has not departed, however many calls overtake each other and from
\* whatever stale copies the dialog reads (page.tsx:95 to 104, 561 to 578).
THEOREM StagesCorrect == CatalogueSpec => StagesInOrder
<1>1. ASSUME CatalogueTypeOK, StagesInv, [CatalogueNext]_catalogueVars, stage' # stage
      PROVE  IF stage' = 1 THEN ~departed ELSE stage' - 1 \in history
  <2>1. PICK c \in arriving : stage' = UpdateEstado(c.state)
    BY <1>1, StagesStep DEF StageMoves
  <2>2. CASE departed
    BY <1>1, <2>1, <2>2 DEF UpdateEstado, StagesInv
  <2>3. CASE ~departed
    BY <2>1, <2>3 DEF UpdateEstado
  <2> QED BY <2>2, <2>3
<1>2. CatalogueTypeOK /\ StagesInv /\ [CatalogueNext]_catalogueVars
        => [stage' # stage => IF stage' = 1 THEN ~departed
                              ELSE stage' - 1 \in history]_catalogueVars
  BY <1>1
<1>3. CatalogueTypeOK /\ StagesInv /\ [CatalogueNext]_catalogueVars => StagesInv'
  BY StagesStep
<1> QED BY <1>2, <1>3, CatalogueInitType, CatalogueNextType, CatalogueInitInv, PTL
        DEF CatalogueSpec, StagesInOrder
(***************************************************************************)
(* The page of the input files.                                            *)
(***************************************************************************)
ServerJobs == [files : Selections, had : (SUBSET JobStates) \ {{}}]

Lookups == [id : JobIDs, from : JobStates, visit : 1..MaxVisits]
Peticiones == [id : 0..MaxJobs, files : Selections \union {NoFiles}, made : BOOLEAN,
               visit : 1..MaxVisits]
PollsMade == [id : JobIDs, from : JobStates, n : 1..MaxPolls]
Displays == [id : JobIDs, st : JobStates \ {"lost"}]

ServerOK == jobs \in Seq(ServerJobs) /\ Len(jobs) <= MaxJobs

\* What the page shows and keeps names jobs that are there, and is true.
FormOK ==
  /\ files \in Selections \union {NoFiles} /\ job \in Displays \union {NoJob}
  /\ busy \in BOOLEAN /\ restarted \in BOOLEAN /\ visit \in 1..MaxVisits
  /\ stored \in 0..Len(jobs) /\ restored \in 0..Len(jobs) /\ job.id \in 0..Len(jobs)
  /\ ShownJobIsTrue

\* A lookup of this visit is for the job that was stored when it began.
LookupsOK ==
  \A l \in lookups : /\ l \in Lookups /\ l.id \in DOMAIN jobs /\ l.visit <= visit
                     /\ l.visit = visit => l.id = restored

\* What the server has made of a request is there: a validation its job, of
\* its files, and a start a job that runs or has run.
MadeOf(p, id) ==
  /\ id \in DOMAIN jobs
  /\ IF IsPreview(p) THEN jobs[id].files = p.files /\ "preview" \in jobs[id].had
                     ELSE "running" \in jobs[id].had

\* A validation of this visit is of the files that are chosen, and the page
\* is busy with it.
RequestOK(p) ==
  /\ p \in Peticiones /\ p.id \in 0..Len(jobs) /\ p.visit <= visit
  /\ ~IsPreview(p) => p.id # 0
  /\ p.made => MadeOf(p, p.id)
  /\ p.visit = visit => busy /\ (IsPreview(p) => p.files = files)

\* There is one request of this visit at a time.
RequestsOK ==
  /\ \A p \in peticiones : RequestOK(p)
  /\ \A p, q \in peticiones : p.visit = visit /\ q.visit = visit => p = q

\* A poll was sent when its job ran, so that none brings it back to waiting.
PollsOK ==
  /\ IsFiniteSet(polls) /\ Cardinality(polls) <= MaxPolls
  /\ \A p \in polls : p \in PollsMade /\ p.id \in DOMAIN jobs /\ Rank[p.from] >= 2

InputsInv == ServerOK /\ FormOK /\ LookupsOK /\ RequestsOK /\ PollsOK

LEMMA RankValues ==
  /\ JobStates = {"preview", "running", "completed", "failed", "lost"}
  /\ Rank["preview"] = 1 /\ Rank["running"] = 2 /\ Rank["completed"] = 3
  /\ Rank["failed"] = 3 /\ Rank["lost"] = 4
  /\ \A s \in JobStates : Rank[s] \in Nat
<1>1. /\ DOMAIN Rank = {"preview", "running", "completed", "failed", "lost"}
      /\ Rank["preview"] = 1 /\ Rank["running"] = 2 /\ Rank["completed"] = 3
      /\ Rank["failed"] = 3 /\ Rank["lost"] = 4
  BY DEF Rank
<1> QED BY <1>1 DEF JobStates

(* The state of a job is one it has had, and none comes after it. *)
LEMMA StateIsLast ==
  ASSUME jobs \in Seq(ServerJobs), NEW id \in DOMAIN jobs
  PROVE  /\ StateOf(id) \in jobs[id].had /\ StateOf(id) \in JobStates
         /\ \A r \in jobs[id].had : Rank[r] <= Rank[StateOf(id)]
<1> DEFINE H == jobs[id].had
<1>1. H \subseteq JobStates /\ H # {}
  <2>1. jobs[id] \in ServerJobs
    OBVIOUS
  <2>2. \A J \in ServerJobs : J.had \subseteq JobStates /\ J.had # {}
    BY DEF ServerJobs
  <2> QED BY <2>1, <2>2
<1> HIDE DEF H
<1>2. \E s \in H : \A r \in H : Rank[r] <= Rank[s]
  <2>0. \A r \in H : r = "preview" \/ r = "running" \/ r = "completed" \/ r = "failed" \/ r = "lost"
    BY <1>1, RankValues
  <2>1. CASE "lost" \in H
    <3>1. \A r \in H : Rank[r] <= Rank["lost"]
      BY <2>0, RankValues
    <3> QED BY <2>1, <3>1
  <2>2. CASE "lost" \notin H /\ "completed" \in H
    <3>1. \A r \in H : Rank[r] <= Rank["completed"]
      BY <2>0, <2>2, RankValues
    <3> QED BY <2>2, <3>1
  <2>3. CASE "lost" \notin H /\ "completed" \notin H /\ "failed" \in H
    <3>1. \A r \in H : Rank[r] <= Rank["failed"]
      BY <2>0, <2>3, RankValues
    <3> QED BY <2>3, <3>1
  <2>4. CASE "lost" \notin H /\ "completed" \notin H /\ "failed" \notin H /\ "running" \in H
    <3>1. \A r \in H : Rank[r] <= Rank["running"]
      BY <2>0, <2>4, RankValues
    <3> QED BY <2>4, <3>1
  <2>5. CASE "lost" \notin H /\ "completed" \notin H /\ "failed" \notin H /\ "running" \notin H
    <3>1. \A r \in H : r = "preview"
      BY <2>0, <2>5
    <3>2. \A r \in H : Rank[r] <= Rank["preview"]
      BY <3>1, RankValues
    <3> QED BY <1>1, <3>1, <3>2
  <2> QED BY <2>1, <2>2, <2>3, <2>4, <2>5
<1>3. StateOf(id) = CHOOSE s \in H : \A r \in H : Rank[r] <= Rank[s]
  BY DEF StateOf, H
<1>4. StateOf(id) \in H /\ \A r \in H : Rank[r] <= Rank[StateOf(id)]
  BY <1>2, <1>3
<1> QED BY <1>1, <1>4 DEF H

LEMMA InputsInvInit == InputsInit => InputsInv
<1> SUFFICES ASSUME InputsInit PROVE InputsInv
  OBVIOUS
<1>1. /\ files = NoFiles /\ job = NoJob /\ busy = FALSE /\ stored = 0 /\ visit = 1 /\ restored = 0
      /\ lookups = {} /\ peticiones = {} /\ polls = {} /\ jobs = <<>> /\ restarted = FALSE
  BY DEF InputsInit
<1>2. <<>> \in Seq(ServerJobs) /\ Len(<<>>) = 0 /\ DOMAIN <<>> = {}
  OBVIOUS
<1>3. IsFiniteSet({}) /\ Cardinality({}) = 0
  BY FS_EmptySet
<1>4. NoJob.id = 0 /\ NoJob.st = "lost"
  BY DEF NoJob
<1>5. /\ MaxJobs \in Nat /\ MaxVisits \in Nat \ {0} /\ MaxPolls \in Nat \ {0}
  BY InputsAssumption
<1>6. ServerOK /\ LookupsOK /\ RequestsOK
  BY <1>1, <1>2, <1>5 DEF ServerOK, LookupsOK, RequestsOK
<1>7. PollsOK
  BY <1>1, <1>3, <1>5 DEF PollsOK
<1>8. ShownJobIsTrue
  BY <1>1, <1>4 DEF ShownJobIsTrue, PreviewIsOfTheFiles, OnlyWhatHappened
<1>9. FormOK
  <2>1. 0 \in 0..Len(jobs) /\ 1 \in 1..MaxVisits
    BY <1>1, <1>2, <1>5
  <2> QED BY <1>1, <1>4, <1>8, <2>1 DEF FormOK
<1> QED BY <1>6, <1>7, <1>9 DEF InputsInv

LEMMA ServerJobFields ==
  ASSUME NEW J \in ServerJobs
  PROVE  J.files \in Selections /\ J.had \subseteq JobStates /\ J.had # {}
BY DEF ServerJobs

LEMMA InputsInvTypes == InputsInv => InputsTypeOK
<1> SUFFICES ASSUME InputsInv PROVE InputsTypeOK
  OBVIOUS
<1>1. ServerOK /\ FormOK /\ LookupsOK /\ RequestsOK /\ PollsOK
  BY DEF InputsInv
<1>2. Len(jobs) \in Nat /\ Len(jobs) <= MaxJobs /\ MaxJobs \in Nat
  BY <1>1, InputsAssumption DEF ServerOK
<1>3. \A id \in DOMAIN jobs : jobs[id].files \in Selections /\ jobs[id].had \subseteq JobStates
  <2>1. \A id \in DOMAIN jobs : jobs[id] \in ServerJobs
    BY <1>1 DEF ServerOK
  <2> QED BY <2>1, ServerJobFields
<1>4. stored \in 0..MaxJobs /\ restored \in 0..MaxJobs
  BY <1>1, <1>2 DEF FormOK
<1>5. lookups \subseteq Lookups
  BY <1>1 DEF LookupsOK
<1>6. peticiones \subseteq Peticiones
  BY <1>1 DEF RequestsOK, RequestOK
<1>7. polls \subseteq PollsMade /\ Cardinality(polls) <= MaxPolls
  BY <1>1 DEF PollsOK
<1>8. /\ files \in Selections \union {NoFiles} /\ job \in Displays \union {NoJob}
      /\ busy \in BOOLEAN /\ restarted \in BOOLEAN /\ visit \in 1..MaxVisits
  BY <1>1 DEF FormOK
<1> QED BY <1>2, <1>3, <1>4, <1>5, <1>6, <1>7, <1>8
        DEF InputsTypeOK, Lookups, Peticiones, PollsMade, Displays

(***************************************************************************)
(* The server's jobs only grow: in number and in the states they have had. *)
(***************************************************************************)
Grows ==
  /\ ServerOK' /\ Len(jobs) <= Len(jobs')
  /\ \A id \in DOMAIN jobs : /\ id \in DOMAIN jobs'
                             /\ jobs'[id].files = jobs[id].files
                             /\ jobs[id].had \subseteq jobs'[id].had

LEMMA SameGrows == ServerOK /\ UNCHANGED jobs => Grows
<1> SUFFICES ASSUME ServerOK, UNCHANGED jobs PROVE Grows
  OBVIOUS
<1>1. Len(jobs) \in Nat
  BY DEF ServerOK
<1> QED BY <1>1 DEF ServerOK, Grows

LEMMA BecomeGrows ==
  ASSUME ServerOK, NEW id \in DOMAIN jobs, NEW s \in JobStates, Become(id, s)
  PROVE  Grows /\ s \in jobs'[id].had
<1>1. jobs' = [jobs EXCEPT ![id].had = @ \cup {s}] /\ jobs \in Seq(ServerJobs)
  BY DEF Become, ServerOK
<1>2. \A J \in ServerJobs : LET K == [J EXCEPT !.had = @ \cup {s}]
                            IN  K \in ServerJobs /\ K.files = J.files /\ K.had = J.had \cup {s}
  BY DEF ServerJobs
<1>3. jobs[id] \in ServerJobs
  BY <1>1
<1>4. PICK K : K = [jobs[id] EXCEPT !.had = @ \cup {s}]
  OBVIOUS
<1>5. K \in ServerJobs /\ K.files = jobs[id].files /\ K.had = jobs[id].had \cup {s}
  BY <1>2, <1>3, <1>4
<1>6. jobs' = [jobs EXCEPT ![id] = K]
  BY <1>1, <1>4
<1>7. /\ jobs' \in Seq(ServerJobs) /\ Len(jobs') = Len(jobs) /\ DOMAIN jobs' = DOMAIN jobs
      /\ jobs'[id] = K /\ \A x \in DOMAIN jobs : x # id => jobs'[x] = jobs[x]
  <2> HIDE DEF ServerJobs
  <2>1. jobs \in Seq(ServerJobs) /\ K \in ServerJobs
    BY <1>1, <1>5
  <2> QED BY <1>6, <2>1
<1>8. \A x \in DOMAIN jobs : jobs'[x].files = jobs[x].files /\ jobs[x].had \subseteq jobs'[x].had
  BY <1>5, <1>7
<1>9. Len(jobs) \in Nat
  BY <1>1
<1> QED BY <1>5, <1>7, <1>8, <1>9 DEF ServerOK, Grows

(***************************************************************************)
(* What a step leaves of each part.                                        *)
(***************************************************************************)
\* A job is displayed that is there, in a state it has had; one that waits
\* to be started is the one that was restored, or is of the files.
Showable(id, s) ==
  /\ id \in DOMAIN jobs' /\ s \in jobs'[id].had /\ s # "lost"
  /\ s = "preview" => id = restored \/ jobs'[id].files = files

LEMMA FormKeeps ==
  ASSUME FormOK, ServerOK, Grows, UNCHANGED <<files, visit, restored>>,
         stored' \in 0..Len(jobs'), busy' \in BOOLEAN, restarted' \in BOOLEAN,
         \/ job' = job
         \/ \E id, s : Showable(id, s) /\ job' = [id |-> id, st |-> s]
  PROVE  FormOK'
<1>1. /\ files' = files /\ visit' = visit /\ restored' = restored /\ restored' \in 0..Len(jobs')
      /\ Len(jobs) \in Nat /\ Len(jobs') \in Nat /\ Len(jobs) <= Len(jobs')
      /\ DOMAIN jobs = 1..Len(jobs) /\ DOMAIN jobs' = 1..Len(jobs')
  BY DEF FormOK, ServerOK, Grows
<1>2. CASE job' = job
  <2>1. job'.id \in 0..Len(jobs') /\ (job.id # 0 => job.id \in DOMAIN jobs)
    BY <1>1, <1>2 DEF FormOK
  <2>2. OnlyWhatHappened'
    BY <1>2, <2>1 DEF FormOK, ShownJobIsTrue, OnlyWhatHappened, Grows
  <2>3. job.st = "preview" => job.id # 0
    BY DEF FormOK, NoJob, Displays, JobIDs
  <2>4. PreviewIsOfTheFiles'
    BY <1>1, <1>2, <2>1, <2>3 DEF FormOK, ShownJobIsTrue, PreviewIsOfTheFiles, Grows
  <2> QED BY <1>1, <1>2, <2>1, <2>2, <2>4 DEF FormOK, ShownJobIsTrue
<1>3. ASSUME NEW id, NEW s, Showable(id, s), job' = [id |-> id, st |-> s] PROVE FormOK'
  <2>1. job'.id = id /\ job'.st = s
    BY <1>3
  <2>2. id \in DOMAIN jobs' /\ s \in jobs'[id].had /\ s # "lost"
        /\ (s = "preview" => id = restored \/ jobs'[id].files = files)
    BY <1>3 DEF Showable
  <2>3. jobs'[id].had \subseteq JobStates
    <3>1. jobs'[id] \in ServerJobs
      BY <2>2 DEF Grows, ServerOK
    <3> QED BY <3>1, ServerJobFields
  <2>4. job' \in Displays /\ id \in 0..Len(jobs')
    <3>1. id \in JobIDs
      BY <1>1, <2>2, InputsAssumption DEF Grows, ServerOK, JobIDs
    <3> QED BY <1>1, <1>3, <2>2, <2>3, <3>1 DEF Displays
  <2>5. ShownJobIsTrue'
    BY <1>1, <2>1, <2>2 DEF ShownJobIsTrue, PreviewIsOfTheFiles, OnlyWhatHappened
  <2> QED BY <1>1, <2>1, <2>4, <2>5 DEF FormOK
<1> QED BY <1>2, <1>3

LEMMA LookupsKeep ==
  ASSUME LookupsOK, Grows, lookups' \subseteq lookups, UNCHANGED <<visit, restored>>
  PROVE  LookupsOK'
BY DEF LookupsOK, Grows

LEMMA MadeStays ==
  ASSUME Grows, NEW p, NEW id, MadeOf(p, id)
  PROVE  MadeOf(p, id)'
BY DEF MadeOf, Grows

LEMMA RequestStays ==
  ASSUME ServerOK, Grows, UNCHANGED <<files, visit>>, NEW p, RequestOK(p),
         p.visit = visit => busy'
  PROVE  RequestOK(p)'
<1>1. Len(jobs) \in Nat /\ Len(jobs') \in Nat /\ Len(jobs) <= Len(jobs')
  BY DEF ServerOK, Grows
<1>2. p \in Peticiones /\ p.id \in 0..Len(jobs) /\ p.visit <= visit /\ (~IsPreview(p) => p.id # 0)
  BY DEF RequestOK
<1>3. p.id \in 0..Len(jobs')
  BY <1>1, <1>2
<1>4. p.made => MadeOf(p, p.id)'
  BY MadeStays DEF RequestOK
<1>5. p.visit = visit' => busy' /\ (IsPreview(p) => p.files = files')
  BY DEF RequestOK
<1>6. p.visit <= visit'
  BY <1>2
<1> QED BY <1>2, <1>3, <1>4, <1>5, <1>6 DEF RequestOK, IsPreview

LEMMA RequestsKeep ==
  ASSUME RequestsOK, ServerOK, Grows, peticiones' \subseteq peticiones,
         UNCHANGED <<files, visit>>,
         \A p \in peticiones' : p.visit = visit => busy'
  PROVE  RequestsOK'
<1>1. \A p \in peticiones' : RequestOK(p)'
  BY RequestStays DEF RequestsOK
<1>2. \A p, q \in peticiones' : p.visit = visit' /\ q.visit = visit' => p = q
  BY DEF RequestsOK
<1> QED BY <1>1, <1>2 DEF RequestsOK

LEMMA PollsKeep ==
  ASSUME PollsOK, Grows, polls' \subseteq polls
  PROVE  PollsOK'
<1>1. IsFiniteSet(polls') /\ Cardinality(polls') <= Cardinality(polls)
      /\ Cardinality(polls) \in Nat /\ Cardinality(polls') \in Nat
  BY FS_Subset, FS_CardinalityType DEF PollsOK
<1>2. Cardinality(polls') <= MaxPolls
  BY <1>1, InputsAssumption DEF PollsOK
<1> QED BY <1>1, <1>2 DEF PollsOK, Grows

\* The request that ends was the one of its visit.
LEMMA RequestEnds ==
  ASSUME InputsInv, Grows, UNCHANGED <<files, visit>>, NEW p, EndRequest(p)
  PROVE  RequestsOK' /\ busy' \in BOOLEAN
<1>1. /\ p \in peticiones /\ peticiones' = peticiones \ {p}
      /\ busy' = (busy /\ p.visit # visit)
  BY DEF EndRequest
<1>2. ASSUME NEW q \in peticiones', q.visit = visit PROVE busy'
  BY <1>1, <1>2 DEF InputsInv, RequestsOK, RequestOK
<1>3. busy' \in BOOLEAN
  BY <1>1
<1> QED BY <1>1, <1>2, <1>3, RequestsKeep DEF InputsInv

\* What a request about a job is answered may be displayed.
LEMMA AnswerShowable ==
  ASSUME ServerOK, UNCHANGED jobs, NEW id \in DOMAIN jobs, NEW from, NEW s \in Answers(id, from),
         s = "preview" => id = restored
  PROVE  \/ JobOf(id, s) = job
         \/ Showable(id, s) /\ JobOf(id, s) = [id |-> id, st |-> s]
BY DEF JobOf, Showable, Answers

LEMMA StoredStays == FormOK /\ ServerOK /\ Grows => stored \in 0..Len(jobs') /\ 0 \in 0..Len(jobs')
<1> SUFFICES ASSUME FormOK, ServerOK, Grows PROVE stored \in 0..Len(jobs') /\ 0 \in 0..Len(jobs')
  OBVIOUS
<1>1. stored \in 0..Len(jobs) /\ Len(jobs) \in Nat /\ Len(jobs') \in Nat /\ Len(jobs) <= Len(jobs')
  BY DEF FormOK, ServerOK, Grows
<1> QED BY <1>1

LEMMA ServerStays ==
  ASSUME InputsInv, Grows, UNCHANGED browserVars, restarted' \in BOOLEAN
  PROVE  InputsInv'
<1>1. /\ UNCHANGED <<files, job, busy, stored, visit, restored, lookups, peticiones, polls>>
      /\ ServerOK /\ FormOK /\ LookupsOK /\ RequestsOK /\ PollsOK
  BY DEF browserVars, InputsInv
<1>2. FormOK'
  BY <1>1, StoredStays, FormKeeps DEF FormOK
<1>3. RequestsOK'
  BY <1>1, RequestsKeep DEF RequestsOK, RequestOK
<1>4. LookupsOK' /\ PollsOK' /\ ServerOK'
  BY <1>1, LookupsKeep, PollsKeep DEF Grows
<1> QED BY <1>2, <1>3, <1>4 DEF InputsInv

LEMMA NoRequestNow ==
  ASSUME RequestsOK, ~busy, NEW p \in peticiones
  PROVE  p.visit # visit
BY DEF RequestsOK, RequestOK

\* Nothing is displayed.
LEMMA NothingShown ==
  ASSUME job' = NoJob
  PROVE  /\ job' \in Displays \union {NoJob} /\ job'.id = 0 /\ ShownJobIsTrue'
<1>1. NoJob.id = 0 /\ NoJob.st = "lost"
  BY DEF NoJob
<1> QED BY <1>1 DEF ShownJobIsTrue, PreviewIsOfTheFiles, OnlyWhatHappened

LEMMA ReopenKeeps == InputsInv /\ ReopenPage => InputsInv'
<1> SUFFICES ASSUME InputsInv, ReopenPage PROVE InputsInv'
  OBVIOUS
<1>1. /\ visit < MaxVisits /\ visit' = visit + 1
      /\ files' = NoFiles /\ job' = NoJob /\ busy' = FALSE /\ restored' = stored
      /\ polls' = {} /\ UNCHANGED <<stored, peticiones, jobs, restarted>>
  BY DEF ReopenPage
<1>2. ServerOK /\ FormOK /\ LookupsOK /\ RequestsOK /\ PollsOK
  BY DEF InputsInv
<1>3. visit \in Nat /\ visit' \in 1..MaxVisits /\ visit' > visit
  BY <1>1, <1>2, InputsAssumption DEF FormOK
<1>4. FormOK'
  <2>1. 0 \in 0..Len(jobs) /\ stored \in 0..Len(jobs)
    BY <1>2 DEF FormOK, ServerOK
  <2> QED BY <1>1, <1>2, <1>3, <2>1, NothingShown DEF FormOK
<1>5. LookupsOK'
  <2> SUFFICES ASSUME NEW l \in lookups'
               PROVE  /\ l \in Lookups /\ l.id \in DOMAIN jobs /\ l.visit <= visit'
                      /\ l.visit = visit' => l.id = stored
    BY <1>1 DEF LookupsOK
  <2>1. CASE l \in lookups
    <3>1. l \in Lookups /\ l.id \in DOMAIN jobs /\ l.visit <= visit
      BY <1>2, <2>1 DEF LookupsOK
    <3>2. l.visit \in Nat
      BY <3>1 DEF Lookups
    <3> QED BY <1>3, <3>1, <3>2
  <2>2. CASE l \notin lookups
    <3>1. stored # 0 /\ l = [id |-> stored, from |-> StateOf(stored), visit |-> visit + 1]
      BY <2>2 DEF ReopenPage
    <3>2. stored \in DOMAIN jobs /\ stored \in JobIDs
      BY <1>2, <3>1, InputsAssumption DEF FormOK, ServerOK, JobIDs
    <3>3. StateOf(stored) \in JobStates
      BY <1>2, <3>2, StateIsLast DEF ServerOK
    <3>4. l.id = stored /\ l.visit = visit' /\ l \in Lookups
      BY <1>1, <1>3, <3>1, <3>2, <3>3 DEF Lookups
    <3> QED BY <1>3, <3>2, <3>4
  <2> QED BY <2>1, <2>2
<1>6. RequestsOK'
  <2>1. ASSUME NEW p \in peticiones PROVE p.visit # visit' /\ p.visit <= visit'
    <3>1. p \in Peticiones /\ p.visit <= visit
      BY <1>2 DEF RequestsOK, RequestOK
    <3>2. p.visit \in Nat
      BY <3>1 DEF Peticiones
    <3> QED BY <1>3, <3>1, <3>2
  <2>2. ASSUME NEW p \in peticiones PROVE RequestOK(p)'
    <3>1. /\ p \in Peticiones /\ p.id \in 0..Len(jobs) /\ (~IsPreview(p) => p.id # 0)
          /\ (p.made => MadeOf(p, p.id))
      BY <1>2 DEF RequestsOK, RequestOK
    <3> QED BY <1>1, <2>1, <3>1 DEF RequestOK, MadeOf, IsPreview
  <2> QED BY <1>1, <2>1, <2>2 DEF RequestsOK
<1>7. PollsOK' /\ ServerOK'
  BY <1>1, <1>2, FS_EmptySet, InputsAssumption DEF PollsOK, ServerOK
<1> QED BY <1>4, <1>5, <1>6, <1>7 DEF InputsInv

LEMMA FilesKeep ==
  ASSUME InputsInv, NEW f \in Selections, ChooseFiles(f)
  PROVE  InputsInv'
<1>1. /\ ~busy /\ files' = f /\ job' = NoJob /\ stored' = 0
      /\ UNCHANGED <<busy, visit, restored, lookups, peticiones, polls, jobs, restarted>>
  BY DEF ChooseFiles, CanChoose
<1>2. ServerOK /\ FormOK /\ LookupsOK /\ RequestsOK /\ PollsOK
  BY DEF InputsInv
<1>3. 0 \in 0..Len(jobs)
  BY <1>2 DEF ServerOK
<1>4. FormOK'
  BY <1>1, <1>2, <1>3, NothingShown DEF FormOK
<1>5. RequestsOK'
  <2>1. ASSUME NEW p \in peticiones PROVE RequestOK(p)'
    BY <1>1, <1>2, NoRequestNow DEF RequestsOK, RequestOK, MadeOf, IsPreview
  <2> QED BY <1>1, <1>2, <2>1 DEF RequestsOK
<1>6. LookupsOK' /\ PollsOK' /\ ServerOK'
  BY <1>1, <1>2 DEF LookupsOK, PollsOK, ServerOK
<1> QED BY <1>4, <1>5, <1>6 DEF InputsInv

\* A request is sent while there is none.
LEMMA RequestSent ==
  ASSUME InputsInv, ~busy, busy' = TRUE, UNCHANGED <<files, visit, jobs>>,
         NEW i \in 0..Len(jobs), NEW f \in Selections \union {NoFiles},
         IF f = NoFiles THEN i # 0 ELSE f = files,
         peticiones' = peticiones \union
                       {[id |-> i, files |-> f, made |-> FALSE, visit |-> visit]}
  PROVE  RequestsOK'
<1>1. RequestsOK /\ ServerOK /\ FormOK
  BY DEF InputsInv
<1>2. PICK n : n = [id |-> i, files |-> f, made |-> FALSE, visit |-> visit]
  OBVIOUS
<1>3. n.id = i /\ n.files = f /\ n.made = FALSE /\ n.visit = visit /\ n \in Peticiones
  <2>1. i \in 0..MaxJobs
    BY <1>1, InputsAssumption DEF ServerOK
  <2> QED BY <1>1, <1>2, <2>1 DEF Peticiones, FormOK
<1>4. visit <= visit
  BY <1>1 DEF FormOK
<1>5. \A p \in peticiones' : p = n \/ (p \in peticiones /\ p.visit # visit)
  <2>1. peticiones' = peticiones \union {n}
    BY <1>2
  <2>2. \A p \in peticiones : p.visit # visit
    BY <1>1, NoRequestNow
  <2> QED BY <2>1, <2>2
<1>6. RequestOK(n)'
  BY <1>3, <1>4 DEF RequestOK, IsPreview
<1>7. ASSUME NEW p \in peticiones, p.visit # visit PROVE RequestOK(p)'
  <2>1. Grows
    BY <1>1, SameGrows
  <2>2. RequestOK(p)
    BY <1>1 DEF RequestsOK
  <2> QED BY <1>1, <1>7, <2>1, <2>2, RequestStays
<1> QED BY <1>3, <1>5, <1>6, <1>7 DEF RequestsOK

LEMMA PreviewKeeps == InputsInv /\ (Preview \/ Process) => InputsInv'
<1> SUFFICES ASSUME InputsInv, Preview \/ Process PROVE InputsInv'
  OBVIOUS
<1>1. ServerOK /\ FormOK /\ LookupsOK /\ RequestsOK /\ PollsOK
  BY DEF InputsInv
<1>2. CASE Preview
  <2>1. /\ files # NoFiles /\ ~busy /\ busy' = TRUE /\ job' = NoJob
        /\ peticiones' = peticiones \cup
                         {[id |-> 0, files |-> files, made |-> FALSE, visit |-> visit]}
        /\ UNCHANGED <<files, stored, visit, restored, lookups, polls, jobs, restarted>>
    BY <1>2 DEF Preview, CanChoose
  <2>2. 0 \in 0..Len(jobs) /\ files \in Selections
    BY <1>1, <2>1 DEF ServerOK, FormOK
  <2>3. RequestsOK'
    BY <2>1, <2>2, RequestSent
  <2>4. FormOK'
    BY <1>1, <2>1, <2>2, NothingShown DEF FormOK
  <2>5. LookupsOK' /\ PollsOK' /\ ServerOK'
    BY <1>1, <2>1 DEF LookupsOK, PollsOK, ServerOK
  <2> QED BY <2>3, <2>4, <2>5 DEF InputsInv
<1>3. CASE Process
  <2>1. /\ job.st = "preview" /\ ~busy /\ busy' = TRUE
        /\ peticiones' = peticiones \cup
                         {[id |-> job.id, files |-> NoFiles, made |-> FALSE, visit |-> visit]}
        /\ UNCHANGED <<files, job, stored, visit, restored, lookups, polls, jobs, restarted>>
    BY <1>3 DEF Process
  <2>2. job.id \in 0..Len(jobs) /\ job.id # 0
    BY <1>1, <2>1 DEF FormOK, NoJob, Displays, JobIDs
  <2>3. RequestsOK'
    BY <2>1, <2>2, RequestSent
  <2>4. FormOK'
    BY <1>1, <2>1 DEF FormOK, ShownJobIsTrue, PreviewIsOfTheFiles, OnlyWhatHappened
  <2>5. LookupsOK' /\ PollsOK' /\ ServerOK'
    BY <1>1, <2>1 DEF LookupsOK, PollsOK, ServerOK
  <2> QED BY <2>3, <2>4, <2>5 DEF InputsInv
<1> QED BY <1>2, <1>3

LEMMA PollKeeps == InputsInv /\ Poll => InputsInv'
<1> SUFFICES ASSUME InputsInv, Poll PROVE InputsInv'
  OBVIOUS
<1>1. ServerOK /\ FormOK /\ LookupsOK /\ RequestsOK /\ PollsOK
  BY DEF InputsInv
<1> DEFINE from == StateOf(job.id)
           n == Cardinality(Alike(job.id, from)) + 1
<1>2. /\ job.st = "running" /\ Cardinality(polls) < MaxPolls
      /\ polls' = polls \cup {[id |-> job.id, from |-> from, n |-> n]}
      /\ UNCHANGED <<files, job, busy, stored, visit, restored, lookups, peticiones,
                     jobs, restarted>>
  BY DEF Poll, Polls
<1>3. job.id \in DOMAIN jobs /\ job.id \in JobIDs
  BY <1>1, <1>2, InputsAssumption DEF FormOK, NoJob, Displays, JobIDs, ServerOK
<1>4. from \in JobStates /\ Rank[from] >= 2
  <2>1. "running" \in jobs[job.id].had
    BY <1>1, <1>2, <1>3 DEF FormOK, ShownJobIsTrue, OnlyWhatHappened, JobIDs
  <2>2. from \in JobStates /\ Rank["running"] <= Rank[from]
    BY <1>1, <1>3, <2>1, StateIsLast DEF ServerOK
  <2> QED BY <2>2, RankValues
<1>5. n \in 1..MaxPolls
  <2>1. Alike(job.id, from) \subseteq polls
    BY DEF Alike
  <2>2. /\ Cardinality(Alike(job.id, from)) <= Cardinality(polls)
        /\ Cardinality(Alike(job.id, from)) \in Nat /\ Cardinality(polls) \in Nat
    BY <1>1, <2>1, FS_Subset, FS_CardinalityType DEF PollsOK
  <2> QED BY <1>2, <2>2, InputsAssumption
<1> HIDE DEF from, n
<1>6. PICK p : p = [id |-> job.id, from |-> from, n |-> n]
  OBVIOUS
<1>7. p \in PollsMade /\ p.id = job.id /\ p.from = from
  BY <1>3, <1>4, <1>5, <1>6 DEF PollsMade
<1>8. IsFiniteSet(polls') /\ Cardinality(polls') <= MaxPolls
  <2>1. /\ IsFiniteSet(polls \cup {p})
        /\ Cardinality(polls \cup {p}) = IF p \in polls THEN Cardinality(polls) ELSE Cardinality(polls) + 1
    BY <1>1, FS_AddElement DEF PollsOK
  <2>2. Cardinality(polls) \in Nat
    BY <1>1, FS_CardinalityType DEF PollsOK
  <2> QED BY <1>2, <1>6, <2>1, <2>2, InputsAssumption
<1>9. PollsOK'
  BY <1>1, <1>2, <1>3, <1>4, <1>6, <1>7, <1>8 DEF PollsOK
<1>10. FormOK' /\ LookupsOK' /\ RequestsOK' /\ ServerOK'
  BY <1>1, <1>2 DEF FormOK, ShownJobIsTrue, PreviewIsOfTheFiles, OnlyWhatHappened,
                    LookupsOK, RequestsOK, RequestOK, MadeOf, ServerOK
<1> QED BY <1>9, <1>10 DEF InputsInv

LEMMA LookupKeeps ==
  ASSUME InputsInv, NEW l, LookupAnswered(l) \/ LookupLost(l)
  PROVE  InputsInv'
<1>1. ServerOK /\ FormOK /\ LookupsOK /\ RequestsOK /\ PollsOK
  BY DEF InputsInv
<1>2. /\ l \in lookups /\ lookups' = lookups \ {l}
      /\ UNCHANGED <<files, busy, visit, restored, peticiones, polls, jobs, restarted>>
  BY DEF LookupAnswered, LookupLost
<1>3. Grows
  BY <1>1, <1>2, SameGrows
<1>4. LookupsOK' /\ PollsOK' /\ RequestsOK' /\ ServerOK'
  BY <1>1, <1>2, <1>3, LookupsKeep, PollsKeep DEF RequestsOK, RequestOK, MadeOf, ServerOK
<1>5. FormOK'
  <2>1. busy' \in BOOLEAN /\ restarted' \in BOOLEAN /\ l.id \in DOMAIN jobs
        /\ (l.visit = visit => l.id = restored)
    BY <1>1, <1>2 DEF FormOK, LookupsOK
  <2>2. CASE LookupLost(l)
    <3>1. job' = job /\ stored' \in {stored, 0}
      BY <2>2 DEF LookupLost
    <3>2. stored' \in 0..Len(jobs')
      BY <1>1, <1>3, <3>1, StoredStays
    <3> QED BY <1>1, <1>2, <1>3, <2>1, <3>1, <3>2, FormKeeps
  <2>3. CASE LookupAnswered(l)
    <3>1. PICK s \in Answers(l.id, l.from) :
            /\ job' = IF l.visit = visit THEN JobOf(l.id, s) ELSE job
            /\ stored' = IF s = "lost" THEN 0 ELSE stored
      BY <2>3 DEF LookupAnswered
    <3>2. stored' \in 0..Len(jobs')
      BY <1>1, <1>3, <3>1, StoredStays
    <3>3. job' = job \/ \E id, t : Showable(id, t) /\ job' = [id |-> id, st |-> t]
      <4>1. CASE l.visit # visit
        BY <3>1, <4>1
      <4>2. CASE l.visit = visit
        BY <1>1, <1>2, <2>1, <3>1, <4>2, AnswerShowable
      <4> QED BY <4>1, <4>2
    <3> QED BY <1>1, <1>2, <1>3, <2>1, <3>2, <3>3, FormKeeps
  <2> QED BY <2>2, <2>3
<1> QED BY <1>4, <1>5 DEF InputsInv

LEMMA PollEndKeeps ==
  ASSUME InputsInv, NEW p \in polls, PollAnswered(p) \/ PollLost(p)
  PROVE  InputsInv'
<1>1. ServerOK /\ FormOK /\ LookupsOK /\ RequestsOK /\ PollsOK
  BY DEF InputsInv
<1>2. /\ polls' = polls \ {p}
      /\ UNCHANGED <<files, busy, stored, visit, restored, lookups, peticiones, jobs, restarted>>
  BY DEF PollAnswered, PollLost, PollEnds
<1>3. Grows
  BY <1>1, <1>2, SameGrows
<1>4. LookupsOK' /\ PollsOK' /\ RequestsOK' /\ ServerOK'
  BY <1>1, <1>2, <1>3, PollsKeep DEF LookupsOK, RequestsOK, RequestOK, MadeOf, ServerOK
<1>5. job' = job \/ \E id, t : Showable(id, t) /\ job' = [id |-> id, st |-> t]
  <2>1. CASE PollLost(p)
    BY <2>1 DEF PollLost
  <2>2. CASE PollAnswered(p)
    <3>1. PICK s \in Answers(p.id, p.from) : job' = JobOf(p.id, s)
      BY <2>2 DEF PollAnswered
    <3>2. p.id \in DOMAIN jobs /\ p.from \in JobStates /\ Rank[p.from] >= 2
      BY <1>1 DEF PollsOK, PollsMade
    <3>3. s # "preview"
      <4>1. Rank[s] >= Rank[p.from]
        BY <3>1 DEF Answers
      <4>2. Rank[p.from] \in Nat
        BY <3>2, RankValues
      <4> QED BY <3>2, <4>1, <4>2, RankValues
    <3> QED BY <1>1, <1>2, <3>1, <3>2, <3>3, AnswerShowable
  <2> QED BY <2>1, <2>2
<1>6. FormOK'
  BY <1>1, <1>2, <1>3, <1>5, StoredStays, FormKeeps DEF FormOK
<1> QED BY <1>4, <1>6 DEF InputsInv

\* The server deals with a request, and what it made of it is there.
LEMMA ServedKeeps ==
  ASSUME InputsInv, Grows, NEW p, NEW id, Served(p, id), MadeOf(p, id)'
  PROVE  InputsInv'
<1>1. /\ p \in peticiones
      /\ peticiones' = (peticiones \ {p}) \cup {[p EXCEPT !.made = TRUE, !.id = id]}
      /\ UNCHANGED <<files, job, busy, stored, visit, restored, lookups, polls, restarted>>
  BY DEF Served
<1>2. ServerOK /\ FormOK /\ LookupsOK /\ RequestsOK /\ PollsOK
  BY DEF InputsInv
<1>3. FormOK' /\ LookupsOK' /\ PollsOK' /\ ServerOK'
  BY <1>1, <1>2, StoredStays, FormKeeps, LookupsKeep, PollsKeep DEF FormOK, Grows
<1>4. PICK q : q = [p EXCEPT !.made = TRUE, !.id = id]
  OBVIOUS
<1>5. id \in 1..Len(jobs') /\ id \in 0..MaxJobs
  BY InputsAssumption DEF MadeOf, Grows, ServerOK
<1>6. /\ q \in Peticiones /\ q.id = id /\ q.visit = p.visit /\ q.files = p.files
      /\ RequestOK(p)
  BY <1>1, <1>2, <1>4, <1>5 DEF RequestsOK, RequestOK, Peticiones
<1>7. RequestOK(q)'
  <2>1. MadeOf(q, q.id)'
    BY <1>6 DEF MadeOf, IsPreview
  <2>2. q.id \in 0..Len(jobs') /\ q.id # 0
    BY <1>5, <1>6 DEF Grows, ServerOK
  <2>3. q.visit <= visit' /\ (q.visit = visit' => busy' /\ (IsPreview(q) => q.files = files'))
    BY <1>1, <1>6 DEF RequestOK, IsPreview
  <2> QED BY <1>6, <2>1, <2>2, <2>3 DEF RequestOK, IsPreview
<1>8. ASSUME NEW r \in peticiones PROVE RequestOK(r)'
  <2>1. RequestOK(r)
    BY <1>2 DEF RequestsOK
  <2>2. r.visit = visit => busy'
    BY <1>1, <2>1 DEF RequestOK
  <2> QED BY <1>1, <1>2, <2>1, <2>2, RequestStays
<1>9. \A r \in peticiones' : r = q \/ (r \in peticiones /\ r # p)
  BY <1>1, <1>4
<1>10. RequestsOK'
  <2>1. \A r, t \in peticiones' : r.visit = visit' /\ t.visit = visit' => r = t
    BY <1>1, <1>2, <1>6, <1>9 DEF RequestsOK
  <2> QED BY <1>7, <1>8, <1>9, <2>1 DEF RequestsOK
<1> QED BY <1>3, <1>10 DEF InputsInv

LEMMA PreviewInputsKeeps ==
  ASSUME InputsInv, NEW p, PreviewInputs(p)
  PROVE  InputsInv'
<1>1. ServerOK /\ RequestsOK
  BY DEF InputsInv
<1>2. /\ IsPreview(p) /\ Served(p, Len(jobs) + 1) /\ Len(jobs) < MaxJobs
      /\ jobs' = Append(jobs, [files |-> p.files, had |-> {"preview"}])
  BY DEF PreviewInputs
<1>3. p.files \in Selections
  BY <1>1, <1>2 DEF Served, RequestsOK, RequestOK, Peticiones, IsPreview
<1>4. PICK J : J = [files |-> p.files, had |-> {"preview"}]
  OBVIOUS
<1>5. J \in ServerJobs /\ J.files = p.files /\ J.had = {"preview"}
  BY <1>3, <1>4, RankValues DEF ServerJobs
<1>6. jobs \in Seq(ServerJobs) /\ jobs' = Append(jobs, J)
  BY <1>1, <1>2, <1>4 DEF ServerOK
<1>7. PICK n : n = Len(jobs) + 1
  OBVIOUS
<1>8. /\ jobs' \in Seq(ServerJobs) /\ Len(jobs') = n /\ n \in DOMAIN jobs' /\ jobs'[n] = J
      /\ Len(jobs) <= n /\ n <= MaxJobs
      /\ \A x \in DOMAIN jobs : x \in DOMAIN jobs' /\ jobs'[x] = jobs[x]
  BY <1>2, <1>5, <1>6, <1>7, InputsAssumption
<1>9. Grows
  BY <1>8 DEF Grows, ServerOK
<1>10. MadeOf(p, n)'
  BY <1>2, <1>5, <1>8 DEF MadeOf, IsPreview
<1> QED BY <1>2, <1>7, <1>9, <1>10, ServedKeeps

LEMMA StartInputJobKeeps ==
  ASSUME InputsInv, NEW p, StartInputJob(p)
  PROVE  InputsInv'
<1>1. ~IsPreview(p) /\ Served(p, p.id) /\ Become(p.id, "running")
  BY DEF StartInputJob
<1>2. p.id \in DOMAIN jobs
  BY <1>1 DEF InputsInv, ServerOK, Served, RequestsOK, RequestOK
<1>3. Grows /\ "running" \in jobs'[p.id].had
  BY <1>1, <1>2, BecomeGrows, RankValues DEF InputsInv
<1>4. MadeOf(p, p.id)'
  BY <1>1, <1>2, <1>3 DEF MadeOf, Grows, IsPreview
<1> QED BY <1>1, <1>3, <1>4, ServedKeeps

LEMMA RequestKeeps ==
  ASSUME InputsInv, NEW p \in peticiones,
         PreviewAnswered(p) \/ StartAnswered(p) \/ RequestEndsBadly(p)
  PROVE  InputsInv'
<1>1. ServerOK /\ FormOK /\ LookupsOK /\ RequestsOK /\ PollsOK
  BY DEF InputsInv
<1>2. /\ EndRequest(p)
      /\ UNCHANGED <<files, visit, restored, lookups, polls, jobs, restarted>>
  BY DEF PreviewAnswered, StartAnswered, RequestEndsBadly
<1>3. Grows
  BY <1>1, <1>2, SameGrows
<1>4. /\ p.made => MadeOf(p, p.id)
      /\ p.visit = visit /\ IsPreview(p) => p.files = files
  BY <1>1 DEF RequestsOK, RequestOK
<1>5. SUFFICES /\ stored' \in 0..Len(jobs')
               /\ job' = job \/ \E id, t : Showable(id, t) /\ job' = [id |-> id, st |-> t]
  <2>1. RequestsOK' /\ busy' \in BOOLEAN
    BY <1>2, <1>3, RequestEnds
  <2>2. LookupsOK' /\ PollsOK' /\ ServerOK'
    BY <1>1, <1>2, <1>3, LookupsKeep, PollsKeep DEF Grows
  <2>3. FormOK'
    BY <1>1, <1>2, <1>3, <1>5, <2>1, FormKeeps DEF FormOK
  <2> QED BY <2>1, <2>2, <2>3 DEF InputsInv
<1>6. CASE PreviewAnswered(p)
  <2>1. /\ IsPreview(p) /\ p.made /\ stored' = p.id
        /\ job' = IF p.visit = visit THEN [id |-> p.id, st |-> "preview"] ELSE job
    BY <1>6 DEF PreviewAnswered
  <2>2. p.id \in 0..Len(jobs')
    BY <1>1, <1>2 DEF RequestsOK, RequestOK
  <2>3. p.visit = visit => Showable(p.id, "preview")
    BY <1>2, <1>4, <2>1 DEF Showable, MadeOf
  <2> QED BY <2>1, <2>2, <2>3
<1>7. CASE StartAnswered(p)
  <2>1. /\ ~IsPreview(p) /\ p.made /\ stored' = stored
        /\ job' = IF p.visit = visit THEN [id |-> p.id, st |-> "running"] ELSE job
    BY <1>7 DEF StartAnswered
  <2>2. Showable(p.id, "running")
    BY <1>2, <1>4, <2>1 DEF Showable, MadeOf
  <2> QED BY <1>1, <1>3, <2>1, <2>2, StoredStays
<1>8. CASE RequestEndsBadly(p)
  <2>1. job' = job /\ stored' = stored
    BY <1>8 DEF RequestEndsBadly, AfterFailure
  <2> QED BY <1>1, <1>3, <2>1, StoredStays
<1> QED BY <1>6, <1>7, <1>8

LEMMA RestartGrows == ServerOK /\ BackendRestarts => Grows
<1> SUFFICES ASSUME ServerOK, BackendRestarts PROVE Grows
  OBVIOUS
<1>1. jobs' = [id \in DOMAIN jobs |-> [jobs[id] EXCEPT !.had = @ \cup {"lost"}]]
  BY DEF BackendRestarts
<1>2. \A J \in ServerJobs : LET K == [J EXCEPT !.had = @ \cup {"lost"}]
                            IN  /\ K \in ServerJobs /\ K.files = J.files
                                /\ K.had = J.had \cup {"lost"}
  BY RankValues DEF ServerJobs
<1>3. DOMAIN jobs = 1..Len(jobs) /\ Len(jobs) \in Nat
      /\ \A id \in DOMAIN jobs : jobs[id] \in ServerJobs
  BY DEF ServerOK
<1>4. \A id \in DOMAIN jobs : /\ jobs'[id] \in ServerJobs
                              /\ jobs'[id].files = jobs[id].files
                              /\ jobs'[id].had = jobs[id].had \cup {"lost"}
  BY <1>1, <1>2, <1>3
<1>5. jobs' \in Seq(ServerJobs) /\ Len(jobs') = Len(jobs) /\ DOMAIN jobs' = DOMAIN jobs
  <2>1. jobs' \in [1..Len(jobs) -> ServerJobs]
    BY <1>1, <1>3, <1>4
  <2> QED BY <1>3, <2>1
<1> QED BY <1>3, <1>4, <1>5 DEF ServerOK, Grows

LEMMA InputsInvStep == InputsInv /\ [InputsNext]_inputsVars => InputsInv'
<1> SUFFICES ASSUME InputsInv, [InputsNext]_inputsVars PROVE InputsInv'
  OBVIOUS
<1>1. ServerOK /\ FormOK
  BY DEF InputsInv
<1>2. CASE UNCHANGED inputsVars
  <2>1. UNCHANGED browserVars /\ jobs' = jobs /\ restarted' = restarted
    BY <1>2 DEF inputsVars
  <2> QED BY <1>1, <2>1, SameGrows, ServerStays DEF FormOK
<1>3. CASE BackendRestarts
  <2>1. restarted' \in BOOLEAN /\ UNCHANGED browserVars
    BY <1>3 DEF BackendRestarts
  <2> QED BY <1>1, <1>3, <2>1, RestartGrows, ServerStays
<1>4. ASSUME NEW id \in JobIDs, JobEnds(id) PROVE InputsInv'
  <2>1. /\ id \in DOMAIN jobs /\ (Become(id, "completed") \/ Become(id, "failed"))
        /\ UNCHANGED browserVars /\ restarted' = restarted
    BY <1>4 DEF JobEnds
  <2>2. "completed" \in JobStates /\ "failed" \in JobStates
    BY RankValues
  <2>3. Grows
    BY <1>1, <2>1, <2>2, BecomeGrows
  <2> QED BY <1>1, <2>1, <2>3, ServerStays DEF FormOK
<1> QED BY <1>2, <1>3, <1>4, ReopenKeeps, PreviewKeeps, PollKeeps, FilesKeep, LookupKeeps,
           PreviewInputsKeeps, StartInputJobKeeps, RequestKeeps, PollEndKeeps DEF InputsNext

(* The job that waits to be started is the one of the files that are       *)
(* chosen, or the one found stored, and the page shows no state its job    *)
(* has not had, in whatever order validations, starts and polls are        *)
(* answered and however often the page is opened (app/entradas/page.tsx).  *)
THEOREM ShownJobStaysTrue == InputsSpec => []ShownJobIsTrue
<1>1. InputsSpec => []InputsInv
  BY InputsInvInit, InputsInvStep, PTL DEF InputsSpec
<1>2. InputsInv => ShownJobIsTrue
  BY DEF InputsInv, FormOK
<1> QED BY <1>1, <1>2, PTL

(***************************************************************************)
(* Both pages, one of which rests.                                         *)
(***************************************************************************)
LEMMA CatalogueRestsTyped == CatalogueRests => CatalogueTypeOK
<1> SUFFICES ASSUME CatalogueRests PROVE CatalogueTypeOK
  OBVIOUS
<1>2. /\ query \in Queries /\ asked \in [Requests -> Queries] /\ requestID \in 0..MaxRequests
      /\ call \in [Requests -> {"none", "sent", "read", "done"}]
  BY FirstQueryType DEF CatalogueRests
<1>3. /\ loading = FALSE /\ listError = TRUE /\ shown = 0 /\ totalVuelos = 0
      /\ selectedVuelo = 0 /\ puts = {} /\ arriving = {} /\ changes = 0
      /\ stage = 1 /\ history = {1} /\ departed = FALSE
  BY DEF CatalogueRests
<1>4. /\ 0 \in 0..MaxRequests /\ 0 \in 0..MaxTotal /\ 0 \in 0..LastState
      /\ 0 \in 0..MaxChanges /\ 1 \in 1..(LastState + 1)
  OBVIOUS
<1> QED BY <1>2, <1>3, <1>4 DEF CatalogueTypeOK

(* The types of both pages, with any filters, sizes, flights, requests,    *)
(* choices of files, jobs, polls and visits.                               *)
THEOREM FollowingTypes == FollowingSpec => []TypesOK
<1> DEFINE Inv == CatalogueTypeOK /\ InputsInv
<1>1. FollowingInit => Inv
  BY CatalogueInitType, CatalogueRestsTyped, InputsInvInit DEF FollowingInit
<1>2. Inv /\ [FollowingNext]_followingVars => Inv'
  <2> SUFFICES ASSUME Inv, [FollowingNext]_followingVars PROVE Inv'
    OBVIOUS
  <2>1. [CatalogueNext]_catalogueVars /\ [InputsNext]_inputsVars
    BY DEF FollowingNext, followingVars
  <2> QED BY <2>1, CatalogueNextType, InputsInvStep
<1>3. Inv => TypesOK
  BY InputsInvTypes DEF TypesOK
<1> QED BY <1>1, <1>2, <1>3, PTL DEF FollowingSpec
=============================================================================
