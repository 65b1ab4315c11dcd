--------------------------- MODULE FlightCreation ---------------------------
(***************************************************************************)
(* The dialog "Programar Vuelo" of app/vuelos/page.tsx: a direct flight,   *)
(* or a route with stopovers that is created leg by leg, each leg by a     *)
(* request of its own that waits for the answer of the one before          *)
(* (lines 345 to 474).                                                     *)
(*                                                                         *)
(* The matrix of times the dialog computes with was read by an earlier     *)
(* request; the server computes with its own, which an import replaces.    *)
(* A submission outlives its dialog: leaving the page does not stop the    *)
(* loop.  Times are hours, the server is CreateVuelo of vuelo_handler.go;  *)
(* the message of the dialog (errorVuelo) is left out.                     *)
(***************************************************************************)
EXTENDS Naturals, FiniteSets, SequencesExt

CONSTANTS Cities,
          Matrices,       \* the matrices of times the server has, one after the other
          Hours(_, _, _), \* Hours(m, o, d): the time of matrix m, 0 for no route
          Fares,          \* the pairs of cities some class has a fare for
          Starts,         \* the departures the form may ask for; 0 is in the past
          MaxRoute,       \* bound on the cities of a route
          MaxJobs         \* bound on the submissions

ASSUME CreationAssumption ==
    /\ 1 \in Matrices /\ Matrices \subseteq Nat \ {0}
    /\ \A m \in Matrices, o, d \in Cities : Hours(m, o, d) \in Nat
    /\ Fares \subseteq {p \in Cities \X Cities : p[1] # p[2]}
    /\ Starts \subseteq Nat /\ MaxRoute \in Nat \ {0, 1} /\ MaxJobs \in Nat

VARIABLES showAddModal, creationMode, stopoverRoute, submitting,
          matrix, precios,  \* what the page has read: 0 is no matrix
          serverMatrix,     \* the matrix the server computes with
          job,              \* the submissions, in their order
          programados            \* the flights they created

dialogVars == <<showAddModal, creationMode, stopoverRoute, submitting>>
tableVars == <<matrix, precios>>
creationVars == <<dialogVars, tableVars, serverMatrix, job, programados>>

Layover == 2
Routes == UNION {[1..n -> Cities] : n \in 0..MaxRoute}

\* The type invariant: a submission has its route, the leg it is at, the
\* departure of that leg, how far it is and whether its page still exists.
CreationTypeOK ==
    /\ showAddModal \in BOOLEAN /\ creationMode \in {"direct", "advanced"}
    /\ stopoverRoute \in Routes
    /\ submitting \in BOOLEAN
    /\ matrix \in Matrices \cup {0} /\ precios \in BOOLEAN
    /\ serverMatrix \in Matrices
    /\ Len(job) <= MaxJobs
    /\ \A j \in DOMAIN job :
          /\ job[j].route \in Routes /\ job[j].leg \in 1..(Len(job[j].route) - 1)
          /\ job[j].epoch \in Nat
          /\ job[j].st \in {"sending", "done", "failed"} /\ job[j].mounted \in BOOLEAN
    /\ \A v \in programados : v.job \in DOMAIN job
----------------------------------------------------------------------------
\* validateRoute: without the fares every route passes.
ValidateRoute(o, d) == precios => <<o, d>> \in Fares

\* getValidNextDestinations.
ValidNext(c) ==
    IF matrix = 0 THEN {}
    ELSE {d \in Cities \ {c} : Hours(matrix, c, d) > 0 /\ precios /\ <<c, d>> \in Fares}

LastCity == stopoverRoute[Len(stopoverRoute)]

CreationInit ==
    /\ showAddModal = FALSE /\ creationMode = "direct" /\ stopoverRoute = <<>>
    /\ submitting = FALSE
    /\ matrix = 0 /\ precios = FALSE
    /\ serverMatrix = 1 /\ job = <<>> /\ programados = {}

\* An answer of fetchVuelos brings the tables, each one only when its own
\* answer is a success.
TablesRead ==
    /\ matrix' \in {matrix, serverMatrix}
    /\ precios' \in {precios, TRUE}
    /\ UNCHANGED <<dialogVars, serverMatrix, job, programados>>

\* The input files are replaced.
ImportMatrix ==
    /\ serverMatrix + 1 \in Matrices
    /\ serverMatrix' = serverMatrix + 1
    /\ UNCHANGED <<dialogVars, tableVars, job, programados>>

NuevoVuelo ==
    /\ ~showAddModal
    /\ showAddModal' = TRUE
    /\ stopoverRoute' = <<>> /\ creationMode' = "direct"
    /\ UNCHANGED <<submitting, tableVars, serverMatrix, job, programados>>

\* The two buttons of the mode work during a submission as well.
SetCreationMode(m) ==
    /\ showAddModal
    /\ creationMode' = m /\ stopoverRoute' = <<>>
    /\ UNCHANGED <<showAddModal, submitting, tableVars, serverMatrix, job,
                   programados>>

AddCity(c) == stopoverRoute' = Append(stopoverRoute, c)
RemoveLastStopover == stopoverRoute' = Front(stopoverRoute)

\* The first city, one that is connected to the last, and "Quitar Último".
EditRoute ==
    /\ showAddModal /\ creationMode = "advanced"
    /\ \/ stopoverRoute = <<>> /\ \E c \in Cities : AddCity(c)
       \/ /\ stopoverRoute # <<>> /\ Len(stopoverRoute) < MaxRoute
          /\ \E c \in ValidNext(LastCity) : AddCity(c)
       \/ Len(stopoverRoute) > 1 /\ RemoveLastStopover
    /\ UNCHANGED <<showAddModal, creationMode, submitting, tableVars, serverMatrix,
                   job, programados>>

Cancelar ==
    /\ showAddModal /\ ~submitting
    /\ showAddModal' = FALSE
    /\ UNCHANGED <<creationMode, stopoverRoute, submitting, tableVars, serverMatrix,
                   job, programados>>

\* The page is left and opened again: its loops go on without it.
LeavePage ==
    /\ showAddModal' = FALSE /\ creationMode' = "direct" /\ stopoverRoute' = <<>>
    /\ submitting' = FALSE
    /\ matrix' = 0 /\ precios' = FALSE
    /\ job' = [j \in DOMAIN job |-> [job[j] EXCEPT !.mounted = FALSE]]
    /\ UNCHANGED <<serverMatrix, programados>>
----------------------------------------------------------------------------
\* A new submission sends its first leg.
Submit(route, mode, start) ==
    /\ Len(job) < MaxJobs
    /\ job' = Append(job, [route |-> route, leg |-> 1, epoch |-> start, mode |-> mode,
                           matrix |-> matrix, st |-> "sending", mounted |-> TRUE])
    /\ submitting' = TRUE

Refuse == UNCHANGED <<submitting, job>>

CanSave == showAddModal /\ ~submitting

\* What the two forms may hold when "Guardar Vuelo(s)" is clicked: they may be
\* incomplete, and the direct one offers every pair of cities.
DirectForm == [o : Cities, d : Cities, start : Starts, filled : BOOLEAN]
StopoverForm == [start : Starts, filled : BOOLEAN]

\* "Guardar Vuelo(s)" for a direct flight.
GuardarDirecto(form) ==
    /\ CanSave /\ creationMode = "direct"
    /\ IF form.filled /\ ValidateRoute(form.o, form.d) /\ matrix # 0
         THEN Submit(<<form.o, form.d>>, "direct", form.start)
         ELSE Refuse
    /\ UNCHANGED <<showAddModal, creationMode, stopoverRoute, tableVars, serverMatrix,
                   programados>>

\* "Guardar Vuelo(s)" for a route with stopovers.
GuardarEscalas(form) ==
    /\ CanSave /\ creationMode = "advanced"
    /\ IF form.filled /\ Len(stopoverRoute) >= 2
         THEN Submit(stopoverRoute, "advanced", form.start)
         ELSE Refuse
    /\ UNCHANGED <<showAddModal, creationMode, stopoverRoute, tableVars, serverMatrix,
                   programados>>

\* The time the page gives to the leg a submission is at, with the matrix of
\* the click: two hours when a stopover has none.
TravelHours(j) ==
    LET J == job[j]
        h == IF J.matrix = 0 THEN 0 ELSE Hours(J.matrix, J.route[J.leg], J.route[J.leg + 1])
    IN  IF J.mode = "advanced" /\ h = 0 THEN 2 ELSE h

\* When the leg after the current one departs.
NextDeparture(j) == job[j].epoch + TravelHours(j) + Layover

\* CreateVuelo: in the future, with a duration and a fare.
Accepts(j) ==
    LET from == job[j].route[job[j].leg]
        to == job[j].route[job[j].leg + 1]
    IN  job[j].epoch > 0 /\ Hours(serverMatrix, from, to) > 0 /\ <<from, to>> \in Fares

\* The flight of the leg submission j is at, as the server stores it: the
\* arrival is the server's.
LegFlight(j) ==
    LET J == job[j]
    IN  [job |-> j, leg |-> J.leg, from |-> J.route[J.leg], to |-> J.route[J.leg + 1],
         salida |-> J.epoch, sameMatrix |-> serverMatrix = J.matrix,
         llegada |-> J.epoch + Hours(serverMatrix, J.route[J.leg], J.route[J.leg + 1])]

\* The submission ends; its dialog, when it still exists, closes or says why.
Finish(j, st) ==
    /\ job' = [job EXCEPT ![j].st = st]
    /\ IF job[j].mounted
         THEN /\ submitting' = FALSE
              /\ showAddModal' = (showAddModal /\ st = "failed")
         ELSE UNCHANGED <<submitting, showAddModal>>

\* The loop goes on with the next leg.
NextLeg(j) ==
    /\ job' = [job EXCEPT ![j].leg = @ + 1, ![j].epoch = NextDeparture(j)]
    /\ UNCHANGED <<showAddModal, submitting>>

IsLastLeg(j) == job[j].leg = Len(job[j].route) - 1

LegAnswered(j) ==
    /\ job[j].st = "sending" /\ Accepts(j)
    /\ programados' = programados \cup {LegFlight(j)}
    /\ IF IsLastLeg(j) THEN Finish(j, "done") ELSE NextLeg(j)
    /\ UNCHANGED <<creationMode, stopoverRoute, tableVars, serverMatrix>>

\* A leg the server does not create ends the submission.
AfterRefusal_continue(j) == IF IsLastLeg(j) THEN Finish(j, "done") ELSE NextLeg(j)
AfterRefusal(j) == Finish(j, "failed")

\* The server answers that it did not create the leg, for its own rules or
\* because it could not.
LegRefused(j) ==
    /\ job[j].st = "sending"
    /\ AfterRefusal(j)
    /\ UNCHANGED <<programados, creationMode, stopoverRoute, tableVars, serverMatrix>>

\* The answer is lost after the leg was created.
LegLost(j) ==
    /\ job[j].st = "sending" /\ Accepts(j)
    /\ programados' = programados \cup {LegFlight(j)}
    /\ Finish(j, "failed")
    /\ UNCHANGED <<creationMode, stopoverRoute, tableVars, serverMatrix>>

LegEnds(j) == LegAnswered(j) \/ LegRefused(j) \/ LegLost(j)

CreationNext ==
    \/ TablesRead \/ ImportMatrix \/ NuevoVuelo \/ EditRoute \/ Cancelar \/ LeavePage
    \/ \E m \in {"direct", "advanced"} : SetCreationMode(m)
    \/ \E form \in DirectForm : GuardarDirecto(form)
    \/ \E form \in StopoverForm : GuardarEscalas(form)
    \/ \E j \in DOMAIN job : LegEnds(j)

CreationSpec == CreationInit /\ [][CreationNext]_creationVars
----------------------------------------------------------------------------
(***************************************************************************)
(* Properties.                                                             *)
(***************************************************************************)
Created(j) == {v \in programados : v.job = j}

\* What a submission has created is a beginning of its route, every leg of it
\* once, and the whole route when its dialog says it was saved.
CreatedIsARouteStart ==
    \A j \in DOMAIN job :
        /\ \E k \in 0..(Len(job[j].route) - 1) :
              /\ {<<v.leg, v.from, v.to>> : v \in Created(j)}
                    = {<<i, job[j].route[i], job[j].route[i + 1]>> : i \in 1..k}
              /\ Cardinality(Created(j)) = k
              /\ job[j].st = "done" => k = Len(job[j].route) - 1
        /\ job[j].st = "sending" => Cardinality(Created(j)) = job[j].leg - 1

\* Two hours lie between the legs of a submission, by the arrival the server
\* computed, as long as the matrix was not replaced since the page read it.
LegsHaveALayover ==
    \A v, w \in programados :
        v.job = w.job /\ w.leg = v.leg + 1 /\ v.sameMatrix => w.salida >= v.llegada + Layover

\* The dialog is busy exactly while a submission of this visit runs, and two
\* of one visit never run together.
BusyWhileSending ==
    LET running == {j \in DOMAIN job : job[j].st = "sending" /\ job[j].mounted}
    IN  submitting = (running # {}) /\ Cardinality(running) <= 1

\* So however its requests are answered, a submission creates its route in
\* order, leg by leg, and never beside another one of the same visit.
CreationIsOrderly == CreatedIsARouteStart /\ LegsHaveALayover /\ BusyWhileSending
=============================================================================
