# A verification of the reservation system

The repository is an airline's reservation system: one Go backend (`src/backend`), a
PostgreSQL server for America, one for Europe and Asia, a MongoDB projection for fast
reads, and a Next.js client (`src/frontend`). This directory holds TLA+ models of the
backend and of the client, the TLC configurations that check them on small instances, and
theorems about them that TLAPS proves for instances of every size. Paths below are relative
to `src/backend` or `src/frontend`, as their extension tells, unless they begin with `src/`.

Contents: [the system](#the-system) · [modules](#modules) ·
[correspondence](#how-the-modules-correspond-to-the-code) · [runs](#runs) ·
[fairness](#fairness) · [proofs](#proofs) · [known disagreements](#known-disagreements) ·
[what is not modelled](#what-is-not-modelled) · [how it was built](#how-it-was-built)

To repeat everything: `tlc -config X.cfg MCModule` for a run of the table below, and `tlapm`
on the eight modules that hold theorems.

## The system

`docker-compose` starts one backend process, whose `NODE_ID` is `backend`. Every row of
`vuelos`, `boletos` and `ocupaciones_vuelo` has an *owner*: identifiers below 10^9 belong to
the American server (AM), the others to the European one (EU). A row is written on its owner
together with an event in the owner's `sync_outbox`, in one transaction; outbox workers carry
the event to the three stores later. The concurrency of the server is between goroutines of
the one backend: HTTP handlers, two outbox workers, the refund worker, the periodic copies and
the recovery monitor, and the job that replaces the input files. They meet in the databases'
rows and in a few process-wide variables (the clocks, `InputImportActive`, `inputJobs`).

The client is a page at a time in a browser. Its concurrency is between the user, timers and
requests: a handler runs up to its next `await`, React renders and runs the effects before the
next click, and the answer of a request comes when it comes, after a newer one, under other
controls, or never. A page that was left changes nothing on the screen any more, but its
requests are carried out all the same.

| Component | State it keeps | Operations | Hard behaviour | Correct when |
|---|---|---|---|---|
| Booking and refunds (`handlers/reserva_handler.go`, `services/refund_service.go`, `db/id_allocator.go`) | `boletos`, `id_allocators`, `ocupaciones_vuelo`, `sync_outbox` | `ReservarAsiento`, `CancelarReserva`, `UpdateEstadoBoleto`, `ListAsientos`, `releaseRefunds`, `UpdateEstadoVuelo` | READ COMMITTED transactions of several statements, row locks on the flight and on the ticket but not always on the manifest, a worker whose list is stale | no seat is sold twice or resold early, refunds end, queued events lead to the row |
| Occupancy manifests (`services/occupancy_service.go`, `occupancy_seed.go`) | `ocupaciones_vuelo`, the hash of the matrices | `EnsureFlightOccupancy`, `BuildFlightManifest` | generation races with purchases; rounded targets | no manifest takes the seat of a ticket; targets are met |
| Logical clocks and versions (`services/lamport_service.go`, `vector_service.go`) | the two global clocks, the version in each row | `Tick`, `TickVectorClock`, `UpdateClock`, `UpdateVectorClock`, `ShouldApplyVersion` | two clocks under two locks | replicas agree whatever the order; a causally later version wins |
| Outbox and replication (`services/outbox_service.go`, `sync_service.go`, `quorum_service.go`, `clock_restore.go`, `db/ownership.go`) | `sync_outbox`, the rows of the three stores, the clocks | transactions, `drainOutbox`, `ApplySyncEvent`, `ConfirmTicketReplication`, `RestoreClocks` | retries, overtaking, a lost answer, a crash before the mark, failover | delivered events are everywhere and stay; no write is lost; stores converge |
| Copies of missing rows (`replicate_postgres.go`, `bootstrap_mongo.go`, `recovery.go`) | none of their own | `reconcilePostgresReplicas`, `bootstrapMongo` | a snapshot inserted later than it was read | they never take a newer row back |
| Replacement of the inputs (`input_manager.go`, `prune_mongo.go`, `main.go`) | jobs, files, the gate, everything else | preview, start, run, roll back | two transactions on two servers, files, MongoDB, a crash anywhere, requests under way | stores and files agree at the end; no overlap; the gate opens again |
| Route suggestions, itineraries (`services/sugerencias_service.go`, `tsp_service.go`) | none | `FindTop3Paths`, `CalculateTSPFromMatrices` | absent arcs, equal costs, common beginnings | the answer is the best there is |
| Client: catalogue of flights (`app/vuelos/page.tsx`) | the controls, `requestID`, the list, the selected flight | filters, pages, detail, change of stage | numbered requests that overtake each other, a PUT answered under other controls | the list is the answer to the last question; no stage is skipped; the spinner ends |
| Client: creation of flights (`app/vuelos/page.tsx`) | the dialog, the running submission | two modes, a loop of requests, one a leg | a leg refused or lost half-way, a page that is left, a matrix replaced meanwhile | a beginning of the route, every leg once, layovers kept |
| Client: sale (`app/boletos/page.tsx`) | flight, seat, map, passenger, pass | search, clicks, purchase, refresh | a map shown under another flight, a seat kept from another one, a lost answer and a second try | what is sold has a seat, one ticket and the right passenger |
| Client: ticket desk (`app/gestion-boletos/page.tsx`) | the merged list, the selection, its pass | select, pay, refund, annul, refresh | stale copies, a selection changed while a change is under way, cancelled requests | the pass is the selected ticket's; what is shown as paid was paid |
| Client: file of the pass (`lib/boardingPassPdf.ts`) | the document's style sheets and hidden pages | a download | downloads that overlap on one document | each file has its own ticket, styled; nothing stays behind |
| Client: inputs (`app/entradas/page.tsx`) | files, job, the identifier in `localStorage` | choose, validate, start, poll, reopen | polls that overtake each other, a backend that forgets its jobs | the job shown is that of the files and in a state it had; the wait ends |
| Client: searches (`app/sugerencias/page.tsx`, `app/tsp/page.tsx`) | choices, answer, open tab | search, open a tab | an answer under changed controls, with fewer routes | the answer shown is the last one's and the tab exists |
| Client: panels (`app/page.tsx`, `app/sincronizacion/page.tsx`, `components/FlightMap.tsx`, `QRNetworkInfo.tsx`) | the last reading, the error | a timer and its readings | readings that overtake each other and fail | the last state is shown at last; an error is taken back |
| Flights, fares, read routing, CSV import, seeds, monitors, wallets, other pages, scripts | | | | see [what is not modelled](#what-is-not-modelled) |

How they interact: a handler's transaction (booking) leaves an event (outbox) with a version
(clocks); the workers and the confirmation of a purchase deliver it (replication); the copies
fill in what no event carries; a replacement of the inputs shuts the gate that requests,
outbox workers and periodic copies look at before they begin, and then changes the same rows.
The client calls the handlers over HTTP and reads what the stores have, which may be older
than what its own last call wrote. `PROJECT.json` lists every component with its files, and
every hazard with its line.

## Modules

| Module | What it is |
|---|---|
| `SeatInventory` | abstract specification: a seat is free or belongs to one ticket |
| `SeatBooking` | the booking, refund and manifest code, statement by statement, on the flight's owner |
| `SeatBookingProofs` | its invariants, proved, and that it implements `SeatInventory` |
| `Occupancy` | targets and choice of the manifest's seats |
| `Versions`, `VersionsProofs` | the order of versions (`ShouldApplyVersion`); proofs |
| `VersionExchange` | several backends that tick, merge and exchange versions (extends `Versions`) |
| `Replication`, `ReplicationProofs` | outbox, delivery, confirmation, copies, failures and restarts; proofs |
| `InputImport`, `InputImportProofs` | the replacement of the input files and of all data |
| `RouteSuggestions`, `Itinerary` | Yen's and Held and Karp's algorithms as the code has them |
| `DomainRulesProofs` | proofs about `Occupancy`, `RouteSuggestions` and `Itinerary` |
| `FlightCatalogue` | client: the list of flights and the changes of stage |
| `FlightCreation` | client: direct flights and routes with stopovers |
| `SeatSale` | client: the sale, against other clients of the server |
| `TicketDesk`, `TicketDeskProofs` | client: the management of tickets; proofs |
| `PassDownload` | client: the file of a boarding pass |
| `InputsPage` | client: the page of the input files, with the jobs of the server |
| `SearchPages` | client: the two searches |
| `PolledPanels` | client: the panels that refresh themselves |
| `WebFollowingProofs` | proofs about `FlightCatalogue` and `InputsPage` |
| `WebSellingProofs` | proofs about `FlightCreation`, `SeatSale`, `PassDownload` and `SearchPages` |
| `MC*` | instances for TLC |

How they are composed. `SeatBooking` is checked and proved against `SeatInventory` by
refinement. What `SeatBooking` assumes of a manifest (`ManifestAssumption`: it fills eligible
seats without a ticket) is the theorem `ManifestIsFree` about `Occupancy`. `Replication`
compares counters where the code compares pairs of clocks; the theorem
`OneNodeComparesCounters` about `Versions` says when that is the same: with one node, which
is what is deployed. `VersionExchange` keeps the general order under test. The modules of the
client each have the part of the server they talk to: `TicketDesk` the transitions of
`UpdateEstadoBoleto` and the refund worker, `SeatSale` a booking in one step (which
`HandlersImplementInventory` justifies), `InputsPage` the jobs `InputImport` has in detail,
`FlightCreation` the computation of `CreateVuelo`.

Instances with several parts. Five MC modules put together modules that do not interact, so that
one run can check them: `MCDomainRules`, `MCReplicationVersions`, `MCReplicationPanels`,
`MCWebFollowing` and `MCWebSelling`. A variable (`rule`, `part`, `page`) says which part a
behaviour is of; that part moves from any of its initial states and the others rest. The set of
behaviours is the disjoint union of those of the parts, and a property of one part means
what it means alone. They share no state: not a reduction of interleavings that could
matter, but separate pages of a browser, separate algorithms, or separate backends.

In every module a definition whose name ends in an underscore and a word (`FlightFree_noLock`,
`Due_early`) is a plausible mistake in the definition it stands before. Nothing uses it:
putting it in place of that definition must break the property `PROJECT.json` names with it,
which shows that the property depends on the code.

## How the modules correspond to the code

`PROJECT.json` gives the lines of every definition. The decisions behind them:

**`SeatBooking`**. `proc[p]` is the transaction a goroutine is in: `pc` is the statement it is
at, `row` and `id` what it will write, `view` the manifest it holds in memory, `wrote` whether
it has written that manifest. Reads see what is committed at their own moment (PostgreSQL's
READ COMMITTED), writes become visible with the commit, locks are read off the records. A
booking locks the flight (`reserva_handler.go:132`), calls `EnsureFlightOccupancy` (`EnsureRead`,
`EnsureBuild`, `EnsureWrite`), checks the seat, takes an identifier, inserts and queues its
events. `ListAsientos` and `seedMissingOccupancy` run the same generation without the lock on
the flight. `CancelarReserva`, `UpdateEstadoBoleto` and `ReleaseRefund` lock the ticket's row,
decide, and save with the event. `Rollback` is any failing statement, `Restart` loses every
transaction and the refund worker's list, and may bring the next `matrices.json`. Names,
prices, histories, seat classes and the versions of the rows are left out.

**`Occupancy`**. One transaction after the other; `Arrange` is the seeded shuffle, of which
nothing is used but that it is a permutation. `Share` is the rounding of `OccupancyTargets` in
integers; that `math.Round` of the floating-point product gives the same number was compared
for all capacities up to 20 000.

**`Versions`, `VersionExchange`**. A version is a vector, a Lamport value and a node. `Tick` and
`TickVectorClock` are two steps because each clock has its own lock, and so are `UpdateClock` and
`UpdateVectorClock`: a write may tick one clock before and the other after a merge.

**`Replication`**. The content of a row is the set of the writes it contains, so that a lost
write is a set that lacks it. `Begin` reads the row under its lock and ticks, `Commit` saves it
with its event. A delivery visits AM, EU and MongoDB in turn and at each first reads the
version (`ReadStore`) and then saves the row (`SaveStore`), in two steps because the code holds
no lock between them; `SaveUnanswered` is a save whose answer is lost. `Claim` and `Mark` are
`drainOutbox`, `LeaseExpires` the end of `locked_until`, `Answer` the second half of
`ConfirmTicketReplication`, `CopyRead` and `CopyInsert` the snapshot copies, `RestoredClock` is
`RestoreClocks`. A store that is down keeps its rows and undoes its transactions.

**`InputImport`**. `im[j]` is the goroutine of job j: a step per statement group of
`runInputJob`, its deferred functions (`Undo`, `OpenGate`, `EndJob`, in the order `After` gives), and the
variables those functions test (`replacedFiles`, `committing`). `Undo` writes one file after the other back; the code
ignores the errors of both writes, so either may be left as it is, and `unrestored` remembers which for the properties
(a file that is half written is not modelled). A preview looks whether a job runs, copies the two files and
registers the job in three steps (`BeginPreview`, `PreviewInputs`), with anything between them. `Restart` brings each server what
the files in use have and it lacks, or not: a server that is down is passed over (`main.go:67`), an error is
only logged (`data/seed_flights.go:62`), and the identifier of a flight is its row's number (`:263`), so that the rows of a new
file may meet those of the old one and be left out (some or all of them: a server has the flights of some files or has not). Flights are known by the files
they came from, so that "the stores agree with the files" can be said; one ticket stands for
the tickets of before. `Arrive` is the gate's test in the middleware, `LockTicket` and
`CommitTicket` a change of the ticket, `Claim`, `Apply`, `MarkDelivered` the outbox worker, and
`PruneRead`, `PruneDelete` the clean-up that `main` starts.

**`RouteSuggestions`**, **`Itinerary`**. Dijkstra's visits are steps, since Go's map order makes
their choice free among equals. The code also skips a candidate that is in `B`; as `B` is a set
here, that is the same. The dynamic programme is a recursive function of the set of cities, and the
way back over `prev` one of the places passed. `Infinity` and `NoWay` are `math.Inf(1)`: the
assumptions make them more than a route over all airports, and one of `MaxCities` legs, costs. Fares and times are naturals, so that the rounding of sums of
floating-point numbers is left out.

**The client.** An action is one handler up to its next `await`, with the render and the effects
React flushes after it, or one answer with what follows it. A list is the number of the request it
answers; a ticket's copies are the states it has had, of which a list may show any. What a
document, a browser or React does is modelled from how the code uses it.

- `FlightCatalogue`: `query` is what the controls say, `call[i]` how far the answer of request i
  has come (the list and the tables are two `await`s), `IsCurrent` the test of `thisRequest`
  (`app/vuelos/page.tsx:43`); `puts` are the changes of stage on their way, each with the query of
  the render it was clicked in, and `arriving` those of them the server has not come to (`ServerHandles`), in any order
  and whether or not the page waits. Of the flights, one is followed by the set of the stages it had.
- `FlightCreation`: `job` is a submission (it outlives its dialog), `programados` what `CreateVuelo`
  made of it. The page computes the next departure with the matrix it has read, the server the
  arrival with its own, which `ImportMatrix` replaces. Times are hours.
- `SeatSale`: `load` are the maps on their way, with the flight they were asked for; `compra` is the
  purchase, with flight and seat of the click. Nothing ties a map to the selection, and the module
  does not pretend otherwise: `ShowMap` lays any map under any flight.
- `TicketDesk`: `pedido` are the passes on their way, `vivo` while the effect that asked was not
  cleaned up; `op` is the one change or export that `updating` admits, with the ticket it captured. What `fetchData` selects
  (`:57`) is left out of `RefetchEnds`: React 18 renders once for the updates up to line 105, and those of 104 and 105 prevail.
- `PassDownload`: `styleTags` and `divs` are what the downloads have added to the document, in order;
  a download finds its page by reference and the style sheet by the identifier they all share.
- `InputsPage`: `peticiones`, `lookups` and `polls` are the requests on their way; polls are numbered, since
  two of one job may be under way. A validation or a start is made by the server (`PreviewInputs`, `StartInputJob`) in a step before
  its answer, so that a job may have ended when the page shows it as running. `jobs[id].had` the states a job has had, `stored` is `localStorage`, `BackendRestarts` forgets.
- `SearchPages`, `PolledPanels`: one module for pages that have the same shape; which page or panel it
  is decides what differs (an error that is shown, details that may be missing).

## Runs

All passing runs check exactly the properties listed; the last column says what is bounded and why
that is enough. A name in parentheses is a part of the property before it.

| Run | Shows | Bounds, and why they are enough |
|---|---|---|
| `booking_safety` | `OneTicketPerSeat`, `CheckedSeatStaysFree`, `ManifestKeepsPurchases`, `OutboxLeadsToRow`, `ResoldOnlyAfterRefundWindow`, `ImplementsInventory` | 2 sessions, refund worker, 3 seats of which the manifest fills one, 2 identifiers, 2 instants: two sessions contend for one seat or hold two; one seat is bought, refunded, released and bought again; a manifest is written by one while the other reads. The theorems have no bounds. |
| `booking_liveness` | `RefundsAreReleased`, `RequestsEnd` | 2 sessions, 2 seats, 1 identifier, 1 restart, the flight departs: a refund due before, at and after the restart; both sessions wait for the manifest's row |
| `booking_newmatrix` | violates `ManifestKeepsPurchases` | 2 matrices, 1 restart; see below |
| `domain_rules` | `ManifestTakesFreeSeats`, `ManifestsMeetTheTargets`, `SuggestsTheBest`, `AnswersABestTour` | 5 seats with shares of 50 % and 30 % (with 73 % and 3 % no plane of five seats has a reserved one: these make both targets and both caps matter); every network on the 7 useful arcs of 4 airports with 3 kinds of arcs (cheap and slow, dear and fast, none), both criteria, 3 routes, so that the 5 loopless routes share beginnings, tie and are missing; every subset of the 12 arcs of 4 cities, 5 requests of which one repeats a city, both criteria, open and closed |
| `replication_safety` | `DeliveredIsEverywhere`, `NoWriteIsLost`, `WritesAdvanceTheClock`; `StoresAgree`, `SavesSupersede` | 1 row, 2 handlers, 1 copier, 3 ticks, 2 failures of EU or MongoDB, 1 restart: three versions, one delivered, one retried, one overtaking (rows influence each other only through the clock; the theorems are about any number). For the versions: 2 nodes, Lamport clocks up to 4 |
| `replication_liveness` | `TypesOK`, `ConfirmedHasTwoCopies`, `EventsAreDelivered`, `StoresConverge`; `PanelsRecover` (`PanelConverges`, `FailureIsTakenBack`) | 1 purchase, 1 handler, 1 copier, 2 ticks, 2 failures, 1 restart: both other stores can be down at the confirmation, with a retry and a later event. For the panels: 2 readings on their way, 3 states of the server, all four panels |
| `replication_stalecopy` | violates `DeliveredIsEverywhere` | 1 purchase, 2 handlers, no failure; see below |
| `import_safety` | `TypeOK`, `OneReplacementAtATime`, `CompletedIsConsistent`, `FailureKeepsTheFiles`, `GateStaysShut` | 2 jobs, 2 restarts, any step but the first commit may fail, either file may not be put back, a start may bring either server nothing: a job finds what another, failed or killed at any step, left, and one ends while the other begins |
| `import_tickets` | `LockedTicketStays`, `ReplacementsEnd` (`JobsEnd`, `GateReopens`) | 1 job, 1 request, 1 worker without a gate, 1 restart, all steps may fail: the change of the ticket before, within and after every step |
| `web_following` | `TypesOK`, `ListIsCurrent` (`ShownIsLatest`, `ControlsAskForTheirList`), `ShownJobIsTrue` (`PreviewIsOfTheFiles`, `OnlyWhatHappened`), `StagesInOrder`, `WaitingEnds` (`LoadingEnds`, `ProgressEnds`) | 2 filters, 2 page sizes, 2 flights, 3 requests, 2 changes, 3 stages: three requests are enough for one to be overtaken by both others, and two changes for one to overtake the other and for a dialog to act on a copy the other has made old. 2 selections of files, 2 jobs, 2 polls on their way, 2 visits |
| `web_filters` | violates `ShownAnswersTheFilters` | the same with 4 requests and 1 change; see below |
| `web_selling` | `TypesOK`, `CreationIsOrderly` (`CreatedIsARouteStart`, `LegsHaveALayover`, `BusyWhileSending`), `SalesAreRight` (`TicketsAreSellable`, `TheirDataIsNotSold`, `PassIsOfAPurchase`), `DeskShowsTheTruth` (`PassIsOfTheSelection`, `ShownAsPaidWasPaid`), `DownloadsKeepApart` (`NothingIsLeft`, `FileIsOfItsTicket`, `FilesAreStyled`), `LastSearchIsShown` | routes of up to 3 cities, 2 submissions, 2 matrices; 2 flights with different seats, 2 tickets, a map on its way while the flight changes; 2 tickets of the desk with 1 list on its way; 3 downloads of 2 tickets, so that one starts between the end of another and the end of a third; 3 searches of up to 3 routes |

The compound properties belong to one page each and are conjunctions of named parts, stated and
commented separately in their modules: what a page shows, sells or leaves behind is right only if all hold.
`LegsHaveALayover` has the condition that the matrix was not replaced since the page read it, and
`FilesAreStyled` that every download of the document was given a pass; without them they fail, and the
comments beside them say by which lines. `StagesInOrder` says that a flight skips no stage: the server accepts any
(`handlers/vuelo_handler.go:384`), so that this rests on the dialog, which closes with its click and asks for the stage after one the flight
has had. It does not say that a flight never goes back: a dialog opened before another's change, or a call that is overtaken,
does take it back to a stage it had. `GateStaysShut` excuses the second opening of a completed job (item 6 below) and
nothing else.

Deadlock is checked in the booking runs. Elsewhere the system may stop and `CHECK_DEADLOCK FALSE` says so:
`Replication` is quiescent once its ticks are used up and everything is delivered, the import's runs end when
all jobs did, the algorithms terminate, and a page rests once the bounded number of its requests is used up.

Symmetry (of the sessions, of the handlers) is used only in runs without liveness.

**Where a bound or a restriction is also a condition.** Some properties hold only under a
condition that the configuration expresses; outside it they fail, and the failure is listed
under [known disagreements](#known-disagreements):
`ManifestKeepsPurchases` needs one matrix (`MaxMatrix = 1`); `DeliveredIsEverywhere` and the
convergence need that no second goroutine delivers another version of the row
(`Tickets = {}` or one handler); `NoWriteIsLost` and `WritesAdvanceTheClock` need that
the owner does not fail (`Fallible = {"EU", "Mongo"}`); `FailureKeepsTheFiles` that the first commit does not, and it
excuses a file whose writing back failed.

**Three backends.** `StoresAgree` holds of two nodes and fails of three: three versions can each
replace the next one around a circle, since the two clocks tick at different moments and the
Lamport order only decides between concurrent vectors. `AcceptanceIsTransitive` proves that
this takes a difference between the two orders. The repository deploys one backend, so this
is a limit of the design and not a fault of the deployment.

## Fairness

- `SeatBooking`: weak fairness of each statement of a transaction, since the goroutine runs
  it when it can; strong fairness of the steps that wait for a contended row (`EnsureWrite`,
  `ReleaseRefund`, `ScanRefunds`), because PostgreSQL serves the waiters of a row in turn;
  strong fairness of the refund worker's save, since a transaction that failed is tried again at
  every tick and does not fail for ever. Time advances. No client is made to call and the
  backend never has to restart.
- `Replication`: a store that went down comes back (the design covers "la caída individual y
  posterior recuperación de un servicio", `src/docs/implementacion-final.md:31`), outbox workers run
  (their loops never end), leases expire, handlers' transactions end. Handlers
  are not obliged to finish a confirmation, copiers to run or the backend to restart.
- `InputImport`: the job's goroutine runs, a transaction it waits for ends, and its deletion
  gets the rows it waits for although writers keep coming (strong fairness of `ClearRows`).
- `FlightCatalogue`: each request is answered or fails, as the browser and the proxy give up at last.
- `InputsPage`: a running job ends, the interval of the page fires, of the polls on their way some ends;
  and of polls made again and again some is answered (strong), since the server's handler only reads a map.
  No user acts and nothing need restart.
- `PolledPanels`: the timer fires, every reading ends, and of readings made again and again some is
  answered (strong): the claim is about what happens once the server is there again.

## Proofs

Eight modules hold theorems; nothing is assumed beyond the named assumptions on the constants and the
conditions that the statements spell out.

`SeatBookingProofs`. `TypeCorrect` first. No property of the booking is inductive: that two
tickets never share a seat depends on the flight's lock, which is a fact about the processes
and not about the rows. `IInv` adds what the code relies on: every stored ticket has a seat
(`RowsOK`), a booking works on a new ticket (`BookingsOK`), at most one transaction holds the
flight (`FlightLocked`), the seat of a booking that is about to insert is free (`InsertsOK`), a
transaction about to save holds the ticket's lock and writes the next state of what is
stored (`SavesOK`, `BoletosLocked`), and the refund worker books nothing (`RefunderOK`).
`NextIInv` has a step for each action. From it follow `NoDoubleSale`,
`LockProtectsTheCheck`, `OutboxTellsTheRows` (the events' ranks only grow) and `NoEarlyResale`.
`ManifestIsKept` needs a second invariant about the manifests in memory (`ManifestInv`: before
the first manifest no seat is sold, one transaction writes it, and a booking that checks its seat
looks at the committed manifest or at the one it writes itself) and the assumption `MaxMatrix = 1`; without it the property is false.
The refinement is `HandlersImplementInventory`: under the mapping `seatBar` (a seat is what
its one active ticket says) and `grantedBar` (the identifiers in use), an insert is a `Grant`, a save
is a `Pay`, `Refund` or `Release`, and every other step a stutter. `IInv` is what makes
the holder of a seat unique, and so the mapping a function of it.

`ReplicationProofs`, for any number of rows, handlers, copiers, failures and restarts.
- `TypeCorrect` needs `TInv`: a goroutine works on a row or an event there is, and the events of any set of
  servers have a latest version (`LatestExists`), which is what `RestoreClocks` finds.
- `ClocksAdvance` and `WritesAreKept` follow from `IInv`, under the condition `OwnersStayUp` (the owner of no
  row fails; everything else may): only the owner writes a row, every event has exactly the writes of its row up
  to its own and a later clock than the events before it (`EventsOK`), the owner's row has all of them
  (`OwnerRowsOK`), what any other store or a copier holds is what some event says (`RowsOK`, `CopiesOK`), a
  transaction works on the owner's present row alone (`WritersOK`), and no delivery overwrites the owner
  (`SavesOK`). Without the condition both are false (items 3 and 4 below).
- `DeliveredStays` follows from `DInv`, under `OwnersStayUp` and `Tickets = {}` (no handler delivers beside the
  outbox worker): where a delivery has been without a failure its write is there (`PassedHaveIt`), and what a
  worker is about to save has every delivered write of the row (`SavesKnowDelivered`), because of two events of one
  row the later clock has the writes of the earlier (`WritesAreOrdered`). Without `Tickets = {}` it is false
  (item 2).
- `ConfirmedStays` follows from `CInv`, under `OwnersStayUp`: what is confirmed is the first event of its ticket
  (`IsCreation`), and a store besides the owner has the ticket (`HasCopy`). Which of its versions a store has does not
  matter, because every later write of the row contains the creation: that is `IInv` again. Overtaking deliveries
  and late copies are allowed here, as is any failure of the other stores.
- `BothTypes` is the types of `replication_liveness`, those of the panels included.

`InputImportProofs`, for any number of jobs, writers, changes of the ticket and restarts.
- `ImportTypeCorrect` needs `WritersInv` (one transaction at a time changes the ticket, and not beyond the bound).
- `ReplacementsExclude`: by `JobsInv` only the job for which `running` was set has a goroutine at work. One that is
  only at its last deferred call, which comes after `running` is reset, no longer counts as at work.
- `TicketsStayLocked`: by `TicketInv` no transaction has the ticket from the deletion of the rows to the commit.
- `FailuresKeepTheFiles`, where the American commit does not fail (`"am" \notin Fallible`; else it is false, item 9):
  `FilesInv` says, at each statement, what `replacedFiles` and `committing` tell of the files in use and of those read
  at the beginning. Nothing is said of where the data came from before: earlier failures and restarts may have left any.
- `GateIsKeptShut`: by `GateInv` a job that has failed opens the gate before it lets the next one start, and one that
  is still to open it a second time has completed.
- `CompletionIsConsistent`, where no clean-up runs (`~PrunesAtBoot`, item 10): `StoresInv` says which stores every
  commit and check that is past vouches for. The copy to MongoDB that goes on beside it (`BootstrapMongo`)
  keeps this, because it adds to a store only what the others have.

`WebFollowingProofs`, for any number of requests, flights, filters, jobs, visits and changes.
- The list of flights. `RequestsInv`: the spinner has stopped only if the last request is over, and when the last
  request is over its list is shown or its failure is; from it `ShownIsLatestCorrect`. `ControlsInv`: until a stage
  is changed, the last request is that of the controls; from it `ControlsCorrect`, and both give
  `ListIsCurrentCorrect`. `StagesInv`: a change the server has not come to carries the successor of a stage the flight has
  had; from it `StagesCorrect`, for any number of changes under way.
- The input files. No request of the page has a number, and answers come in any order, so that what is displayed
  is right only because of what each request has captured. `ShownJobStaysTrue` follows from `InputsInv`: a validation of this
  visit is of the files that are chosen, and the page is busy with it alone (`RequestsOK`); a lookup of this visit is
  for the job found at its start (`LookupsOK`); a poll was sent when its job ran, so that a late answer never brings a
  job back to the state in which it waits to be started (`PollsOK`).
- `FollowingTypes` puts the types of both pages together.

`TicketDeskProofs`, for any tickets and any number of passes on their way. `PassInv`: a request for a pass that
was not cancelled is for the selected ticket, shown as paid; from it `PassCorrect`. `ConfirmedInv`: the change
that will select its ticket as paid was confirmed by the owner; from it `ShownCorrect`, and both give
`DeskShowsCorrect`.

`WebSellingProofs`, for routes of any length, any planes, tickets, submissions, downloads and searches.
- `SearchesAreShown`, from `SearchInv`: the answers have no number in the code, but while a search is on its way the
  button is off, so that there is one at most, the last, and until it ends nothing is shown and the first tab is open.
- `SalesStayRight`, from `SaleInv`. No lock and no number ties the map to the flight, so the invariant holds on to what
  does not depend on them: the server admits only seats of the flight's plane that no active ticket has
  (`TicketsInv`), a purchase has the flight, the seat and the passenger of its click, and a boarding pass comes of a ticket it was
  sold (`PurchaseInv`), and the form has another client's passenger only while no free seat is selected (`FormInv`).
- `CreationStaysOrderly`, from `CreationInv`: what a submission has created are the legs before the one it is at, and
  that one too when its answer was lost (`StartedOK`); the leg departs two hours after the one before arrives
  (`LayoverOK`); of this visit one submission runs at most (`BusyOK`). That a leg is created once is a statement about
  a cardinality, proved for routes of every length.
- `DownloadsStayApart`, from `DownloadInv`: hidden pages and downloads at work are in bijection (`PagesInv`), there are
  never more style sheets than downloads at work, and as many unless one was refused its pass (`StylesInv`): a file
  is styled because its own download's sheet is counted, although it may be another one's that is there.
- `SellingTypes` puts the types of the five pages together.

`DomainRulesProofs`. `TargetsFit`: with 73 % and 3 % the targets fit every capacity, the cap never
bites and each target is the nearest whole number. `ManifestIsFree`: the manifest fills
eligible seats without a ticket, none twice, for every shuffle. `ManifestsLeaveTicketsAlone`
is the invariant that follows. `TargetsAreAlwaysMet` is the action property: the shuffle being a permutation, a
stretch of it has as many seats as places (`StretchSize`), so that a manifest has exactly the seats it needs
(`ManifestSize`), for all shares. `ItinerariesAreBest`: the itineraries are right for every list of
cities and all matrices. The tables exist, since an entry looks only at smaller masks (`TablesExist`,
`EntryLooksBelow`). No entry is more than a way to it costs (`Extends`, `WayCosts`), so that no tour
is cheaper than the best that is found (`TourCosts`). An entry that is not infinite is reached from the place in
`prev` at exactly that cost (`ComesFrom`); the way back over `prev` passes every place once, because its masks shrink
(`WayBackIsWay`, `BackShrinks`), and its legs add up to the best cost (`IndicesCost`). Induction is over a set
of numbers with 0 and the successor of each of its members (`SetInduction`, from the well-foundedness of <).

`SuggestionsAreBest`, in the same module: Yen's algorithm over Dijkstra's search finds the K best loopless routes,
for all airports, matrices and K. `YenInv` has two parts.
- The tables of the search under way (`SearchOK`): a node that was reached was reached over an arc that is left, from
  one that was visited, at the cost noted; over the arcs left, a visited node reaches no node more cheaply than noted;
  and no visited node is farther than one to come. A visit keeps this (`VisitKeeps`). So the way back over `prev`
  reaches the spur node, because the distances fall (`SearchPath`), and no route that goes on from the same root over
  arcs that are left is cheaper (`SearchLower`).
- The lists (`YenOK`). A route that is not in `A` yet goes along with routes of `A` up to some place and leaves them there
  (`Deepest`). Either a candidate leaves them at the same place and costs no more, or the last route of `A` goes that
  far too and its spur there is still to be searched (`Covers`). This is why the spurs of the last route alone are enough,
  although the code removes the arcs of all of `A`: the earlier ones have left their candidates in `B`. A spur search
  moves the boundary by one (`SpurSearch`), the cheapest candidate is the next best of all routes (`NextBest`), and
  without a candidate none is left (`NoCandidate`). Ties are free: whichever is taken first, it holds.

`VersionsProofs`. `VersionsNeverSwap` (two versions do not replace each other), `CausalOrderIsPreserved`,
`AcceptanceIsTransitive` where the two orders agree, and `OneNodeComparesCounters`. About the backends that exchange
versions: `SavesAlwaysSupersede`, for any number of them, and `TwoStoresAgree`, for two. `ClocksInv` says that a
backend's vector is past all it has merged and that a tick it has not used is later than its versions; `KeptInv`,
which is the one that needs two nodes, that the version a store keeps replaces all others it has seen.

Only model-checked:
- all liveness and what needs ENABLED (`RefundsAreReleased`, `RequestsEnd`, `EventsAreDelivered`, `StoresConverge`,
  `PanelsRecover`, `ReplacementsEnd`, `WaitingEnds`), out of the prover's reach.

Every other property of a passing run is a theorem, under the conditions named above.

## Known disagreements

Each is a behaviour of the code that a document, a comment or a text of the repository excludes. The first three
are runs; for the others the property is in the module named and the values of the constants that show it are given.

1. `booking_newmatrix`. After a change of matrix, a manifest is regenerated outside the flight's lock
   (`occupancy_seed.go:49`, `ListAsientos`). It is built from the tickets read before and saved over the
   row, so that a seat bought in between is also a seeded passenger's. "Los manifiestos se regeneran al
   detectar un cambio de matriz y conservan las compras activas" (`src/docs/implementacion-final.md:49`).
2. `replication_stalecopy`. `sync_service.go` compares versions (129) and saves (137) in separate statements
   without a lock, and the confirmation of a purchase delivers beside the outbox worker: an older version
   can replace a newer one. "ShouldApplyVersion preserves causal order" (`services/vector_service.go:92`).
3. `web_filters`. A change of stage fetches the list with the filters of the render its button was clicked in
   (`app/vuelos/page.tsx:103`), and as the latest request: when the filters were changed while the server
   answered, the list of the old ones replaces that of the new ones and stays. The list is headed "Resultado de
   los filtros actuales." (`app/vuelos/page.tsx:587`).
4. `Replication`, `NoWriteIsLost` with two handlers, no copier, `Fallible = {"AM"}`, one failure, no restart. The
   backup writes an owner's row from its own copy, without the events the owner has not delivered
   (`db/ownership.go:19`). "Este diseño cubre la caída individual y posterior recuperación de un servicio"
   (`src/docs/implementacion-final.md:31`).
5. `Replication`, `WritesAdvanceTheClock` with the same and one restart. `RestoreClocks` skips a server it cannot
   read and is not run again (`services/clock_restore.go:19`). "RestoreClocks carries logical time across process
   restarts" (line 11).
6. `InputImport`, `GateClosedWhileReplacing` with two jobs, no sessions or workers, no clean-up, all steps fallible,
   no event and no restart. The gate is opened at the end of a job and again by its deferred call
   (`input_manager.go:507`, `389`), perhaps after the next job closed it. "InputImportActive pauses background
   reconciliation while a full input reset runs" (`services/import_state.go:5`).
7. `InputImport`, `NothingOldSurvives` with one job, one session and one event. `sync_outbox` is emptied before the
   tickets are waited for (`input_manager.go:329`): the event of a change under way brings the old ticket back. The
   replacement "borra todos los vuelos, boletos y reservas anteriores" (`src/docs/gestion-datos-entrada.md:15`).
8. `InputImport`, `OnlyUploadedFilesChange` with the values of 6. The files that were not uploaded are copied at the
   preview (`input_manager.go:110`) and installed at the start, after another job may have changed them.
   "Los demás se conservan" (`src/docs/gestion-datos-entrada.md:11`).
9. `InputImport`, `FailureKeepsTheFiles` with one job and all steps fallible. `committing` is set before the first
   commit (`input_manager.go:459`): if it fails the new files stay over the old data. "una falla antes de confirmar
   conserve los datos anteriores" (`src/docs/gestion-datos-entrada.md:15`).
10. `InputImport`, `PruneRemovesOrphans` with one job, `PrunesAtBoot` and one restart. The clean-up runs beside the
    server (`main.go:87`) and removes flights imported after it read the identifiers. "pruneMongoOrphans runs before
    the HTTP server accepts requests" (`prune_mongo.go:12`).
11. `InputImport`, `FailureKeepsTheFiles` without its exception for `unrestored`. The two writes that put the files back
    after a failure are made without a look at their errors (`input_manager.go:413`): the new matrices may stay with the old
    dataset, and both with the old data. The document is that of item 9.
12. `InputImport`, `Restart`. The flights of new files are not always added at a start, as their identifiers are row numbers
    (`data/seed_flights.go:263`) that the old ones may have. "el importador agrega filas nuevas sin borrar vuelos que puedan tener
    boletos" (`src/docs/implementacion-final.md:49`).

## What is not modelled

Of the backend:
- `Replication` has no `DELETE` events, because no code queues one, and one row per key without
  `unique_active_seat`: two tickets of one seat, sold by owner and backup, and their events that every
  replica refuses (`services/sync_service.go:137`), would need bookings and deliveries in one module, whose
  instances are too large for TLC.
- The versions of manifests, whose clocks are ticked before their row is waited for
  (`services/occupancy_service.go:165`): `SeatBooking` has no versions, and `Replication` ticks under the
  lock as all other writers do.
- `InputImport` has no copiers under way, no purchases during a replacement and no failover to EU: each
  multiplies the states of the job, and the gate keeps the first two apart but for what item 6 shows.
- The recovery monitor's edges and the migrations run once per edge and only add what is missing; the read
  router chooses a server by region and availability and keeps nothing.
- The CSV import as such is a step of the replacement: parsing, continuity and rejection reports transform data row by
  row and share no state with anything that runs.
- The synchronisation monitor and the dashboards only read; wallets and passes format and sign one
  ticket; seeds and the airport catalogue insert fixed rows once; routes are a table; schemas and scripts have no
  behaviour of their own (the unique index is in `SeatBooking`).
- Dead code: `StartSyncService`, `SendSyncEvent`, `getLamportClockFromData`, `syncPGSeatsToMongo`.

Of the client:
- In `SeatSale`: prices and classes, wallet links, and leaving the page during a purchase, after which the page
  is gone and only the booking itself, which `SeatBooking` has, goes on.
- The layout of the pass (most of `lib/boardingPassPdf.ts`), the drawing of the map and of the plane
  (`FlightMap`, `PlaneModelViewer`).
- Components and pages with one reading and a display, a value written to the browser, or presentation only:
  `CountrySelector`, `LogoUploader`, `Navbar`, `configuracion`, `layout`, `verificar/[id]`,
  `dashboard/vuelos/[id]`, `pase/[id]/billetera`, `lib/flightTime.ts`, `data/capitals.ts`. Nothing in them happens
  in an order that matters.

Hazards that no run covers are those of `services/occupancy_service.go:165`, `services/sync_service.go:137`,
`input_manager.go:110` and `:329` and `prune_mongo.go:31`: the first two for the reasons above, the others because
the property that states them does not hold (items 8, 7 and 10).

## How it was built

The order was: `SeatBooking` with its abstract specification, invariants and refinement; `Occupancy` and `Versions` with
the theorems other modules rest on; `Replication`, `InputImport` and the two algorithms; the pages of the client, the ones
with overlapping requests first; then the proofs about `FlightCatalogue`, `TicketDesk`, `Replication` and `InputImport`, and
those about `VersionExchange`, the other pages and the targets. Modules
that are proved about have no RECURSIVE operators, name the conjuncts of their invariants, and have one action per
operation, so that a proof has one step per action.
