----------------------------- MODULE InputImport -----------------------------
(***************************************************************************)
(* The replacement of the input files and of all the data (input_manager.  *)
(* go): jobs are previewed and started, one goroutine replaces the files,  *)
(* both PostgreSQL servers and MongoDB, the gate InputImportActive keeps   *)
(* the rest of the backend out, and the backend may stop at any step.      *)
(*                                                                         *)
(* A file is the number of the job that uploaded it, 0 if it was there at  *)
(* first; flights are known by the files they were imported from.  Of the  *)
(* tickets sold before there is one, owned by the American server.         *)
(*                                                                         *)
(* A definition with a suffix (Uploaded_alone) is a plausible mistake      *)
(* in the one it precedes; no other definition uses it.                    *)
(***************************************************************************)
EXTENDS Naturals, FiniteSets

CONSTANTS
  Jobs,         \* the jobs that are previewed
  Sessions,     \* HTTP handlers that change a ticket
  Workers,      \* background workers that do: the refund worker has no gate
  Fallible,     \* the steps of the replacement that may fail
  PrunesAtBoot, \* pruneMongoOrphans finds all servers up at a start
  MaxEvents,    \* bound: the changes of the ticket
  MaxRestarts   \* bound: how often the backend restarts

PGs    == {"AM", "EU"}
Stores == PGs \union {"Mongo"}
Files  == {"matrix", "dataset"}
FileSets == [Files -> Jobs \union {0}]
Writers == Sessions \union Workers
Events  == 1 .. MaxEvents

(* The goroutine of a job, in the order of its statements; after a failure *)
(* it goes on with the deferred ones.                                      *)
Steps == {"gate", "matrix", "dataset", "outbox", "rows", "load", "am", "eu", "seed",
          "clean", "mirror"}
PCs   == Steps \union {"idle", "reopen", "complete", "defer",
                       "undo", "restore", "unlock", "fail"}

ASSUME InputImportAssumption ==
  /\ Jobs \subseteq Nat \ {0}
  /\ Sessions \intersect Workers = {}
  /\ Fallible \subseteq Steps \ {"seed", "mirror"}   \* these two check themselves
  /\ PrunesAtBoot \in BOOLEAN
  /\ MaxEvents \in Nat /\ MaxRestarts \in Nat

VARIABLES
  job,       \* the state of each job
  staged,    \* the files in the job's directory
  running,   \* inputJobs.running
  active,    \* InputImportActive
  files,     \* the files in use
  im,        \* the goroutine of each job
  flights,   \* the flights of each store
  fares,     \* the matrices in precios and detalles_vuelos
  holders,   \* the stores that have the ticket
  events,    \* the ticket's events that wait in the American sync_outbox
  written,   \* how many there have been
  writer,    \* the request or refund each writer is at
  worker,    \* the event the outbox worker delivers, and where it has still to go
  prune,     \* pruneMongoOrphans
  restarts

importVars == <<job, staged, running, active, files, im, fares>>
dataVars   == <<flights, holders, events>>
otherVars  == <<written, writer, worker, prune, restarts>>
vars       == <<importVars, dataVars, otherVars>>
-----------------------------------------------------------------------------
JobStates == {"none", "checked", "half", "preview", "running", "completed", "failed"}

NoFiles == [f \in Files |-> 0]

(* unrestored is what the properties look at and the code does not: the    *)
(* files that a failed write has not put back.                             *)
Idle    == [pc |-> "idle", old |-> NoFiles, replaced |-> FALSE, committing |-> FALSE,
            unrestored |-> {}, cleared |-> {}, loaded |-> NoFiles]

NotDelivering == [event |-> 0, left |-> {}, ok |-> TRUE]
NotPruning    == [pc |-> "idle", ids |-> {}]

Init ==
  /\ job = [j \in Jobs |-> "none"]
  /\ staged = [j \in Jobs |-> NoFiles]
  /\ running = FALSE /\ active = FALSE
  /\ files = NoFiles
  /\ im = [j \in Jobs |-> Idle]
  /\ flights = [s \in Stores |-> {NoFiles}]
  /\ fares = [d \in PGs |-> 0]
  /\ holders = Stores
  /\ events = {} /\ written = 0
  /\ writer = [w \in Writers |-> "idle"]
  /\ worker = NotDelivering
  /\ prune = NotPruning
  /\ restarts = 0

(* The rows the transaction of a replacement has deleted and not committed *)
(* are locked: on the American server until its commit, on the other until *)
(* the commit that follows it.                                             *)
Locked_untilLoaded(d) == \E j \in Jobs : im[j].pc = "load"

Locked(d) ==
  \E j \in Jobs : im[j].pc \in {"load", "am"} \union (IF d = "EU" THEN {"eu"} ELSE {})

TicketFree == \A w \in Writers : writer[w] # "tx"

Goto(j, pc) ==
  im' = [im EXCEPT ![j] = IF pc = "idle" THEN Idle ELSE [@ EXCEPT !.pc = pc]]
At(j, pc)     == im[j].pc = pc
UseFile(j, f) == files' = [files EXCEPT ![f] = staged[j][f]]
-----------------------------------------------------------------------------
(* previewInputs looks whether a job runs, and goes on without the lock. *)
Uploaded_alone(j, uploads) == [f \in uploads |-> j]
Uploaded(j, uploads) == [f \in Files |-> IF f \in uploads THEN j ELSE 0]

BeginPreview(j, uploads) ==
  /\ job[j] = "none" /\ ~running
  /\ job' = [job EXCEPT ![j] = "checked"]
  /\ staged' = [staged EXCEPT ![j] = Uploaded(j, uploads)]
  /\ UNCHANGED <<running, active, files, im, fares, dataVars, otherVars>>

(* What is not uploaded is copied from the files in use, first the matrix  *)
(* and then the dataset, after which the job is known to startInputJob.    *)
StageFile(j, f, from, to) ==
  /\ job[j] = from
  /\ job' = [job EXCEPT ![j] = to]
  /\ staged' = [staged EXCEPT ![j][f] = IF @ = j THEN j ELSE files[f]]
  /\ UNCHANGED <<running, active, files, im, fares, dataVars, otherVars>>

PreviewInputs(j) ==
  \/ StageFile(j, "matrix", "checked", "half")
  \/ StageFile(j, "dataset", "half", "preview")

MayStart_anyTime(j) == job[j] = "preview"
MayStart(j) == job[j] = "preview" /\ ~running

StartInputJob(j) ==
  /\ MayStart(j)
  /\ running' = TRUE
  /\ job' = [job EXCEPT ![j] = "running"]
  /\ Goto(j, "gate")
  /\ UNCHANGED <<staged, active, files, fares, dataVars, otherVars>>

(* runInputJob: the gate is closed, and the files in use are read. *)
Gate(j) ==
  /\ At(j, "gate")
  /\ active' = TRUE
  /\ im' = [im EXCEPT ![j] = [Idle EXCEPT !.pc = "matrix", !.old = files]]
  /\ UNCHANGED <<job, staged, running, files, fares, dataVars, otherVars>>

(* replacedFiles is set once the first of the two files is replaced. *)
AfterMatrix_unmarked(j) == [im[j] EXCEPT !.pc = "dataset"]
AfterMatrix(j) == [im[j] EXCEPT !.pc = "dataset", !.replaced = TRUE]

ReplaceMatrix(j) ==
  /\ At(j, "matrix")
  /\ UseFile(j, "matrix")
  /\ im' = [im EXCEPT ![j] = AfterMatrix(j)]
  /\ UNCHANGED <<job, staged, running, active, fares, dataVars, otherVars>>

ReplaceDataset(j) ==
  /\ At(j, "dataset")
  /\ UseFile(j, "dataset")
  /\ Goto(j, "outbox")
  /\ UNCHANGED <<job, staged, running, active, fares, dataVars, otherVars>>

(* resetPostgres: sync_outbox is emptied first, of what is committed ...  *)
ClearOutbox(j) ==
  /\ At(j, "outbox")
  /\ im' = [im EXCEPT ![j].pc = "rows", ![j].cleared = events]
  /\ UNCHANGED <<job, staged, running, active, files, fares, dataVars, otherVars>>

(* ... and the tickets and flights, behind the transactions that hold them. *)
ClearRows(j) ==
  /\ At(j, "rows")
  /\ ~Locked("AM")
  /\ TicketFree
  /\ Goto(j, "load")
  /\ UNCHANGED <<job, staged, running, active, files, fares, dataVars, otherVars>>

(* ImportFlightsFromCSV on both servers. *)
Load(j) ==
  /\ At(j, "load")
  /\ im' = [im EXCEPT ![j].pc = "am", ![j].loaded = files]
  /\ UNCHANGED <<job, staged, running, active, files, fares, dataVars, otherVars>>

CommitAmerica(j) ==
  /\ At(j, "am")
  /\ flights' = [flights EXCEPT !["AM"] = {im[j].loaded}]
  /\ holders' = holders \ {"AM"}
  /\ events' = events \ im[j].cleared
  /\ im' = [im EXCEPT ![j].pc = "eu", ![j].committing = TRUE]
  /\ UNCHANGED <<job, staged, running, active, files, fares, otherVars>>

CommitEurope(j) ==
  /\ At(j, "eu")
  /\ flights' = [flights EXCEPT !["EU"] = {im[j].loaded}]
  /\ holders' = holders \ {"EU"}
  /\ Goto(j, "seed")
  /\ UNCHANGED <<job, staged, running, active, files, fares, events, otherVars>>

(* seedMatrices and seedPrecios only log their failures ... *)
MatricesMatch(values) == \A d \in PGs : values[d] = files["matrix"]

(* ... and verifyRelationalMatrices compares the rows with the file. *)
SeedMatrices(j) ==
  /\ At(j, "seed")
  /\ \E seeded \in SUBSET PGs :
       fares' = [d \in PGs |-> IF d \in seeded THEN files["matrix"] ELSE fares[d]]
  /\ Goto(j, IF MatricesMatch(fares') THEN "clean" ELSE "undo")
  /\ UNCHANGED <<job, staged, running, active, files, dataVars, otherVars>>

CleanMongo(j) ==
  /\ At(j, "clean")
  /\ flights' = [flights EXCEPT !["Mongo"] = {}]
  /\ holders' = holders \ {"Mongo"}
  /\ Goto(j, "mirror")
  /\ UNCHANGED <<job, staged, running, active, files, fares, events, otherVars>>

InMongo == IF holders \intersect PGs # {} THEN {"Mongo"} ELSE {}

(* bootstrapMongo(true) only logs its failures; the flights are counted. *)
FlightsCounted_no == TRUE
FlightsCounted == flights'["Mongo"] = flights["AM"] \union flights["EU"]

MirrorMongo(j) ==
  /\ At(j, "mirror")
  /\ \/ /\ flights' = [flights EXCEPT !["Mongo"] = flights["AM"] \union flights["EU"]]
        /\ holders' = holders \union InMongo
     \/ UNCHANGED <<flights, holders>>
  /\ Goto(j, IF FlightsCounted THEN "reopen" ELSE "undo")
  /\ UNCHANGED <<job, staged, running, active, files, fares, events, otherVars>>

(* A step that returns an error, with what its deferred functions rely on: *)
(* after the first they have no old files to restore, and need none.       *)
Failed(j) == [im[j] EXCEPT !.pc = "undo", !.committing = @ \/ At(j, "am"),
                           !.old = IF At(j, "gate") THEN files ELSE @]

Fail(j) ==
  /\ im[j].pc \in Fallible
  /\ active' = (active \/ At(j, "gate"))
  /\ im' = [im EXCEPT ![j] = Failed(j)]
  /\ UNCHANGED <<job, staged, running, files, fares, dataVars, otherVars>>

(* The deferred functions: the transactions are rolled back, and each file *)
(* is written back unless the commits had begun.  The errors of both       *)
(* writes are ignored; a write that fails is taken to leave the file.      *)
RestoresFiles(j) == im[j].replaced /\ ~im[j].committing

RestoreFile(j, f, to) ==
  /\ \/ /\ RestoresFiles(j)
        /\ files' = [files EXCEPT ![f] = im[j].old[f]]
        /\ Goto(j, to)
     \/ /\ RestoresFiles(j)
        /\ im' = [im EXCEPT ![j].pc = to, ![j].unrestored = @ \union {f}]
        /\ UNCHANGED files
     \/ /\ ~RestoresFiles(j)
        /\ Goto(j, to)
        /\ UNCHANGED files
  /\ UNCHANGED <<job, staged, running, active, fares, dataVars, otherVars>>

(* How a goroutine ends: the gate is opened explicitly when a job          *)
(* completes, and by the deferred call whenever runInputJob returns; the   *)
(* state of a job that completes is set before that, of one that fails     *)
(* after it.                                                               *)
After_ended ==
  [restore |-> "fail", reopen |-> "complete", complete |-> "defer", defer |-> "idle",
   unlock |-> "idle", fail |-> "unlock"]
After ==
  [restore |-> "unlock", reopen |-> "complete", complete |-> "defer", defer |-> "idle",
   unlock |-> "fail", fail |-> "idle"]

Undo(j) ==
  \/ At(j, "undo") /\ RestoreFile(j, "matrix", "restore")
  \/ At(j, "restore") /\ RestoreFile(j, "dataset", After["restore"])

(* InputImportActive.Store(false). *)
OpenGate(j) ==
  /\ im[j].pc \in {"reopen", "defer", "unlock"}
  /\ active' = FALSE
  /\ Goto(j, After[im[j].pc])
  /\ UNCHANGED <<job, staged, running, files, fares, dataVars, otherVars>>

(* updateJob with the final state, which lets the next job start. *)
FinalState_ignored(j) == IF At(j, "fail") THEN job[j] ELSE "completed"
FinalState(j) == IF At(j, "fail") THEN "failed" ELSE "completed"

EndJob(j) ==
  /\ im[j].pc \in {"complete", "fail"}
  /\ job' = [job EXCEPT ![j] = FinalState(j)]
  /\ running' = FALSE
  /\ Goto(j, After[im[j].pc])
  /\ UNCHANGED <<staged, active, files, fares, dataVars, otherVars>>
-----------------------------------------------------------------------------
(* A request passes the gate, and looks at the data at any later time. *)
Arrive(w) ==
  /\ writer[w] = "idle"
  /\ w \in Sessions => ~active
  /\ writer' = [writer EXCEPT ![w] = "passed"]
  /\ UNCHANGED <<importVars, dataVars, written, worker, prune, restarts>>

(* CancelarReserva, UpdateEstadoBoleto and releaseRefunds lock the ticket, *)
(* if it is there.                                                         *)
LockTicket(w) ==
  /\ writer[w] = "passed"
  /\ ~Locked("AM")
  /\ TicketFree
  /\ writer' = [writer EXCEPT ![w] =
       IF "AM" \in holders /\ written < MaxEvents THEN "tx" ELSE "idle"]
  /\ UNCHANGED <<importVars, dataVars, written, worker, prune, restarts>>

CommitTicket(w) ==
  /\ writer[w] = "tx"
  /\ written' = written + 1
  /\ events' = events \union {written'}
  /\ writer' = [writer EXCEPT ![w] = "idle"]
  /\ UNCHANGED <<importVars, flights, holders, worker, prune, restarts>>

(* drainOutbox looks at the gate before it claims an event. *)
Claim(e) ==
  /\ worker = NotDelivering
  /\ ~active
  /\ e \in events
  /\ worker' = [event |-> e, left |-> Stores, ok |-> TRUE]
  /\ UNCHANGED <<importVars, dataVars, written, writer, prune, restarts>>

(* ApplySyncEvent inserts the ticket where it is missing, or fails: a row  *)
(* that stays locked is given up after five seconds.                       *)
Apply(s) ==
  /\ s \in worker.left
  /\ \/ /\ s \in PGs => ~Locked(s)
        /\ holders' = holders \union {s}
        /\ worker' = [worker EXCEPT !.left = @ \ {s}]
     \/ /\ worker' = [worker EXCEPT !.left = @ \ {s}, !.ok = FALSE]
        /\ UNCHANGED holders
  /\ UNCHANGED <<importVars, flights, events, written, writer, prune, restarts>>

MarkDelivered ==
  /\ worker.event # 0 /\ worker.left = {}
  /\ events' = IF worker.ok THEN events \ {worker.event} ELSE events
  /\ worker' = NotDelivering
  /\ UNCHANGED <<importVars, flights, holders, written, writer, prune, restarts>>
-----------------------------------------------------------------------------
(* The backend stops.  At the start seedMatrices and seedPrecios, and then *)
(* SeedFlightsFromCSV, bring a server what the files in use have and it    *)
(* lacks, or do not: one that is down is left out, an error is only        *)
(* logged, and a flight's identifier is the number of its row, which a     *)
(* flight of other files may have.  A preview that was not over is lost.   *)
Restart ==
  /\ restarts < MaxRestarts
  /\ restarts' = restarts + 1
  /\ job' = [j \in Jobs |->
               IF job[j] \in {"none", "checked", "half"} THEN "none" ELSE "failed"]
  /\ running' = FALSE /\ active' = FALSE
  /\ im' = [j \in Jobs |-> Idle]
  /\ writer' = [w \in Writers |-> "idle"]
  /\ worker' = NotDelivering
  /\ \E priced, seeded \in SUBSET PGs :
       /\ fares' = [d \in PGs |-> IF d \in priced THEN files["matrix"] ELSE fares[d]]
       /\ flights' = [s \in Stores |-> IF s \in seeded THEN flights[s] \union {files}
                                                       ELSE flights[s]]
  /\ prune' = IF PrunesAtBoot THEN [NotPruning EXCEPT !.pc = "read"] ELSE NotPruning
  /\ UNCHANGED <<staged, files, holders, events, written>>

(* bootstrapMongo(false): at the start, and when MongoDB comes back. *)
BootstrapMongo ==
  /\ ~active
  /\ flights' = [flights EXCEPT !["Mongo"] = UNION {flights[s] : s \in Stores}]
  /\ holders' = holders \union InMongo
  /\ UNCHANGED <<importVars, events, otherVars>>

(* pruneMongoOrphans, in its own goroutine: the identifiers in PostgreSQL, *)
PruneRead ==
  /\ prune.pc = "read"
  /\ prune' = [pc |-> "delete", ids |-> flights["AM"] \union flights["EU"]]
  /\ UNCHANGED <<importVars, dataVars, written, writer, worker, restarts>>

(* and the removal of all the flights that have none of them.             *)
PruneDelete ==
  /\ prune.pc = "delete"
  /\ flights' = [flights EXCEPT !["Mongo"] = @ \intersect prune.ids]
  /\ prune' = NotPruning
  /\ UNCHANGED <<importVars, holders, events, written, writer, worker, restarts>>

Replace(j) ==
  \/ Gate(j) \/ ReplaceMatrix(j) \/ ReplaceDataset(j)
  \/ ClearOutbox(j) \/ ClearRows(j) \/ Load(j)
  \/ CommitAmerica(j) \/ CommitEurope(j)
  \/ SeedMatrices(j) \/ CleanMongo(j) \/ MirrorMongo(j)
  \/ Fail(j) \/ Undo(j) \/ OpenGate(j) \/ EndJob(j)

Next ==
  \/ \E j \in Jobs :
       \/ \E uploads \in (SUBSET Files) \ {{}} : BeginPreview(j, uploads)
       \/ PreviewInputs(j)
       \/ StartInputJob(j)
       \/ Replace(j)
  \/ \E w \in Writers : Arrive(w) \/ LockTicket(w) \/ CommitTicket(w)
  \/ \E e \in Events : Claim(e)
  \/ \E s \in Stores : Apply(s)
  \/ MarkDelivered
  \/ Restart
  \/ BootstrapMongo
  \/ PruneRead \/ PruneDelete

Spec == Init /\ [][Next]_vars

(* The goroutine of a job runs, as do the transactions it may wait for:    *)
(* every statement on PostgreSQL and MongoDB returns, if with an error.    *)
Fairness ==
  /\ \A j \in Jobs :
       /\ WF_vars(Replace(j))
       /\ SF_vars(ClearRows(j))
  /\ \A w \in Writers : WF_vars(CommitTicket(w))

FairSpec == Spec /\ Fairness
-----------------------------------------------------------------------------
(* The types of the variables. *)
TypeOK ==
  /\ job \in [Jobs -> JobStates]
  /\ staged \in [Jobs -> FileSets]
  /\ running \in BOOLEAN /\ active \in BOOLEAN
  /\ files \in FileSets
  /\ im \in [Jobs -> [pc : PCs, old : FileSets, replaced : BOOLEAN,
                      committing : BOOLEAN, unrestored : SUBSET Files,
                      cleared : SUBSET Events, loaded : FileSets]]
  /\ flights \in [Stores -> SUBSET FileSets]
  /\ fares \in [PGs -> Jobs \union {0}]
  /\ holders \subseteq Stores
  /\ events \subseteq Events /\ written \in 0 .. MaxEvents
  /\ writer \in [Writers -> {"idle", "passed", "tx"}]
  /\ worker \in [event : Events \union {0}, left : SUBSET Stores, ok : BOOLEAN]
  /\ prune \in [pc : {"idle", "read", "delete"}, ids : SUBSET FileSets]
  /\ restarts \in 0 .. MaxRestarts

Replacing(j) == im[j].pc \in (Steps \ {"gate"}) \union {"undo", "restore"}

(* Two replacements never work on the files and the stores at once, also   *)
(* when one is started while the goroutine of another is at its last steps *)
(* (inputJobs.running).                                                    *)
OneReplacementAtATime ==
  \A i, j \in Jobs : Replacing(i) /\ Replacing(j) => i = j

(* When a job completes, all stores have the flights of the files in use,  *)
(* and both servers the prices of the matrices in use, whatever an earlier *)
(* failure or restart left half done (verifyRelationalMatrices, the count  *)
(* of the flights in MongoDB).                                             *)
CompletedIsConsistent ==
  \A j \in Jobs :
    At(j, "complete") =>
      /\ \A s \in Stores : flights[s] = {files}
      /\ \A d \in PGs : fares[d] = files["matrix"]

(* A job that fails after its commits began leaves its own files in use,   *)
(* which the American flights come from; before them it leaves each file   *)
(* as it was, but those whose restoring failed (replacedFiles, committing, *)
(* and the two writes whose errors are ignored).                           *)
FailureKeepsTheFiles ==
  \A j \in Jobs :
    im[j].pc \in {"unlock", "fail"} =>
      IF im[j].committing
        THEN flights["AM"] = {files}
        ELSE \A f \in Files \ im[j].unrestored : files[f] = im[j].old[f]

(* The gate is shut as long as a job replaces files or data, but for the   *)
(* second opening by a job that has completed: of one that failed the gate *)
(* is opened before the next job may start (the deferred Store(false) and  *)
(* the state set after it).                                                *)
GateStaysShut ==
  \A j \in Jobs :
    Replacing(j) => active \/ \E i \in Jobs \ {j} : job[i] = "completed"

(* A job changes no file but those it uploaded ("Los demás se conservan"). *)
OnlyUploadedFilesChange ==
  [][\A j \in Jobs, f \in Files :
       At(j, f) /\ im'[j] # im[j] /\ files'[f] # files[f] => files'[f] = j]_vars

(* While the files or the data are replaced the gate is closed. *)
GateClosedWhileReplacing == \A j \in Jobs : Replacing(j) => active

(* After a job has completed no store has a ticket of before ("borra todos *)
(* los vuelos, boletos y reservas anteriores").                            *)
NothingOldSurvives ==
  \A j \in Jobs : job[j] = "completed" =>
    holders = {} \/ \E i \in Jobs : Replacing(i)

(* pruneMongoOrphans removes no flight that PostgreSQL has. *)
PruneRemovesOrphans ==
  [][prune.pc = "delete" /\ prune'.pc = "idle" /\ restarts' = restarts =>
       (flights["Mongo"] \ flights'["Mongo"]) \intersect (flights["AM"] \union flights["EU"]) = {}]_vars

(* A ticket that a transaction has locked is there until its commit, so    *)
(* that no change is answered with success and lost with the row: the      *)
(* replacement waits for the transactions before it, and those after it    *)
(* look again (the DELETE of resetPostgres, SELECT ... FOR UPDATE).        *)
LockedTicketStays == (\E w \in Writers : writer[w] = "tx") => "AM" \in holders

(* A job that was started ends, and the gate it shut opens again, whatever *)
(* step failed and whoever held the rows (the deferred calls of            *)
(* runInputJob, startInputJob's recovery).                                 *)
JobsEnd     == \A j \in Jobs : job[j] = "running" ~> job[j] # "running"
GateReopens == active ~> ~active

ReplacementsEnd == JobsEnd /\ GateReopens
=============================================================================
