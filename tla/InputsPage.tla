----------------------------- MODULE InputsPage -----------------------------
(***************************************************************************)
(* The page of the input files (app/entradas/page.tsx) with the jobs of    *)
(* the server it follows: files are chosen and validated, the job that     *)
(* results is started, polled every 1500 ms while it runs, and found       *)
(* again by the identifier kept in localStorage when the page is opened    *)
(* anew.                                                                   *)
(*                                                                         *)
(* The answer of a poll, or of the request made when the page is opened,   *)
(* is shown whenever it comes: after later ones, or after other files      *)
(* were chosen.  It may be in any state the job has had since the request  *)
(* was sent.  The server keeps its jobs in memory and forgets them when    *)
(* the backend restarts (the module InputImport has what a job does).  The *)
(* message of an error and the summary of the active data are left out.    *)
(***************************************************************************)
EXTENDS Naturals, Sequences, FiniteSets

CONSTANTS Selections,   \* the choices of files
          NoFiles,
          MaxJobs,      \* bound on the jobs
          MaxPolls,     \* bound on the polls on their way
          MaxVisits     \* bound on how often the page is opened

ASSUME InputsAssumption ==
    /\ NoFiles \notin Selections
    /\ MaxJobs \in Nat /\ MaxPolls \in Nat \ {0} /\ MaxVisits \in Nat \ {0}

VARIABLES files, job, busy,
          stored,     \* the job in localStorage, 0 when there is none
          visit,      \* the number of this visit of the page
          restored,   \* the job this visit asked for when it was opened
          lookups,    \* the requests for it on their way, of any visit
          peticiones, \* the validations and starts on their way, of any visit: to the
                      \* server, or from it when they are made
          polls,      \* the polls on their way, of this visit; those alike have numbers
          jobs,       \* the server's jobs: their files and the states they have had
          restarted   \* whether the backend has restarted

browserVars == <<files, job, busy, stored, visit, restored, lookups, peticiones, polls>>
inputsVars == <<browserVars, jobs, restarted>>

\* The states of a job in their order; a job that is forgotten answers 404.
Rank == [preview |-> 1, running |-> 2, completed |-> 3, failed |-> 3, lost |-> 4]
JobStates == DOMAIN Rank
NoJob == [id |-> 0, st |-> "lost"]
JobIDs == 1..MaxJobs

StateOf(id) ==
    CHOOSE s \in jobs[id].had : \A r \in jobs[id].had : Rank[r] <= Rank[s]

\* The type invariant.
InputsTypeOK ==
    /\ files \in Selections \cup {NoFiles}
    /\ job \in [id : JobIDs, st : JobStates \ {"lost"}] \cup {NoJob}
    /\ busy \in BOOLEAN
    /\ stored \in 0..MaxJobs /\ restored \in 0..MaxJobs /\ visit \in 1..MaxVisits
    /\ lookups \subseteq [id : JobIDs, from : JobStates, visit : 1..MaxVisits]
    /\ peticiones \subseteq [id : 0..MaxJobs, files : Selections \cup {NoFiles},
                             made : BOOLEAN, visit : 1..MaxVisits]
    /\ polls \subseteq [id : JobIDs, from : JobStates, n : 1..MaxPolls]
    /\ Cardinality(polls) <= MaxPolls
    /\ Len(jobs) <= MaxJobs
    /\ \A id \in DOMAIN jobs : jobs[id].files \in Selections /\ jobs[id].had \subseteq JobStates
    /\ restarted \in BOOLEAN
----------------------------------------------------------------------------
InputsInit ==
    /\ files = NoFiles /\ job = NoJob /\ busy = FALSE
    /\ stored = 0 /\ visit = 1 /\ restored = 0
    /\ lookups = {} /\ peticiones = {} /\ polls = {}
    /\ jobs = <<>> /\ restarted = FALSE

\* What a request sent when a job was in state `from' may be answered.
Answers(id, from) == {s \in jobs[id].had : Rank[s] >= Rank[from]}

Become(id, s) == jobs' = [jobs EXCEPT ![id].had = @ \cup {s}]

ServerRuns == \E id \in DOMAIN jobs : StateOf(id) = "running"

\* The page is opened anew: it asks for the job of localStorage.
ReopenPage ==
    /\ visit < MaxVisits /\ visit' = visit + 1
    /\ files' = NoFiles /\ job' = NoJob /\ busy' = FALSE
    /\ restored' = stored
    /\ lookups' = lookups \cup
         IF stored = 0 THEN {}
         ELSE {[id |-> stored, from |-> StateOf(stored), visit |-> visit + 1]}
    /\ polls' = {}
    /\ UNCHANGED <<stored, peticiones, jobs, restarted>>

\* The job displayed after an answer for job id, which may be a 404.
JobOf(id, s) == IF s = "lost" THEN job ELSE [id |-> id, st |-> s]

\* The job of localStorage is answered and shown; a 404 forgets whatever
\* localStorage has by now, also when the page was left meanwhile.
LookupAnswered(l) ==
    /\ l \in lookups /\ lookups' = lookups \ {l}
    /\ \E s \in Answers(l.id, l.from) :
          /\ job' = IF l.visit = visit THEN JobOf(l.id, s) ELSE job
          /\ stored' = IF s = "lost" THEN 0 ELSE stored
    /\ UNCHANGED <<files, busy, visit, restored, peticiones, polls, jobs, restarted>>

\* It is lost, or the server answers another error, which is taken for a 404.
LookupLost(l) ==
    /\ l \in lookups /\ lookups' = lookups \ {l}
    /\ stored' \in {stored, 0}
    /\ UNCHANGED <<files, job, busy, visit, restored, peticiones, polls, jobs, restarted>>
----------------------------------------------------------------------------
\* The inputs of the files are off while the page is busy or its job runs.
CanChoose_always == TRUE
CanChoose == ~busy /\ job.st # "running"

ChooseFiles(f) ==
    /\ CanChoose
    /\ files' = f /\ job' = NoJob /\ stored' = 0
    /\ UNCHANGED <<busy, visit, restored, lookups, peticiones, polls, jobs, restarted>>

\* preview, up to its await.
Preview ==
    /\ files # NoFiles /\ CanChoose
    /\ busy' = TRUE /\ job' = NoJob
    /\ peticiones' = peticiones \cup
                     {[id |-> 0, files |-> files, made |-> FALSE, visit |-> visit]}
    /\ UNCHANGED <<files, stored, visit, restored, lookups, polls, jobs, restarted>>

\* process, confirmed by the user, up to its await; it is about no files.
IsPreview(p) == p.files # NoFiles

Process ==
    /\ job.st = "preview" /\ ~busy
    /\ busy' = TRUE
    /\ peticiones' = peticiones \cup
                     {[id |-> job.id, files |-> NoFiles, made |-> FALSE, visit |-> visit]}
    /\ UNCHANGED <<files, job, stored, visit, restored, lookups, polls, jobs, restarted>>

\* The server has dealt with a request, and its answer is on its way.
Served(p, id) ==
    /\ p \in peticiones /\ ~p.made
    /\ peticiones' = (peticiones \ {p}) \cup {[p EXCEPT !.made = TRUE, !.id = id]}
    /\ UNCHANGED <<files, job, busy, stored, visit, restored, lookups, polls, restarted>>

\* previewInputs: no job runs and the files are valid, so there is a new job.
PreviewInputs(p) ==
    /\ IsPreview(p) /\ Served(p, Len(jobs) + 1)
    /\ Len(jobs) < MaxJobs /\ ~ServerRuns
    /\ jobs' = Append(jobs, [files |-> p.files, had |-> {"preview"}])

\* startInputJob: one job at a time, each one once.
StartInputJob(p) ==
    /\ ~IsPreview(p) /\ Served(p, p.id)
    /\ StateOf(p.id) = "preview" /\ ~ServerRuns /\ Become(p.id, "running")

\* A request ends; its page, when it is still there, is no longer busy.
EndRequest(p) ==
    /\ p \in peticiones /\ peticiones' = peticiones \ {p}
    /\ busy' = (busy /\ p.visit # visit)

\* There is a new job, which localStorage keeps even when the page was left.
PreviewAnswered(p) ==
    /\ IsPreview(p) /\ p.made /\ EndRequest(p)
    /\ stored' = p.id
    /\ job' = IF p.visit = visit THEN [id |-> p.id, st |-> "preview"] ELSE job
    /\ UNCHANGED <<files, visit, restored, lookups, polls, jobs, restarted>>

\* The job is shown as running, ended or not: the job the request was made
\* for, whatever is shown by now.
StartAnswered(p) ==
    /\ ~IsPreview(p) /\ p.made /\ EndRequest(p)
    /\ job' = IF p.visit = visit THEN [id |-> p.id, st |-> "running"] ELSE job
    /\ UNCHANGED <<files, stored, visit, restored, lookups, polls, jobs, restarted>>

\* What the page shows after a request that was not answered well.
AfterFailure(p) == UNCHANGED job

\* Refused by the server, or lost before it was made or after.
RequestEndsBadly(p) ==
    /\ EndRequest(p)
    /\ AfterFailure(p)
    /\ UNCHANGED <<files, stored, visit, restored, lookups, polls, jobs, restarted>>
----------------------------------------------------------------------------
\* The interval of lines 48 to 64 exists while the displayed job runs.
Polls_atmount == job.st = "running" /\ job.id = restored
Polls == job.st = "running"

Alike(id, from) == {p \in polls : p.id = id /\ p.from = from}

Poll ==
    /\ Polls /\ Cardinality(polls) < MaxPolls
    /\ LET from == StateOf(job.id)
       IN  polls' = polls \cup {[id |-> job.id, from |-> from,
                                 n |-> Cardinality(Alike(job.id, from)) + 1]}
    /\ UNCHANGED <<files, job, busy, stored, visit, restored, lookups, peticiones,
                   jobs, restarted>>

\* A poll comes to its end: of those that are alike, the last is any of them.
PollEnds(p) == p.n = Cardinality(Alike(p.id, p.from)) /\ polls' = polls \ {p}

\* Its answer is shown, unless the server has forgotten the job.
PollAnswered(p) ==
    /\ PollEnds(p)
    /\ \E s \in Answers(p.id, p.from) : job' = JobOf(p.id, s)
    /\ UNCHANGED <<files, busy, stored, visit, restored, lookups, peticiones,
                   jobs, restarted>>

PollLost(p) ==
    /\ PollEnds(p)
    /\ UNCHANGED <<files, job, busy, stored, visit, restored, lookups, peticiones,
                   jobs, restarted>>
----------------------------------------------------------------------------
\* The goroutine of a running job ends.
JobEnds(id) ==
    /\ id \in DOMAIN jobs /\ StateOf(id) = "running"
    /\ Become(id, "completed") \/ Become(id, "failed")
    /\ UNCHANGED <<browserVars, restarted>>

BackendRestarts ==
    /\ ~restarted /\ restarted' = TRUE
    /\ jobs' = [id \in DOMAIN jobs |-> [jobs[id] EXCEPT !.had = @ \cup {"lost"}]]
    /\ UNCHANGED browserVars

InputsNext ==
    \/ ReopenPage \/ Preview \/ Process \/ Poll \/ BackendRestarts
    \/ \E f \in Selections : ChooseFiles(f)
    \/ \E l \in lookups : LookupAnswered(l) \/ LookupLost(l)
    \/ \E p \in peticiones :
          \/ PreviewInputs(p) \/ StartInputJob(p)
          \/ PreviewAnswered(p) \/ StartAnswered(p) \/ RequestEndsBadly(p)
    \/ \E p \in polls : PollAnswered(p) \/ PollLost(p)
    \/ \E id \in JobIDs : JobEnds(id)

InputsSpec == InputsInit /\ [][InputsNext]_inputsVars

\* Jobs end, the interval fires, of the polls on their way some ends, and of
\* polls made for ever some are answered.
SomeJobEnds == \E id \in JobIDs : JobEnds(id)
SomePollAnswered == \E p \in polls : PollAnswered(p)
SomePollLost == \E p \in polls : PollLost(p)
InputsFairness ==
    /\ WF_inputsVars(SomeJobEnds) /\ WF_inputsVars(Poll)
    /\ WF_inputsVars(SomePollAnswered \/ SomePollLost) /\ SF_inputsVars(SomePollAnswered)

InputsFairSpec == InputsSpec /\ InputsFairness
----------------------------------------------------------------------------
(***************************************************************************)
(* Properties.                                                             *)
(***************************************************************************)

\* A job that waits to be started is the one of the files that are chosen now,
\* or the one the page asked for when it was opened: choosing files while a
\* validation, a start or a poll is on its way leaves no other.
PreviewIsOfTheFiles ==
    job.st = "preview" /\ job.id # restored => jobs[job.id].files = files

\* The page shows no state its job has not had on the server, whatever was
\* lost and however late its answers come.
OnlyWhatHappened == job.id # 0 => job.st \in jobs[job.id].had

\* So the job on the page is of its files and in a state it has been in.
ShownJobIsTrue == PreviewIsOfTheFiles /\ OnlyWhatHappened

\* A job that is shown as running is shown as ended at last, in whatever order
\* the polls are answered, unless the backend restarts and forgets it.
ProgressEnds == job.st = "running" ~> (job.st # "running" \/ restarted)
=============================================================================
