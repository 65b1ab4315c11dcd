-------------------------- MODULE InputImportProofs --------------------------
(***************************************************************************)
(* Theorems about InputImport, for any number of jobs, writers, restarts   *)
(* and changes of the ticket, with their proofs.                           *)
(***************************************************************************)
EXTENDS InputImport, TLAPS

USE InputImportAssumption
USE DEF PGs, Stores

ImStates == [pc : PCs, old : FileSets, replaced : BOOLEAN,
             committing : BOOLEAN, unrestored : SUBSET Files,
             cleared : SUBSET Events, loaded : FileSets]

(* A goroutine is at work from its start to the final state of its job;    *)
(* only its last deferred call comes after that.                           *)
Busy(j) == im[j].pc \notin {"idle", "defer"}

(* The change of the ticket is made in one transaction at a time.          *)
WritersInv ==
  /\ \A w \in Writers : writer[w] = "tx" => written < MaxEvents
  /\ \A v, w \in Writers : writer[v] = "tx" /\ writer[w] = "tx" => v = w

TInv == TypeOK /\ WritersInv

(* The files are known. *)
LEMMA NoFilesType == NoFiles \in FileSets
BY DEF NoFiles, FileSets

LEMMA IdleType == Idle \in ImStates /\ Idle.pc = "idle" /\ ~Idle.replaced /\ ~Idle.committing
BY NoFilesType DEF Idle, ImStates, PCs

LEMMA InitTInv == Init => TInv
<1> SUFFICES ASSUME Init PROVE TInv
  OBVIOUS
<1>1. im \in [Jobs -> ImStates]
  BY IdleType DEF Init
<1>2. staged \in [Jobs -> FileSets] /\ files \in FileSets /\ flights \in [Stores -> SUBSET FileSets]
  BY NoFilesType DEF Init
<1>3. /\ job \in [Jobs -> JobStates] /\ fares \in [PGs -> Jobs \union {0}]
      /\ running \in BOOLEAN /\ active \in BOOLEAN /\ holders \subseteq Stores
  BY DEF Init, JobStates
<1>4. /\ writer \in [Writers -> {"idle", "passed", "tx"}] /\ WritersInv
      /\ events \subseteq Events /\ written \in 0 .. MaxEvents /\ restarts \in 0 .. MaxRestarts
  BY DEF Init, WritersInv
<1>5. /\ worker \in [event : Events \union {0}, left : SUBSET Stores, ok : BOOLEAN]
      /\ prune \in [pc : {"idle", "read", "delete"}, ids : SUBSET FileSets]
  BY DEF Init, NotDelivering, NotPruning
<1> QED BY <1>1, <1>2, <1>3, <1>4, <1>5 DEF TInv, TypeOK, ImStates

(* The next state of one goroutine. *)
LEMMA ImUpdate ==
  ASSUME TypeOK, NEW j \in Jobs, NEW r \in ImStates, im' = [im EXCEPT ![j] = r]
  PROVE  /\ im' \in [Jobs -> ImStates] /\ im'[j] = r
         /\ \A i \in Jobs : i # j => im'[i] = im[i]
BY DEF TypeOK, ImStates

LEMMA GotoStep ==
  ASSUME TypeOK, NEW j \in Jobs, NEW pc \in PCs, Goto(j, pc)
  PROVE  /\ im' \in [Jobs -> ImStates]
         /\ im'[j] = IF pc = "idle" THEN Idle ELSE [im[j] EXCEPT !.pc = pc]
         /\ im'[j].pc = pc
         /\ \A i \in Jobs : i # j => im'[i] = im[i]
<1> DEFINE r == IF pc = "idle" THEN Idle ELSE [im[j] EXCEPT !.pc = pc]
<1>1. im[j] \in ImStates
  BY DEF TypeOK, ImStates
<1>2. r \in ImStates /\ r.pc = pc
  BY <1>1, IdleType DEF ImStates
<1>3. im' = [im EXCEPT ![j] = r]
  BY DEF Goto
<1> HIDE DEF r
<1>4. im' \in [Jobs -> ImStates] /\ im'[j] = r /\ \A i \in Jobs : i # j => im'[i] = im[i]
  BY <1>2, <1>3, ImUpdate
<1> QED BY <1>2, <1>4 DEF r

(* The statements that end a goroutine, in their order. *)
LEMMA AfterSteps ==
  /\ After["restore"] = "unlock" /\ After["unlock"] = "fail" /\ After["fail"] = "idle"
  /\ After["reopen"] = "complete" /\ After["complete"] = "defer" /\ After["defer"] = "idle"
BY DEF After

(* What each step of a preview does. *)
Prepares(j) == PreviewInputs(j) \/ \E uploads \in SUBSET Files : BeginPreview(j, uploads)

LEMMA PreviewStep ==
  ASSUME TypeOK, NEW j \in Jobs, Prepares(j)
  PROVE  /\ staged' \in [Jobs -> FileSets]
         /\ job[j] \in {"none", "checked", "half"}
         /\ \E state \in {"checked", "half", "preview"} : job' = [job EXCEPT ![j] = state]
         /\ UNCHANGED <<running, active, files, im, fares, dataVars, otherVars>>
<1>1. ASSUME NEW uploads \in SUBSET Files, BeginPreview(j, uploads)
      PROVE  staged' \in [Jobs -> FileSets]
  <2>1. Uploaded(j, uploads) \in FileSets
    BY DEF Uploaded, FileSets
  <2> QED BY <1>1, <2>1 DEF BeginPreview, TypeOK
<1>2. ASSUME NEW f \in Files, NEW from, NEW to, StageFile(j, f, from, to)
      PROVE  staged' \in [Jobs -> FileSets]
  <2>1. /\ staged[j] \in FileSets /\ files[f] \in Jobs \union {0}
        /\ staged[j][f] \in Jobs \union {0}
    BY DEF TypeOK, FileSets
  <2> DEFINE new == [staged[j] EXCEPT ![f] = IF @ = j THEN j ELSE files[f]]
  <2>2. new \in FileSets
    BY <2>1 DEF FileSets
  <2>3. staged' = [staged EXCEPT ![j] = new]
    BY <1>2 DEF StageFile, TypeOK
  <2> HIDE DEF new
  <2> QED BY <2>2, <2>3 DEF TypeOK
<1>3. PreviewInputs(j) => staged' \in [Jobs -> FileSets]
  BY <1>2 DEF PreviewInputs, Files
<1> QED BY <1>1, <1>3 DEF Prepares, PreviewInputs, BeginPreview, StageFile

(* A statement of a goroutine changes its own record alone, and leaves it  *)
(* at work, with the job running, or ends its job.                         *)
LEMMA Moves ==
  ASSUME TypeOK, NEW j \in Jobs, Replace(j)
  PROVE  /\ im' \in [Jobs -> ImStates]
         /\ \A i \in Jobs : i # j => im'[i] = im[i]
         /\ im[j].pc # "idle"
         /\ \/ Busy(j) /\ Busy(j)' /\ UNCHANGED <<running, job>>
            \/ ~Busy(j) /\ ~Busy(j)' /\ UNCHANGED <<running, job>>
            \/ /\ Busy(j) /\ ~Busy(j)' /\ ~running'
               /\ \E state \in {"completed", "failed"} : job' = [job EXCEPT ![j] = state]
<1> USE DEF Busy
<1>0. im[j] \in ImStates /\ im \in [Jobs -> ImStates]
  BY DEF TypeOK, ImStates
<1>1. ASSUME NEW pc \in PCs, Goto(j, pc), im[j].pc \notin {"idle", "defer"},
             pc \notin {"idle", "defer"}, UNCHANGED <<running, job>>
      PROVE  /\ im' \in [Jobs -> ImStates]
             /\ \A i \in Jobs : i # j => im'[i] = im[i]
             /\ Busy(j) /\ Busy(j)' /\ UNCHANGED <<running, job>>
  BY <1>1, GotoStep
<1>2. ASSUME NEW r \in ImStates, im' = [im EXCEPT ![j] = r], im[j].pc \notin {"idle", "defer"},
             r.pc \notin {"idle", "defer"}, UNCHANGED <<running, job>>
      PROVE  /\ im' \in [Jobs -> ImStates]
             /\ \A i \in Jobs : i # j => im'[i] = im[i]
             /\ Busy(j) /\ Busy(j)' /\ UNCHANGED <<running, job>>
  BY <1>2, ImUpdate
<1>3. {"dataset", "outbox", "rows", "load", "am", "eu", "seed", "clean", "mirror", "reopen",
       "undo", "restore", "unlock", "complete", "defer", "fail", "idle", "matrix", "gate"} = PCs
  BY DEF PCs, Steps
<1>4. CASE Gate(j)
  <2> DEFINE r == [Idle EXCEPT !.pc = "matrix", !.old = files]
  <2>1. r \in ImStates /\ r.pc = "matrix"
    BY <1>3, IdleType DEF ImStates, TypeOK
  <2>2. im' = [im EXCEPT ![j] = r] /\ im[j].pc = "gate" /\ UNCHANGED <<running, job>>
    BY <1>4 DEF Gate, At
  <2> HIDE DEF r
  <2> QED BY <1>2, <2>1, <2>2
<1>5. CASE ReplaceMatrix(j)
  <2>1. AfterMatrix(j) \in ImStates /\ AfterMatrix(j).pc = "dataset"
    BY <1>0, <1>3 DEF ImStates, AfterMatrix
  <2>2. im' = [im EXCEPT ![j] = AfterMatrix(j)] /\ im[j].pc = "matrix" /\ UNCHANGED <<running, job>>
    BY <1>5 DEF ReplaceMatrix, At
  <2> QED BY <1>2, <2>1, <2>2
<1>6. CASE ReplaceDataset(j)
  BY <1>1, <1>3, <1>6 DEF ReplaceDataset, At
<1>7. CASE ClearOutbox(j)
  <2> DEFINE r == [im[j] EXCEPT !.pc = "rows", !.cleared = events]
  <2>1. r \in ImStates /\ r.pc = "rows"
    BY <1>0, <1>3 DEF ImStates, TypeOK
  <2>2. im' = [im EXCEPT ![j] = r] /\ im[j].pc = "outbox" /\ UNCHANGED <<running, job>>
    BY <1>7 DEF ClearOutbox, At
  <2> HIDE DEF r
  <2> QED BY <1>2, <2>1, <2>2
<1>8. CASE ClearRows(j)
  BY <1>1, <1>3, <1>8 DEF ClearRows, At
<1>9. CASE Load(j)
  <2> DEFINE r == [im[j] EXCEPT !.pc = "am", !.loaded = files]
  <2>1. r \in ImStates /\ r.pc = "am"
    BY <1>0, <1>3 DEF ImStates, TypeOK
  <2>2. im' = [im EXCEPT ![j] = r] /\ im[j].pc = "load" /\ UNCHANGED <<running, job>>
    BY <1>9 DEF Load, At
  <2> HIDE DEF r
  <2> QED BY <1>2, <2>1, <2>2
<1>10. CASE CommitAmerica(j)
  <2> DEFINE r == [im[j] EXCEPT !.pc = "eu", !.committing = TRUE]
  <2>1. r \in ImStates /\ r.pc = "eu"
    BY <1>0, <1>3 DEF ImStates
  <2>2. im' = [im EXCEPT ![j] = r] /\ im[j].pc = "am" /\ UNCHANGED <<running, job>>
    BY <1>10 DEF CommitAmerica, At
  <2> HIDE DEF r
  <2> QED BY <1>2, <2>1, <2>2
<1>11. CASE CommitEurope(j)
  BY <1>1, <1>3, <1>11 DEF CommitEurope, At
<1>12. CASE SeedMatrices(j)
  <2>1. \E pc \in {"clean", "undo"} : Goto(j, pc)
    BY <1>12 DEF SeedMatrices
  <2> QED BY <1>1, <1>3, <1>12, <2>1 DEF SeedMatrices, At
<1>13. CASE CleanMongo(j)
  BY <1>1, <1>3, <1>13 DEF CleanMongo, At
<1>14. CASE MirrorMongo(j)
  <2>1. \E pc \in {"reopen", "undo"} : Goto(j, pc)
    BY <1>14 DEF MirrorMongo
  <2> QED BY <1>1, <1>3, <1>14, <2>1 DEF MirrorMongo, At
<1>15. CASE Fail(j)
  <2>1. Failed(j) \in ImStates /\ Failed(j).pc = "undo"
    <3>1. "undo" \in PCs
      BY <1>3
    <3> DEFINE c == im[j].committing \/ At(j, "am")
               o == IF At(j, "gate") THEN files ELSE im[j].old
    <3>2. Failed(j) = [im[j] EXCEPT !.pc = "undo", !.committing = c, !.old = o]
      BY <1>0 DEF ImStates, Failed
    <3>3. c \in BOOLEAN /\ o \in FileSets
      BY <1>0 DEF ImStates, TypeOK
    <3> HIDE DEF c, o
    <3> QED BY <1>0, <3>1, <3>2, <3>3 DEF ImStates
  <2>2. /\ im' = [im EXCEPT ![j] = Failed(j)] /\ UNCHANGED <<running, job>>
        /\ im[j].pc \notin {"idle", "defer"}
    BY <1>15 DEF Fail, Steps
  <2> QED BY <1>2, <2>1, <2>2
<1>16. CASE Undo(j)
  <2>1. PICK f \in Files : \E to \in {"restore", "unlock"} : RestoreFile(j, f, to)
    BY <1>16, AfterSteps DEF Undo, Files
  <2>2. PICK to \in {"restore", "unlock"} : RestoreFile(j, f, to)
    BY <2>1
  <2>3. im[j].pc \notin {"idle", "defer"} /\ UNCHANGED <<running, job>>
    BY <1>16, <2>2 DEF Undo, At, RestoreFile
  <2>4. CASE Goto(j, to)
    BY <1>1, <1>3, <2>3, <2>4
  <2>5. CASE im' = [im EXCEPT ![j].pc = to, ![j].unrestored = @ \union {f}]
    <3> DEFINE r == [im[j] EXCEPT !.pc = to, !.unrestored = @ \union {f}]
    <3>1. r \in ImStates /\ r.pc = to
      BY <1>0, <1>3 DEF ImStates
    <3>2. im' = [im EXCEPT ![j] = r]
      BY <1>0, <2>5
    <3> HIDE DEF r
    <3> QED BY <1>2, <2>3, <3>1, <3>2
  <2> QED BY <2>2, <2>4, <2>5 DEF RestoreFile
<1>17. CASE OpenGate(j)
  <2>1. UNCHANGED <<running, job>>
    BY <1>17 DEF OpenGate
  <2>2. \/ im[j].pc = "reopen" /\ Goto(j, "complete")
        \/ im[j].pc = "defer" /\ Goto(j, "idle")
        \/ im[j].pc = "unlock" /\ Goto(j, "fail")
    BY <1>17, AfterSteps DEF OpenGate
  <2>3. CASE im[j].pc = "defer" /\ Goto(j, "idle")
    BY <1>3, <2>1, <2>3, GotoStep
  <2> QED BY <1>1, <1>3, <2>1, <2>2, <2>3
<1>18. CASE EndJob(j)
  <2>1. \E state \in {"completed", "failed"} : job' = [job EXCEPT ![j] = state]
    BY <1>18 DEF EndJob, FinalState
  <2>2. ~running' /\ im[j].pc \in {"complete", "fail"}
    BY <1>18 DEF EndJob
  <2>3. \E pc \in {"idle", "defer"} : Goto(j, pc)
    BY <1>18, AfterSteps DEF EndJob
  <2> QED BY <1>3, <2>1, <2>2, <2>3, GotoStep
<1> QED BY <1>4, <1>5, <1>6, <1>7, <1>8, <1>9, <1>10, <1>11, <1>12, <1>13, <1>14, <1>15,
           <1>16, <1>17, <1>18 DEF Replace

(* What the deferred restoring of one file makes of the goroutine, and of  *)
(* the files.                                                              *)
LEMMA RestoreStep ==
  ASSUME TypeOK, NEW j \in Jobs, NEW f \in Files, NEW to \in {"restore", "unlock"},
         RestoreFile(j, f, to)
  PROVE  /\ im'[j].pc = to
         /\ im'[j].old = im[j].old /\ im'[j].replaced = im[j].replaced
         /\ im'[j].committing = im[j].committing
         /\ \A g \in Files \ {f} : files'[g] = files[g]
         /\ \A g \in Files \ {f} : g \in im'[j].unrestored <=> g \in im[j].unrestored
         /\ RestoresFiles(j) => f \in im'[j].unrestored \/ files'[f] = im[j].old[f]
         /\ ~RestoresFiles(j) => UNCHANGED files
         /\ UNCHANGED flights
<1>1. im \in [Jobs -> ImStates] /\ im[j] \in ImStates /\ files \in FileSets
  BY DEF TypeOK, ImStates
<1>2. to \in PCs /\ to # "idle"
  BY DEF PCs, Steps
<1>3. ASSUME Goto(j, to)
      PROVE  /\ im'[j].pc = to
             /\ im'[j].old = im[j].old /\ im'[j].replaced = im[j].replaced
             /\ im'[j].committing = im[j].committing
             /\ im'[j].unrestored = im[j].unrestored
  <2>1. im'[j] = [im[j] EXCEPT !.pc = to]
    BY <1>2, <1>3, GotoStep
  <2> QED BY <1>1, <2>1 DEF ImStates
<1>4. ASSUME im' = [im EXCEPT ![j].pc = to, ![j].unrestored = @ \union {f}]
      PROVE  /\ im'[j].pc = to
             /\ im'[j].old = im[j].old /\ im'[j].replaced = im[j].replaced
             /\ im'[j].committing = im[j].committing
             /\ im'[j].unrestored = im[j].unrestored \union {f}
  <2>1. im'[j] = [im[j] EXCEPT !.pc = to, !.unrestored = @ \union {f}]
    BY <1>1, <1>4
  <2> QED BY <1>1, <2>1 DEF ImStates
<1>5. UNCHANGED flights
  BY DEF RestoreFile, dataVars
<1>6. ASSUME files' = [files EXCEPT ![f] = im[j].old[f]]
      PROVE  files'[f] = im[j].old[f] /\ \A g \in Files \ {f} : files'[g] = files[g]
  BY <1>1, <1>6 DEF FileSets
<1> QED BY <1>3, <1>4, <1>5, <1>6 DEF RestoreFile

LEMMA UndoStep ==
  ASSUME TypeOK, NEW j \in Jobs, Undo(j)
  PROVE  \/ /\ im[j].pc = "undo" /\ im'[j].pc = "restore"
            /\ RestoreFile(j, "matrix", "restore")
         \/ /\ im[j].pc = "restore" /\ im'[j].pc = "unlock"
            /\ RestoreFile(j, "dataset", "unlock")
BY RestoreStep, AfterSteps DEF Undo, At, Files

(* The statements of a goroutine keep the types. *)
LEMMA ReplaceType == ASSUME TInv, NEW j \in Jobs, Replace(j) PROVE TInv'
<1> USE DEF TInv
<1>1. UNCHANGED otherVars
  BY DEF Replace, Gate, ReplaceMatrix, ReplaceDataset, ClearOutbox, ClearRows, Load, CommitAmerica,
         CommitEurope, SeedMatrices, CleanMongo, MirrorMongo, Fail, Undo, RestoreFile, OpenGate, EndJob
<1>2. /\ WritersInv' /\ restarts' \in 0 .. MaxRestarts /\ written' \in 0 .. MaxEvents
      /\ writer' \in [Writers -> {"idle", "passed", "tx"}]
      /\ worker' \in [event : Events \union {0}, left : SUBSET Stores, ok : BOOLEAN]
      /\ prune' \in [pc : {"idle", "read", "delete"}, ids : SUBSET FileSets]
  BY <1>1 DEF otherVars, WritersInv, TypeOK
<1>3. im' \in [Jobs -> ImStates] /\ job' \in [Jobs -> JobStates] /\ running' \in BOOLEAN
  <2>1. im' \in [Jobs -> ImStates]
    BY Moves
  <2>2. job' = job \/ \E state \in {"completed", "failed"} : job' = [job EXCEPT ![j] = state]
    BY Moves
  <2>3. running' = running \/ ~running'
    BY Moves
  <2>4. running' \in BOOLEAN
    BY <2>3 DEF TypeOK, Replace, Gate, ReplaceMatrix, ReplaceDataset, ClearOutbox, ClearRows, Load,
           CommitAmerica, CommitEurope, SeedMatrices, CleanMongo, MirrorMongo, Fail, Undo, RestoreFile, OpenGate, EndJob
  <2> QED BY <2>1, <2>2, <2>4 DEF TypeOK, JobStates
<1>4. staged' \in [Jobs -> FileSets]
  BY DEF TypeOK, Replace, Gate, ReplaceMatrix, ReplaceDataset, ClearOutbox, ClearRows, Load, CommitAmerica,
         CommitEurope, SeedMatrices, CleanMongo, MirrorMongo, Fail, Undo, RestoreFile, OpenGate, EndJob
<1>5. active' \in BOOLEAN
  <2>1. active' \in {active, TRUE, FALSE}
    BY DEF TypeOK, Replace, Gate, ReplaceMatrix, ReplaceDataset, ClearOutbox, ClearRows, Load,
           CommitAmerica, CommitEurope, SeedMatrices, CleanMongo, MirrorMongo, Fail, Undo, RestoreFile, OpenGate, EndJob
  <2> QED BY <2>1 DEF TypeOK
<1>6. files' \in FileSets
  <2>1. \/ files' = files
        \/ \E f \in Files : files' = [files EXCEPT ![f] = im[j].old[f]]
        \/ \E f \in Files : UseFile(j, f)
    BY DEF Files, Replace, Gate, ReplaceMatrix, ReplaceDataset, ClearOutbox, ClearRows, Load,
           CommitAmerica, CommitEurope, SeedMatrices, CleanMongo, MirrorMongo, Fail, Undo, RestoreFile, OpenGate, EndJob
  <2>2. im[j].old \in FileSets
    BY DEF TypeOK
  <2>3. \A f \in Files : UseFile(j, f) \/ files' = [files EXCEPT ![f] = im[j].old[f]]
                           => files' \in FileSets
    BY <2>2 DEF UseFile, TypeOK, FileSets
  <2> QED BY <2>1, <2>3 DEF TypeOK
<1>7. fares' \in [PGs -> Jobs \union {0}]
  <2>1. CASE SeedMatrices(j)
    <3>1. files["matrix"] \in Jobs \union {0}
      BY DEF TypeOK, FileSets, Files
    <3>2. PICK seeded \in SUBSET PGs :
            fares' = [d \in PGs |-> IF d \in seeded THEN files["matrix"] ELSE fares[d]]
      BY <2>1 DEF SeedMatrices
    <3> QED BY <3>1, <3>2 DEF TypeOK
  <2>2. CASE UNCHANGED fares
    BY <2>2 DEF TypeOK
  <2> QED BY <2>1, <2>2
          DEF Replace, Gate, ReplaceMatrix, ReplaceDataset, ClearOutbox, ClearRows, Load,
              CommitAmerica, CommitEurope, CleanMongo, MirrorMongo, Fail, Undo, RestoreFile, OpenGate, EndJob
<1>8. flights' \in [Stores -> SUBSET FileSets]
  <2>1. \/ UNCHANGED flights
        \/ \E s \in Stores : \E F \in SUBSET FileSets : flights' = [flights EXCEPT ![s] = F]
    <3>1. /\ im[j].loaded \in FileSets
          /\ flights["AM"] \union flights["EU"] \in SUBSET FileSets
      BY DEF TypeOK
    <3>2. {im[j].loaded} \in SUBSET FileSets /\ {} \in SUBSET FileSets
      BY <3>1
    <3>3. CASE CommitAmerica(j)
      BY <3>2, <3>3 DEF CommitAmerica
    <3>4. CASE CommitEurope(j)
      BY <3>2, <3>4 DEF CommitEurope
    <3>5. CASE CleanMongo(j)
      BY <3>2, <3>5 DEF CleanMongo
    <3>6. CASE MirrorMongo(j)
      BY <3>1, <3>6 DEF MirrorMongo
    <3> QED BY <3>3, <3>4, <3>5, <3>6
            DEF Replace, Gate, ReplaceMatrix, ReplaceDataset, ClearOutbox, ClearRows, Load,
                SeedMatrices, Fail, Undo, RestoreFile, OpenGate, EndJob, dataVars
  <2> QED BY <2>1 DEF TypeOK
<1>9. holders' \subseteq Stores
  <2>1. holders' \subseteq holders \union InMongo
    BY DEF Replace, Gate, ReplaceMatrix, ReplaceDataset, ClearOutbox, ClearRows, Load, CommitAmerica,
           CommitEurope, SeedMatrices, CleanMongo, MirrorMongo, Fail, Undo, RestoreFile, OpenGate, EndJob, dataVars
  <2> QED BY <2>1 DEF TypeOK, InMongo
<1>10. events' \subseteq Events
  <2>1. events' \subseteq events
    BY DEF Replace, Gate, ReplaceMatrix, ReplaceDataset, ClearOutbox, ClearRows, Load, CommitAmerica,
           CommitEurope, SeedMatrices, CleanMongo, MirrorMongo, Fail, Undo, RestoreFile, OpenGate, EndJob, dataVars
  <2> QED BY <2>1 DEF TypeOK
<1> QED BY <1>2, <1>3, <1>4, <1>5, <1>6, <1>7, <1>8, <1>9, <1>10 DEF TypeOK, ImStates

LEMMA NextTInv == TInv /\ [Next]_vars => TInv'
<1> SUFFICES ASSUME TInv, [Next]_vars PROVE TInv'
  OBVIOUS
<1> USE DEF TInv
<1>1. ASSUME NEW j \in Jobs, Prepares(j) PROVE TInv'
  <2>1. job' \in [Jobs -> JobStates]
    BY <1>1, PreviewStep DEF TypeOK, JobStates
  <2>2. /\ staged' \in [Jobs -> FileSets]
        /\ UNCHANGED <<running, active, files, im, fares, dataVars, otherVars>>
    BY <1>1, PreviewStep
  <2>3. WritersInv'
    BY <2>2 DEF WritersInv, otherVars
  <2> QED BY <2>1, <2>2, <2>3 DEF TypeOK, dataVars, otherVars
<1>2. ASSUME NEW j \in Jobs, StartInputJob(j) PROVE TInv'
  <2>1. im' \in [Jobs -> ImStates]
    <3>1. "gate" \in PCs
      BY DEF PCs, Steps
    <3> QED BY <1>2, <3>1, GotoStep DEF StartInputJob
  <2>2. job' \in [Jobs -> JobStates]
    BY <1>2 DEF StartInputJob, TypeOK, JobStates
  <2> QED BY <1>2, <2>1, <2>2 DEF StartInputJob, TypeOK, WritersInv, dataVars, otherVars, ImStates
<1>3. ASSUME NEW j \in Jobs, Replace(j) PROVE TInv'
  BY <1>3, ReplaceType
<1>4. ASSUME NEW w \in Writers, Arrive(w) PROVE TInv'
  BY <1>4 DEF Arrive, TypeOK, WritersInv, importVars, dataVars
<1>5. ASSUME NEW w \in Writers, LockTicket(w) PROVE TInv'
  <2>1. UNCHANGED <<importVars, dataVars, written, worker, prune, restarts>>
    BY <1>5 DEF LockTicket
  <2>2. PICK state \in {"tx", "idle"} :
          /\ writer' = [writer EXCEPT ![w] = state]
          /\ state = "tx" => written < MaxEvents
    BY <1>5 DEF LockTicket
  <2>3. writer' \in [Writers -> {"idle", "passed", "tx"}]
    BY <2>2 DEF TypeOK
  <2>4. WritersInv'
    <3>1. \A v \in Writers : v # w => writer'[v] # "tx"
      BY <1>5, <2>2 DEF LockTicket, TicketFree, TypeOK
    <3> QED BY <2>1, <2>2, <3>1 DEF WritersInv, TypeOK
  <2> QED BY <2>1, <2>3, <2>4 DEF TypeOK, importVars, dataVars
<1>6. ASSUME NEW w \in Writers, CommitTicket(w) PROVE TInv'
  <2>1. written' \in 0 .. MaxEvents /\ written' \in Events
    BY <1>6 DEF CommitTicket, TypeOK, WritersInv, Events
  <2>2. events' \subseteq Events
    BY <1>6, <2>1 DEF CommitTicket, TypeOK
  <2>3. WritersInv' /\ writer' \in [Writers -> {"idle", "passed", "tx"}]
    BY <1>6 DEF CommitTicket, TypeOK, WritersInv
  <2> QED BY <1>6, <2>1, <2>2, <2>3 DEF CommitTicket, TypeOK, importVars
<1>7. ASSUME NEW e \in Events, Claim(e) PROVE TInv'
  BY <1>7 DEF Claim, TypeOK, WritersInv, importVars, dataVars
<1>8. ASSUME NEW s \in Stores, Apply(s) PROVE TInv'
  <2>1. worker' \in [event : Events \union {0}, left : SUBSET Stores, ok : BOOLEAN]
    <3>1. /\ worker.event \in Events \union {0} /\ worker.left \ {s} \in SUBSET Stores
          /\ worker.ok \in BOOLEAN
          /\ worker = [event |-> worker.event, left |-> worker.left, ok |-> worker.ok]
      BY DEF TypeOK
    <3>2. \/ worker' = [worker EXCEPT !.left = @ \ {s}]
          \/ worker' = [worker EXCEPT !.left = @ \ {s}, !.ok = FALSE]
      BY <1>8 DEF Apply
    <3>3. \E ok \in BOOLEAN : worker' = [event |-> worker.event, left |-> worker.left \ {s}, ok |-> ok]
      BY <3>1, <3>2
    <3> QED BY <3>1, <3>3
  <2>2. holders' \subseteq Stores
    BY <1>8 DEF Apply, TypeOK
  <2> QED BY <1>8, <2>1, <2>2 DEF Apply, TypeOK, WritersInv, importVars
<1>9. CASE MarkDelivered
  BY <1>9 DEF MarkDelivered, TypeOK, WritersInv, importVars, NotDelivering
<1>10. CASE Restart
  <2>1. im' \in [Jobs -> ImStates]
    BY <1>10, IdleType DEF Restart
  <2>2. job' \in [Jobs -> JobStates]
    BY <1>10 DEF Restart, JobStates
  <2>3. /\ running' = FALSE /\ active' = FALSE
        /\ UNCHANGED <<staged, files, holders, events, written>>
    BY <1>10 DEF Restart
  <2>8. restarts' \in 0 .. MaxRestarts
    BY <1>10 DEF Restart, TypeOK
  <2>4. writer' \in [Writers -> {"idle", "passed", "tx"}] /\ WritersInv'
    BY <1>10 DEF Restart, WritersInv
  <2>5. fares' \in [PGs -> Jobs \union {0}]
    <3>1. files["matrix"] \in Jobs \union {0}
      BY DEF TypeOK, FileSets, Files
    <3>2. PICK priced \in SUBSET PGs :
            fares' = [d \in PGs |-> IF d \in priced THEN files["matrix"] ELSE fares[d]]
      BY <1>10 DEF Restart
    <3> QED BY <3>1, <3>2 DEF TypeOK
  <2>6. flights' \in [Stores -> SUBSET FileSets]
    <3>1. PICK seeded \in SUBSET PGs :
            flights' = [s \in Stores |-> IF s \in seeded THEN flights[s] \union {files}
                                                         ELSE flights[s]]
      BY <1>10 DEF Restart
    <3> QED BY <3>1 DEF TypeOK
  <2>7. /\ worker' \in [event : Events \union {0}, left : SUBSET Stores, ok : BOOLEAN]
        /\ prune' \in [pc : {"idle", "read", "delete"}, ids : SUBSET FileSets]
    BY <1>10 DEF Restart, NotDelivering, NotPruning
  <2> QED BY <2>1, <2>2, <2>3, <2>4, <2>5, <2>6, <2>7, <2>8 DEF TypeOK, ImStates
<1>11. CASE BootstrapMongo
  <2>1. UNION {flights[s] : s \in Stores} \in SUBSET FileSets
    BY DEF TypeOK
  <2>2. flights' \in [Stores -> SUBSET FileSets]
    BY <1>11, <2>1 DEF BootstrapMongo, TypeOK
  <2>3. holders' \subseteq Stores
    BY <1>11 DEF BootstrapMongo, TypeOK, InMongo
  <2> QED BY <1>11, <2>2, <2>3 DEF BootstrapMongo, TypeOK, WritersInv, importVars, otherVars
<1>12. CASE PruneRead
  <2>1. prune' \in [pc : {"idle", "read", "delete"}, ids : SUBSET FileSets]
    BY <1>12 DEF PruneRead, TypeOK
  <2> QED BY <1>12, <2>1 DEF PruneRead, TypeOK, WritersInv, importVars, dataVars
<1>13. CASE PruneDelete
  <2>1. flights' \in [Stores -> SUBSET FileSets]
    BY <1>13 DEF PruneDelete, TypeOK
  <2>2. prune' \in [pc : {"idle", "read", "delete"}, ids : SUBSET FileSets]
    BY <1>13 DEF PruneDelete, NotPruning
  <2> QED BY <1>13, <2>1, <2>2 DEF PruneDelete, TypeOK, WritersInv, importVars
<1>14. CASE UNCHANGED vars
  BY <1>14 DEF vars, importVars, dataVars, otherVars, TypeOK, WritersInv
<1> QED BY <1>1, <1>2, <1>3, <1>4, <1>5, <1>6, <1>7, <1>8, <1>9, <1>10, <1>11, <1>12, <1>13, <1>14
        DEF Next, Prepares

(* The variables of a replacement keep their types, whatever fails: the    *)
(* changes of the ticket are made one after the other.                     *)
THEOREM ImportTypeCorrect == Spec => []TypeOK
<1>1. TInv => TypeOK
  BY DEF TInv
<1> QED BY <1>1, InitTInv, NextTInv, PTL DEF Spec
-----------------------------------------------------------------------------
(* Only the job that runs has a goroutine at work (inputJobs.running), and *)
(* a job that was not started has none.                                    *)
JobsInv ==
  /\ \A j \in Jobs : job[j] \in {"none", "checked", "half", "preview"} => im[j] = Idle
  /\ \A j \in Jobs : Busy(j) => running
  /\ \A i, j \in Jobs : Busy(i) /\ Busy(j) => i = j

LEMMA InitJobsInv == Init => JobsInv
BY IdleType DEF Init, JobsInv, Busy

(* What a step that is not of a goroutine does with the jobs. *)
LEMMA Starts ==
  ASSUME TypeOK, JobsInv, NEW j \in Jobs, StartInputJob(j)
  PROVE  /\ im'[j] = [Idle EXCEPT !.pc = "gate"]
         /\ \A i \in Jobs : i # j => im'[i] = im[i] /\ ~Busy(i) /\ job'[i] = job[i]
         /\ running' /\ job'[j] = "running"
<1>1. im[j] = Idle
  BY DEF StartInputJob, MayStart, JobsInv
<1>2. "gate" \in PCs
  BY DEF PCs, Steps
<1>3. \A i \in Jobs : ~Busy(i)
  BY DEF StartInputJob, MayStart, JobsInv
<1> QED BY <1>1, <1>2, <1>3, GotoStep DEF StartInputJob, TypeOK

LEMMA NextJobsInv == TypeOK /\ JobsInv /\ [Next]_vars => JobsInv'
<1> SUFFICES ASSUME TypeOK, JobsInv, [Next]_vars PROVE JobsInv'
  OBVIOUS
<1>1. ASSUME NEW j \in Jobs, Replace(j) PROVE JobsInv'
  <2>1. job[j] \notin {"none", "checked", "half", "preview"}
    BY <1>1, Moves, IdleType DEF JobsInv
  <2>2. \A i \in Jobs : i # j => im'[i] = im[i]
    BY <1>1, Moves
  <2>3. CASE Busy(j) /\ Busy(j)' /\ UNCHANGED <<running, job>>
    BY <2>1, <2>2, <2>3 DEF JobsInv, Busy
  <2>4. CASE ~Busy(j) /\ ~Busy(j)' /\ UNCHANGED <<running, job>>
    BY <2>1, <2>2, <2>4 DEF JobsInv, Busy
  <2>5. CASE /\ Busy(j) /\ ~Busy(j)' /\ ~running'
             /\ \E state \in {"completed", "failed"} : job' = [job EXCEPT ![j] = state]
    <3>1. job'[j] \notin {"none", "checked", "half", "preview"} /\ \A i \in Jobs : i # j => job'[i] = job[i]
      BY <2>5 DEF TypeOK
    <3>2. \A i \in Jobs : ~Busy(i)'
      BY <2>2, <2>5 DEF JobsInv, Busy
    <3> QED BY <2>2, <3>1, <3>2 DEF JobsInv
  <2> QED BY <1>1, <2>3, <2>4, <2>5, Moves
<1>2. ASSUME NEW j \in Jobs, StartInputJob(j) PROVE JobsInv'
  <2>1. \A i \in Jobs : i # j => im'[i] = im[i] /\ ~Busy(i)' /\ job'[i] = job[i]
    BY <1>2, Starts DEF Busy
  <2>2. running' /\ job'[j] = "running"
    BY <1>2, Starts
  <2> QED BY <2>1, <2>2 DEF JobsInv
<1>3. ASSUME NEW j \in Jobs, Prepares(j) PROVE JobsInv'
  <2>1. im[j] = Idle /\ UNCHANGED <<im, running>>
    BY <1>3, PreviewStep DEF JobsInv
  <2>2. \A i \in Jobs : i # j => job'[i] = job[i]
    BY <1>3, PreviewStep DEF TypeOK
  <2> QED BY <2>1, <2>2 DEF JobsInv, Busy
<1>4. CASE Restart
  <2>1. \A j \in Jobs : im'[j] = Idle
    BY <1>4 DEF Restart
  <2> QED BY <2>1, IdleType DEF JobsInv, Busy
<1>5. CASE UNCHANGED <<job, running, im>>
  BY <1>5 DEF JobsInv, Busy
<1> QED BY <1>1, <1>2, <1>3, <1>4, <1>5
        DEF Next, Prepares, Arrive, LockTicket, CommitTicket, Claim, Apply, MarkDelivered,
            BootstrapMongo, PruneRead, PruneDelete, vars, importVars

LEMMA SpecJobsInv == Spec => [](TInv /\ JobsInv)
<1>1. TInv => TypeOK
  BY DEF TInv
<1> QED BY <1>1, InitTInv, NextTInv, InitJobsInv, NextJobsInv, PTL DEF Spec

(* Two replacements never work at once, however jobs are previewed,        *)
(* started, fail and are lost (startInputJob, runInputJob).                *)
THEOREM ReplacementsExclude == Spec => []OneReplacementAtATime
<1>1. \A j \in Jobs : Replacing(j) => Busy(j)
  BY DEF Replacing, Busy, Steps
<1>2. JobsInv => OneReplacementAtATime
  BY <1>1 DEF JobsInv, OneReplacementAtATime
<1> QED BY <1>2, SpecJobsInv, PTL
-----------------------------------------------------------------------------
(* The rows of a replacement stay locked from its deletion to its commit,  *)
(* so that no ticket is changed between the two.                           *)
TicketInv ==
  /\ LockedTicketStays
  /\ \A j \in Jobs : im[j].pc \in {"load", "am"} => TicketFree

LEMMA NextTicketInv == TypeOK /\ TicketInv /\ [Next]_vars => TicketInv'
<1> SUFFICES ASSUME TypeOK, TicketInv, [Next]_vars PROVE TicketInv'
  OBVIOUS
<1> USE DEF TicketInv
<1>1. ASSUME NEW j \in Jobs, Replace(j) PROVE TicketInv'
  <2>1. UNCHANGED writer
    BY <1>1 DEF Replace, Gate, ReplaceMatrix, ReplaceDataset, ClearOutbox, ClearRows, Load, CommitAmerica,
           CommitEurope, SeedMatrices, CleanMongo, MirrorMongo, Fail, Undo, RestoreFile, OpenGate, EndJob, otherVars
  <2>2. \A i \in Jobs : i # j => im'[i] = im[i]
    BY <1>1, Moves
  <2>3. im'[j].pc \in {"load", "am"} => TicketFree
    <3>1. im'[j].pc \in {"load", "am"} => ClearRows(j) \/ im[j].pc \in {"load", "am"}
      <4>1. CASE Load(j)
        BY <4>1 DEF Load, At
      <4>2. CASE ReplaceMatrix(j)
        BY <4>2 DEF ReplaceMatrix, AfterMatrix, TypeOK
      <4>3. CASE Gate(j)
        <5>1. im'[j].pc = "matrix"
          BY <4>3 DEF Gate, Idle, TypeOK
        <5> QED BY <5>1
      <4>9. CASE ClearOutbox(j)
        <5>1. im'[j].pc = "rows"
          BY <4>9 DEF ClearOutbox, TypeOK
        <5> QED BY <5>1
      <4>10. CASE CommitAmerica(j)
        <5>1. im'[j].pc = "eu"
          BY <4>10 DEF CommitAmerica, TypeOK
        <5> QED BY <5>1
      <4>11. CASE Fail(j)
        <5>1. im'[j].pc = "undo"
          BY <4>11 DEF Fail, Failed, TypeOK
        <5> QED BY <5>1
      <4>4. CASE \E pc \in PCs \ {"load", "am"} : Goto(j, pc)
        BY <4>4, GotoStep
      <4>5. {"outbox", "seed", "clean", "mirror", "undo", "reopen", "unlock", "complete", "fail",
             "idle", "defer"} \subseteq PCs \ {"load", "am"}
        BY DEF PCs, Steps
      <4>6. CASE SeedMatrices(j) \/ MirrorMongo(j) \/ EndJob(j)
        BY <4>4, <4>5, <4>6, AfterSteps DEF SeedMatrices, MirrorMongo, EndJob
      <4>7. CASE OpenGate(j)
        BY <4>4, <4>5, <4>7, AfterSteps DEF OpenGate
      <4>8. CASE ReplaceDataset(j) \/ CommitEurope(j) \/ CleanMongo(j)
        BY <4>4, <4>5, <4>8 DEF ReplaceDataset, CommitEurope, CleanMongo
      <4>12. CASE Undo(j)
        <5>1. im'[j].pc \in {"restore", "unlock"}
          BY <4>12, UndoStep
        <5> QED BY <5>1
      <4> QED BY <1>1, <4>1, <4>2, <4>3, <4>6, <4>7, <4>8, <4>9, <4>10, <4>11, <4>12 DEF Replace
    <3> QED BY <3>1 DEF ClearRows
  <2>4. TicketFree' = TicketFree
    BY <2>1 DEF TicketFree
  <2>5. "AM" \in holders /\ "AM" \notin holders' => CommitAmerica(j)
    BY <1>1 DEF Replace, Gate, ReplaceMatrix, ReplaceDataset, ClearOutbox, ClearRows, Load,
           CommitEurope, SeedMatrices, CleanMongo, MirrorMongo, Fail, Undo, RestoreFile, OpenGate, EndJob, dataVars
  <2>6. CommitAmerica(j) => TicketFree
    BY DEF CommitAmerica, At
  <2> QED BY <2>1, <2>2, <2>3, <2>4, <2>5, <2>6 DEF LockedTicketStays, TicketFree
<1>2. ASSUME NEW j \in Jobs, StartInputJob(j) PROVE TicketInv'
  <2>1. "gate" \in PCs
    BY DEF PCs, Steps
  <2>2. im'[j].pc = "gate" /\ \A i \in Jobs : i # j => im'[i] = im[i]
    BY <1>2, <2>1, GotoStep DEF StartInputJob
  <2> QED BY <1>2, <2>2 DEF StartInputJob, LockedTicketStays, TicketFree, dataVars, otherVars
<1>3. ASSUME NEW w \in Writers, LockTicket(w) PROVE TicketInv'
  <2>1. \A j \in Jobs : im[j].pc \notin {"load", "am"}
    BY <1>3 DEF LockTicket, Locked
  <2>2. \A v \in Writers : v # w => writer'[v] = writer[v] /\ writer[v] # "tx"
    BY <1>3 DEF LockTicket, TicketFree, TypeOK
  <2>3. writer'[w] = "tx" => "AM" \in holders
    BY <1>3 DEF LockTicket, TypeOK
  <2> QED BY <1>3, <2>1, <2>2, <2>3 DEF LockTicket, LockedTicketStays, importVars, dataVars
<1>4. ASSUME NEW w \in Writers, Arrive(w) \/ CommitTicket(w) PROVE TicketInv'
  <2>1. \A v \in Writers : writer'[v] = "tx" => writer[v] = "tx"
    BY <1>4 DEF Arrive, CommitTicket, TypeOK
  <2>2. UNCHANGED <<im, holders>>
    BY <1>4 DEF Arrive, CommitTicket, importVars, dataVars
  <2> QED BY <2>1, <2>2 DEF LockedTicketStays, TicketFree
<1>5. ASSUME UNCHANGED <<im, writer>>, holders \subseteq holders' PROVE TicketInv'
  BY <1>5 DEF LockedTicketStays, TicketFree
<1>6. CASE Restart
  <2>1. \A w \in Writers : writer'[w] = "idle"
    BY <1>6 DEF Restart
  <2> QED BY <2>1 DEF LockedTicketStays, TicketFree
<1>7. ASSUME NEW j \in Jobs, Prepares(j) PROVE TicketInv'
  BY <1>5, <1>7, PreviewStep DEF dataVars, otherVars
<1>8. ASSUME NEW e \in Events, Claim(e) PROVE TicketInv'
  BY <1>5, <1>8 DEF Claim, importVars, dataVars
<1>9. ASSUME NEW s \in Stores, Apply(s) PROVE TicketInv'
  BY <1>5, <1>9 DEF Apply, importVars
<1>10. CASE MarkDelivered \/ BootstrapMongo \/ PruneRead \/ PruneDelete
  BY <1>5, <1>10 DEF MarkDelivered, BootstrapMongo, PruneRead, PruneDelete, importVars, dataVars, otherVars
<1>11. CASE UNCHANGED vars
  BY <1>5, <1>11 DEF vars, importVars, dataVars, otherVars
<1> QED BY <1>1, <1>2, <1>3, <1>4, <1>6, <1>7, <1>8, <1>9, <1>10, <1>11 DEF Next, Prepares

(* No change of a ticket is answered with success and lost with its row:   *)
(* the deletion waits for the transactions that have locked it, and those  *)
(* that come later find the rows locked until the commit (resetPostgres).  *)
THEOREM TicketsStayLocked == Spec => []LockedTicketStays
<1>1. Init => TicketInv
  BY DEF Init, TicketInv, LockedTicketStays, TicketFree
<1>2. TInv => TypeOK
  BY DEF TInv
<1>3. TicketInv => LockedTicketStays
  BY DEF TicketInv
<1> QED BY <1>1, <1>2, <1>3, InitTInv, NextTInv, NextTicketInv, PTL DEF Spec
-----------------------------------------------------------------------------
(* What runInputJob knows at each statement: what replacedFiles and        *)
(* committing say, and, in its deferred functions, the files in use.       *)
Kept(j, F) == \A f \in F : f \in im[j].unrestored \/ files[f] = im[j].old[f]

FilesOf(j) ==
  /\ im[j].pc \in {"gate", "matrix"} => ~im[j].replaced /\ ~im[j].committing
  /\ im[j].pc = "matrix" => im[j].old = files
  /\ im[j].pc \in {"dataset", "outbox", "rows", "load", "am"} => im[j].replaced /\ ~im[j].committing
  /\ im[j].pc = "am" => im[j].loaded = files
  /\ im[j].pc \in {"eu", "seed", "clean", "mirror"} => im[j].committing /\ flights["AM"] = {files}
  /\ im[j].pc \in {"undo", "restore", "unlock", "fail"} /\ im[j].committing => flights["AM"] = {files}
  /\ im[j].pc = "undo" /\ ~im[j].committing => im[j].replaced \/ im[j].old = files
  /\ im[j].pc = "restore" /\ ~im[j].committing =>
       Kept(j, {"matrix"}) /\ (im[j].replaced \/ Kept(j, Files))
  /\ im[j].pc \in {"unlock", "fail"} /\ ~im[j].committing => Kept(j, Files)

FilesInv == \A j \in Jobs : FilesOf(j)

(* The statements of a goroutine that has files to answer for. *)
LEMMA ReplaceFiles ==
  ASSUME TypeOK, "am" \notin Fallible, NEW j \in Jobs, FilesOf(j), Replace(j), Busy(j)
  PROVE  FilesOf(j)'
<1> USE DEF FilesOf
<1>1. /\ im \in [Jobs -> ImStates] /\ im[j] \in ImStates /\ flights \in [Stores -> SUBSET FileSets]
      /\ files \in FileSets
  BY DEF TypeOK, ImStates
<1>2. CASE Gate(j)
  <2>1. im'[j] = [Idle EXCEPT !.pc = "matrix", !.old = files] /\ UNCHANGED files
    BY <1>1, <1>2 DEF Gate
  <2>2. /\ im'[j].pc = "matrix" /\ im'[j].old = files
        /\ ~im'[j].replaced /\ ~im'[j].committing
    BY <2>1 DEF Idle
  <2> QED BY <2>1, <2>2
<1>3. CASE ReplaceMatrix(j)
  <2>1. im'[j] = AfterMatrix(j) /\ im[j].pc = "matrix"
    BY <1>1, <1>3 DEF ReplaceMatrix, At
  <2>2. im'[j].pc = "dataset" /\ im'[j].replaced /\ im'[j].committing = im[j].committing
    BY <1>1, <2>1 DEF AfterMatrix, ImStates
  <2> QED BY <2>1, <2>2
<1>4. ASSUME NEW pc \in {"outbox", "load"}, Goto(j, pc), im[j].pc \in {"dataset", "rows"}
      PROVE  FilesOf(j)'
  <2>1. pc \in PCs /\ pc # "idle"
    BY DEF PCs, Steps
  <2>2. im'[j] = [im[j] EXCEPT !.pc = pc]
    BY <1>4, <2>1, GotoStep
  <2>3. /\ im'[j].pc = pc
        /\ im'[j].replaced = im[j].replaced /\ im'[j].committing = im[j].committing
    BY <1>1, <2>2 DEF ImStates
  <2> QED BY <1>4, <2>3
<1>5. CASE ReplaceDataset(j) \/ ClearRows(j)
  BY <1>4, <1>5 DEF ReplaceDataset, ClearRows, At
<1>6. CASE ClearOutbox(j)
  <2>1. im'[j] = [im[j] EXCEPT !.pc = "rows", !.cleared = events] /\ im[j].pc = "outbox"
    BY <1>1, <1>6 DEF ClearOutbox, At
  <2>2. /\ im'[j].pc = "rows"
        /\ im'[j].replaced = im[j].replaced /\ im'[j].committing = im[j].committing
    BY <1>1, <2>1 DEF ImStates
  <2> QED BY <2>1, <2>2
<1>7. CASE Load(j)
  <2>1. im'[j] = [im[j] EXCEPT !.pc = "am", !.loaded = files] /\ UNCHANGED files /\ im[j].pc = "load"
    BY <1>1, <1>7 DEF Load, At
  <2>2. /\ im'[j].pc = "am" /\ im'[j].loaded = files
        /\ im'[j].replaced = im[j].replaced /\ im'[j].committing = im[j].committing
    BY <1>1, <2>1 DEF ImStates
  <2> QED BY <2>1, <2>2
<1>8. CASE CommitAmerica(j)
  <2>1. im'[j] = [im[j] EXCEPT !.pc = "eu", !.committing = TRUE] /\ UNCHANGED files /\ im[j].pc = "am"
    BY <1>1, <1>8 DEF CommitAmerica, At
  <2>2. im'[j].pc = "eu" /\ im'[j].committing
    BY <1>1, <2>1 DEF ImStates
  <2>3. flights'["AM"] = {im[j].loaded}
    BY <1>1, <1>8 DEF CommitAmerica
  <2> QED BY <2>1, <2>2, <2>3
<1>9. ASSUME NEW pc \in {"seed", "clean", "mirror", "reopen", "undo"}, Goto(j, pc),
             im[j].pc \in {"eu", "seed", "clean", "mirror"},
             UNCHANGED files, flights'["AM"] = flights["AM"]
      PROVE  FilesOf(j)'
  <2>1. pc \in PCs /\ pc # "idle"
    BY DEF PCs, Steps
  <2>2. im'[j] = [im[j] EXCEPT !.pc = pc]
    BY <1>9, <2>1, GotoStep
  <2>3. im'[j].pc = pc /\ im'[j].committing = im[j].committing
    BY <1>1, <2>2 DEF ImStates
  <2> QED BY <1>9, <2>3
<1>10. CASE CommitEurope(j) \/ CleanMongo(j)
  <2>1. flights'["AM"] = flights["AM"]
    BY <1>1, <1>10 DEF CommitEurope, CleanMongo
  <2> QED BY <1>9, <1>10, <2>1 DEF CommitEurope, CleanMongo, At
<1>11. CASE SeedMatrices(j)
  <2>1. flights'["AM"] = flights["AM"] /\ UNCHANGED files /\ im[j].pc = "seed"
    BY <1>11 DEF SeedMatrices, dataVars, At
  <2>2. \E pc \in {"clean", "undo"} : Goto(j, pc)
    BY <1>11 DEF SeedMatrices
  <2> QED BY <1>9, <2>1, <2>2
<1>12. CASE MirrorMongo(j)
  <2>1. flights'["AM"] = flights["AM"] /\ UNCHANGED files /\ im[j].pc = "mirror"
    BY <1>1, <1>12 DEF MirrorMongo, At
  <2>2. \E pc \in {"reopen", "undo"} : Goto(j, pc)
    BY <1>12 DEF MirrorMongo
  <2> QED BY <1>9, <2>1, <2>2
<1>13. CASE Fail(j)
  <2>1. /\ im'[j] = Failed(j) /\ UNCHANGED <<files, flights>>
        /\ im[j].pc \in Steps \ {"am", "seed", "mirror"}
    BY <1>1, <1>13 DEF Fail, dataVars
  <2>2. /\ im'[j].pc = "undo" /\ im'[j].committing = im[j].committing
        /\ im'[j].replaced = im[j].replaced
        /\ im'[j].old = IF im[j].pc = "gate" THEN files ELSE im[j].old
    BY <1>1, <2>1 DEF Failed, ImStates, At
  <2>3. im[j].pc \in {"gate", "matrix", "dataset", "outbox", "rows", "load", "eu", "clean"}
    BY <2>1 DEF Steps
  <2> QED BY <2>1, <2>2, <2>3
<1>14. CASE Undo(j)
  <2>1. CASE im[j].pc = "undo" /\ RestoreFile(j, "matrix", "restore")
    <3>1. "matrix" \in Files /\ "restore" \in {"restore", "unlock"}
      BY DEF Files
    <3>2. im'[j].pc = "restore" /\ im'[j].committing = im[j].committing
      BY <2>1, <3>1, RestoreStep
    <3>3. CASE im[j].committing
      <4>1. UNCHANGED <<files, flights>>
        BY <2>1, <3>1, <3>3, RestoreStep DEF RestoresFiles
      <4> QED BY <2>1, <3>2, <3>3, <4>1
    <3>4. CASE ~im[j].committing /\ im[j].replaced
      <4>1. RestoresFiles(j)
        BY <3>4 DEF RestoresFiles
      <4>2. /\ "matrix" \in im'[j].unrestored \/ files'["matrix"] = im[j].old["matrix"]
            /\ im'[j].old = im[j].old /\ im'[j].replaced = im[j].replaced
        BY <2>1, <3>1, <4>1, RestoreStep
      <4>3. Kept(j, {"matrix"})' /\ im'[j].replaced
        BY <3>4, <4>2 DEF Kept
      <4> QED BY <3>2, <3>4, <4>3
    <3>5. CASE ~im[j].committing /\ ~im[j].replaced
      <4>1. UNCHANGED files /\ im[j].old = files /\ im'[j].old = im[j].old
        BY <2>1, <3>1, <3>5, RestoreStep DEF RestoresFiles
      <4>2. Kept(j, {"matrix"})' /\ Kept(j, Files)'
        BY <4>1 DEF Kept
      <4> QED BY <3>2, <3>5, <4>2
    <3> QED BY <3>3, <3>4, <3>5
  <2>2. CASE im[j].pc = "restore" /\ RestoreFile(j, "dataset", "unlock")
    <3>1. "dataset" \in Files /\ "unlock" \in {"restore", "unlock"}
      BY DEF Files
    <3>2. im'[j].pc = "unlock" /\ im'[j].committing = im[j].committing
      BY <2>2, <3>1, RestoreStep
    <3>3. CASE im[j].committing
      <4>1. UNCHANGED <<files, flights>>
        BY <2>2, <3>1, <3>3, RestoreStep DEF RestoresFiles
      <4> QED BY <2>2, <3>2, <3>3, <4>1
    <3>4. CASE ~im[j].committing /\ im[j].replaced
      <4>1. RestoresFiles(j) /\ Kept(j, {"matrix"})
        BY <2>2, <3>4 DEF RestoresFiles
      <4>2. "dataset" \in im'[j].unrestored \/ files'["dataset"] = im'[j].old["dataset"]
        <5>1. /\ "dataset" \in im'[j].unrestored \/ files'["dataset"] = im[j].old["dataset"]
              /\ im'[j].old = im[j].old
          BY <2>2, <3>1, <4>1, RestoreStep
        <5> QED BY <5>1
      <4>3. "matrix" \in im'[j].unrestored \/ files'["matrix"] = im'[j].old["matrix"]
        <5>1. "matrix" \in Files \ {"dataset"}
          BY DEF Files
        <5>2. "matrix" \in im[j].unrestored \/ files["matrix"] = im[j].old["matrix"]
          BY <4>1 DEF Kept
        <5> QED BY <2>2, <3>1, <5>1, <5>2, RestoreStep
      <4>4. Kept(j, Files)'
        BY <4>2, <4>3 DEF Kept, Files
      <4> QED BY <3>2, <3>4, <4>4
    <3>5. CASE ~im[j].committing /\ ~im[j].replaced
      <4>1. UNCHANGED files /\ im'[j].old = im[j].old /\ Kept(j, Files)
        BY <2>2, <3>1, <3>5, RestoreStep DEF RestoresFiles
      <4>2. \A f \in Files : f \in im[j].unrestored => f \in im'[j].unrestored
        <5>1. UNCHANGED files /\ Goto(j, "unlock")
          BY <2>2, <3>5 DEF RestoreFile, RestoresFiles
        <5>2. "unlock" \in PCs
          BY DEF PCs
        <5>3. im'[j] = [im[j] EXCEPT !.pc = "unlock"]
          BY <5>1, <5>2, GotoStep
        <5> QED BY <1>1, <5>3 DEF ImStates
      <4>3. Kept(j, Files)'
        BY <4>1, <4>2 DEF Kept
      <4> QED BY <3>2, <3>5, <4>3
    <3> QED BY <3>3, <3>4, <3>5
  <2> QED BY <1>14, <2>1, <2>2, UndoStep
<1>15. CASE OpenGate(j)
  <2>1. UNCHANGED <<files, flights>>
    BY <1>15 DEF OpenGate, dataVars
  <2>2. CASE im[j].pc = "unlock" /\ Goto(j, "fail")
    <3>1. "fail" \in PCs
      BY DEF PCs
    <3>2. im'[j] = [im[j] EXCEPT !.pc = "fail"]
      BY <2>2, <3>1, GotoStep
    <3>3. /\ im'[j].pc = "fail" /\ im'[j].committing = im[j].committing
          /\ im'[j].old = im[j].old /\ im'[j].unrestored = im[j].unrestored
      BY <1>1, <3>2 DEF ImStates
    <3>4. Kept(j, Files)' = Kept(j, Files)
      BY <2>1, <3>3 DEF Kept
    <3> QED BY <2>1, <2>2, <3>3, <3>4
  <2>3. CASE \E pc \in {"complete", "idle"} : Goto(j, pc)
    <3>1. im'[j].pc \in {"complete", "idle"}
      BY <2>3, GotoStep DEF PCs
    <3> QED BY <3>1
  <2> QED BY <1>15, <2>2, <2>3, AfterSteps DEF OpenGate
<1>16. CASE EndJob(j)
  <2>1. im'[j].pc \in {"defer", "idle"}
    BY <1>16, GotoStep, AfterSteps DEF EndJob, PCs
  <2> QED BY <2>1
<1> QED BY <1>2, <1>3, <1>5, <1>6, <1>7, <1>8, <1>10, <1>11, <1>12, <1>13, <1>14, <1>15, <1>16
        DEF Replace

LEMMA NextFilesInv ==
  ASSUME "am" \notin Fallible
  PROVE  TypeOK /\ JobsInv /\ FilesInv /\ [Next]_vars => FilesInv'
<1> SUFFICES ASSUME TypeOK, JobsInv, FilesInv, [Next]_vars PROVE FilesInv'
  OBVIOUS
<1>1. ASSUME NEW j \in Jobs, Replace(j), Busy(j) PROVE FilesInv'
  <2>1. FilesOf(j)'
    BY <1>1, ReplaceFiles DEF FilesInv
  <2>2. \A i \in Jobs : i # j => ~Busy(i)'
    BY <1>1, Moves DEF JobsInv, Busy
  <2>3. \A i \in Jobs : i # j => FilesOf(i)'
    BY <2>2 DEF FilesOf, Busy
  <2> QED BY <2>1, <2>3 DEF FilesInv
<1>2. ASSUME NEW j \in Jobs, Replace(j), ~Busy(j) PROVE FilesInv'
  <2>1. im[j].pc = "defer" /\ ~Busy(j)' /\ \A i \in Jobs : i # j => im'[i] = im[i]
    BY <1>2, Moves DEF Busy
  <2>2. UNCHANGED <<files, flights>>
    BY <1>2, <2>1 DEF Replace, Gate, ReplaceMatrix, ReplaceDataset, ClearOutbox, ClearRows, Load,
           CommitAmerica, CommitEurope, SeedMatrices, CleanMongo, MirrorMongo, Fail, Undo, RestoreFile,
           OpenGate, EndJob, At, Steps, dataVars
  <2>3. FilesOf(j)'
    BY <2>1 DEF FilesOf, Busy
  <2>4. \A i \in Jobs : i # j => FilesOf(i)'
    BY <2>1, <2>2 DEF FilesInv, FilesOf, Kept
  <2> QED BY <2>3, <2>4 DEF FilesInv
<1>3. ASSUME NEW j \in Jobs, StartInputJob(j) PROVE FilesInv'
  <2>1. im'[j] = [Idle EXCEPT !.pc = "gate"]
    BY <1>3, Starts
  <2>2. im'[j].pc = "gate" /\ ~im'[j].replaced /\ ~im'[j].committing
    BY <2>1 DEF Idle
  <2>3. \A i \in Jobs : i # j => im'[i] = im[i]
    BY <1>3, Starts
  <2>4. UNCHANGED <<files, flights>>
    BY <1>3 DEF StartInputJob, dataVars
  <2>5. FilesOf(j)'
    BY <2>2 DEF FilesOf
  <2>6. \A i \in Jobs : i # j => FilesOf(i)'
    BY <2>3, <2>4 DEF FilesInv, FilesOf, Kept
  <2> QED BY <2>5, <2>6 DEF FilesInv
<1>4. CASE Restart
  <2>1. \A j \in Jobs : im'[j].pc = "idle"
    BY <1>4, IdleType DEF Restart
  <2> QED BY <2>1 DEF FilesInv, FilesOf
<1>5. CASE UNCHANGED <<im, files>> /\ flights'["AM"] = flights["AM"]
  BY <1>5 DEF FilesInv, FilesOf, Kept
<1>6. CASE BootstrapMongo \/ PruneDelete
  <2>1. flights'["AM"] = flights["AM"]
    BY <1>6 DEF BootstrapMongo, PruneDelete, TypeOK
  <2> QED BY <1>5, <1>6, <2>1 DEF BootstrapMongo, PruneDelete, importVars
<1>7. ASSUME NEW j \in Jobs, Prepares(j) PROVE FilesInv'
  BY <1>5, <1>7, PreviewStep DEF dataVars
<1>8. ASSUME NEW w \in Writers, Arrive(w) \/ LockTicket(w) \/ CommitTicket(w) PROVE FilesInv'
  BY <1>5, <1>8 DEF Arrive, LockTicket, CommitTicket, importVars, dataVars
<1>9. CASE (\E e \in Events : Claim(e)) \/ (\E s \in Stores : Apply(s)) \/ MarkDelivered \/ PruneRead
  BY <1>5, <1>9 DEF Claim, Apply, MarkDelivered, PruneRead, importVars, dataVars
<1>10. CASE UNCHANGED vars
  BY <1>5, <1>10 DEF vars, importVars, dataVars
<1> QED BY <1>1, <1>2, <1>3, <1>4, <1>6, <1>7, <1>8, <1>9, <1>10 DEF Next, Prepares

(* A job that fails once its commits have begun leaves in use the files    *)
(* the American flights come from, and one that fails before them leaves   *)
(* every file as it found it, but those that could not be written back: at *)
(* whichever step it fails but the first commit, whatever earlier failures *)
(* and restarts have left (the deferred restoration of runInputJob).       *)
THEOREM FailuresKeepTheFiles ==
  ASSUME "am" \notin Fallible
  PROVE  Spec => []FailureKeepsTheFiles
<1>1. Init => FilesInv
  BY IdleType DEF Init, FilesInv, FilesOf
<1>2. TInv => TypeOK
  BY DEF TInv
<1>3. TypeOK /\ JobsInv /\ FilesInv /\ [Next]_vars => FilesInv'
  BY NextFilesInv
<1>4. ASSUME FilesInv PROVE FailureKeepsTheFiles
  BY <1>4 DEF FilesInv, FilesOf, Kept, FailureKeepsTheFiles
<1> QED BY <1>1, <1>2, <1>3, <1>4, SpecJobsInv, PTL DEF Spec
-----------------------------------------------------------------------------
(* The gate, as the job that works and the one that has just completed see *)
(* it: only the last deferred call of the latter opens it over the former. *)
GateInv ==
  /\ GateStaysShut
  /\ \A j \in Jobs : im[j].pc = "defer" => job[j] = "completed"

(* Which statements touch the gate or end a job, and where they lead.      *)
LEMMA Endings ==
  ASSUME TypeOK, NEW j \in Jobs, Replace(j)
  PROVE  \/ /\ im[j].pc = "complete" /\ im'[j].pc = "defer" /\ UNCHANGED active
            /\ job' = [job EXCEPT ![j] = "completed"]
         \/ /\ im[j].pc = "fail" /\ im'[j].pc = "idle" /\ UNCHANGED active
            /\ job' = [job EXCEPT ![j] = "failed"]
         \/ /\ im[j].pc \in {"reopen", "defer", "unlock"}
            /\ im'[j].pc \in {"complete", "idle", "fail"} /\ UNCHANGED <<job, running>>
         \/ /\ im[j].pc = "gate" /\ active' /\ UNCHANGED <<job, running>>
         \/ Replacing(j) /\ UNCHANGED <<active, job, running>>
<1>1. CASE EndJob(j)
  <2>1. im[j].pc \in {"complete", "fail"} /\ Goto(j, After[im[j].pc])
    BY <1>1 DEF EndJob
  <2>2. \/ im[j].pc = "complete" /\ im'[j].pc = "defer"
        \/ im[j].pc = "fail" /\ im'[j].pc = "idle"
    <3>1. After[im[j].pc] \in {"defer", "idle"} /\ {"defer", "idle"} \subseteq PCs
      BY <2>1, AfterSteps DEF PCs
    <3>2. im'[j].pc = After[im[j].pc]
      BY <2>1, <3>1, GotoStep
    <3> QED BY <2>1, <3>2, AfterSteps
  <2> QED BY <1>1, <2>2 DEF EndJob, FinalState, At
<1>2. CASE OpenGate(j)
  <2>1. \E pc \in {"complete", "idle", "fail"} : Goto(j, pc)
    BY <1>2, AfterSteps DEF OpenGate
  <2>2. im'[j].pc \in {"complete", "idle", "fail"}
    BY <2>1, GotoStep DEF PCs
  <2> QED BY <1>2, <2>2 DEF OpenGate
<1>3. CASE Gate(j)
  BY <1>3 DEF Gate, At
<1>4. CASE Fail(j)
  <2>1. im[j].pc \in Steps /\ active' = (active \/ At(j, "gate")) /\ UNCHANGED <<job, running>>
    BY <1>4 DEF Fail
  <2>2. CASE im[j].pc = "gate"
    BY <2>1, <2>2 DEF At
  <2>3. CASE im[j].pc # "gate"
    <3>1. active' = active
      BY <2>1, <2>3 DEF At, TypeOK
    <3> QED BY <2>1, <2>3, <3>1 DEF Replacing
  <2> QED BY <2>2, <2>3
<1>5. ASSUME im[j].pc \in (Steps \ {"gate"}) \union {"undo", "restore"},
             UNCHANGED <<active, job, running>>
      PROVE  Replacing(j) /\ UNCHANGED <<active, job, running>>
  BY <1>5 DEF Replacing
<1>6. CASE ReplaceMatrix(j) \/ ReplaceDataset(j) \/ ClearOutbox(j) \/ ClearRows(j) \/ Load(j)
  BY <1>5, <1>6 DEF ReplaceMatrix, ReplaceDataset, ClearOutbox, ClearRows, Load, At, Steps
<1>7. CASE CommitAmerica(j) \/ CommitEurope(j) \/ SeedMatrices(j) \/ CleanMongo(j) \/ MirrorMongo(j)
  BY <1>5, <1>7 DEF CommitAmerica, CommitEurope, SeedMatrices, CleanMongo, MirrorMongo, At, Steps
<1>8. CASE Undo(j)
  BY <1>5, <1>8 DEF Undo, RestoreFile, At
<1> QED BY <1>1, <1>2, <1>3, <1>4, <1>6, <1>7, <1>8 DEF Replace

LEMMA NextGateInv == TypeOK /\ JobsInv /\ GateInv /\ [Next]_vars => GateInv'
<1> SUFFICES ASSUME TypeOK, JobsInv, GateInv, [Next]_vars PROVE GateInv'
  OBVIOUS
<1>0. \A j \in Jobs : Replacing(j) => Busy(j)
  BY DEF Replacing, Busy, Steps
<1>1. ASSUME NEW j \in Jobs, Replace(j) PROVE GateInv'
  <2>1. \A i \in Jobs : i # j => im'[i] = im[i] /\ job'[i] = job[i]
    BY <1>1, Moves, Endings DEF TypeOK
  <2>2. im'[j].pc = "defer" => job'[j] = "completed"
    <3>1. CASE im[j].pc = "defer"
      BY <1>1, <3>1, Endings DEF GateInv, Replacing, Steps
    <3>2. CASE im[j].pc = "complete" /\ job' = [job EXCEPT ![j] = "completed"]
      BY <3>2 DEF TypeOK
    <3>3. CASE im[j].pc # "defer" /\ UNCHANGED running
      BY <1>1, <3>3, Moves DEF JobsInv, Busy
    <3> QED BY <1>1, <3>1, <3>2, <3>3, Endings
  <2>3. ASSUME NEW k \in Jobs, Replacing(k)'
        PROVE  active' \/ \E i \in Jobs \ {k} : job'[i] = "completed"
    <3>1. CASE k = j
      <4>1. active' \/ (Replacing(j) /\ UNCHANGED <<active, job>>)
        <5>1. im'[j].pc \notin {"defer", "idle", "complete", "fail"}
          BY <2>3, <3>1 DEF Replacing, Steps
        <5>2. (im[j].pc = "gate" /\ active') \/ (Replacing(j) /\ UNCHANGED <<active, job, running>>)
          BY <1>1, <5>1, Endings
        <5> QED BY <5>2
      <4>2. CASE active'
        BY <4>2
      <4>3. CASE Replacing(j) /\ UNCHANGED <<active, job>>
        <5>1. active \/ \E i \in Jobs \ {j} : job[i] = "completed"
          BY <4>3 DEF GateInv, GateStaysShut
        <5>2. CASE active
          BY <4>3, <5>2
        <5>3. CASE \E i \in Jobs \ {j} : job[i] = "completed"
          BY <3>1, <4>3, <5>3
        <5> QED BY <5>1, <5>2, <5>3
      <4> QED BY <4>1, <4>2, <4>3
    <3>2. CASE k # j
      <4>1. Replacing(k)
        BY <2>1, <2>3, <3>2 DEF Replacing
      <4>2. ~Busy(j)
        BY <1>0, <3>2, <4>1 DEF JobsInv
      <4>3. im[j].pc = "defer" /\ UNCHANGED job
        BY <1>1, <4>2, Moves DEF Busy
      <4>4. job'[j] = "completed"
        BY <4>3 DEF GateInv
      <4> QED BY <3>2, <4>4
    <3> QED BY <3>1, <3>2
  <2>4. \A i \in Jobs : i # j => (im'[i].pc = "defer" => job'[i] = "completed")
    BY <2>1 DEF GateInv
  <2> QED BY <2>2, <2>3, <2>4 DEF GateInv, GateStaysShut
<1>2. ASSUME NEW j \in Jobs, StartInputJob(j) PROVE GateInv'
  <2>1. im'[j].pc = "gate"
    BY <1>2, Starts DEF Idle
  <2>2. \A i \in Jobs : i # j => im'[i] = im[i] /\ ~Busy(i) /\ job'[i] = job[i]
    BY <1>2, Starts
  <2>3. \A i \in Jobs : ~Replacing(i)'
    BY <1>0, <2>1, <2>2 DEF Replacing, Steps
  <2> QED BY <2>1, <2>2, <2>3 DEF GateInv, GateStaysShut
<1>3. ASSUME NEW j \in Jobs, Prepares(j) PROVE GateInv'
  <2>1. UNCHANGED <<im, active>> /\ job[j] \in {"none", "checked", "half"}
    BY <1>3, PreviewStep
  <2>2. \A i \in Jobs : job[i] = "completed" => job'[i] = "completed"
    BY <1>3, <2>1, PreviewStep DEF TypeOK
  <2>3. \A i \in Jobs : Replacing(i)' = Replacing(i)
    BY <2>1 DEF Replacing
  <2> QED BY <2>1, <2>2, <2>3 DEF GateInv, GateStaysShut
<1>4. CASE Restart
  <2>1. \A j \in Jobs : im'[j].pc = "idle"
    BY <1>4, IdleType DEF Restart
  <2> QED BY <2>1 DEF GateInv, GateStaysShut, Replacing, Steps
<1>5. CASE UNCHANGED <<job, active, im>>
  BY <1>5 DEF GateInv, GateStaysShut, Replacing
<1> QED BY <1>1, <1>2, <1>3, <1>4, <1>5
        DEF Next, Prepares, Arrive, LockTicket, CommitTicket, Claim, Apply, MarkDelivered,
            BootstrapMongo, PruneRead, PruneDelete, vars, importVars

(* No failure, restart or later start opens the gate over a job that is    *)
(* replacing files or data, but the last deferred call of one that has     *)
(* completed (InputImportActive in runInputJob).                           *)
THEOREM GateIsKeptShut == Spec => []GateStaysShut
<1>1. Init => GateInv
  BY IdleType DEF Init, GateInv, GateStaysShut, Replacing, Steps
<1>2. TInv => TypeOK
  BY DEF TInv
<1>3. GateInv => GateStaysShut
  BY DEF GateInv
<1> QED BY <1>1, <1>2, <1>3, NextGateInv, SpecJobsInv, PTL DEF Spec
-----------------------------------------------------------------------------
(* What a replacement has made of the stores before each of its statements: *)
(* every commit and check that it is past vouches for one of them.          *)
StoresOf(j) ==
  /\ im[j].pc \in {"am", "eu"} => im[j].loaded = files
  /\ im[j].pc \in {"eu", "seed", "clean", "mirror", "reopen", "complete"} => flights["AM"] = {files}
  /\ im[j].pc \in {"seed", "clean", "mirror", "reopen", "complete"} => flights["EU"] = {files}
  /\ im[j].pc \in {"clean", "mirror", "reopen", "complete"} => MatricesMatch(fares)
  /\ im[j].pc \in {"reopen", "complete"} => flights["Mongo"] = {files}

StoresInv ==
  /\ \A j \in Jobs : StoresOf(j)
  /\ prune = NotPruning

(* The statements of a goroutine that a job is running. *)
LEMMA ReplaceStores ==
  ASSUME TypeOK, NEW j \in Jobs, StoresOf(j), Replace(j), Busy(j)
  PROVE  StoresOf(j)'
<1> USE DEF StoresOf
<1>1. /\ im \in [Jobs -> ImStates] /\ im[j] \in ImStates
      /\ flights \in [Stores -> SUBSET FileSets] /\ fares \in [PGs -> Jobs \union {0}]
  BY DEF TypeOK, ImStates
<1>2. ASSUME im'[j].pc \notin {"am", "eu", "seed", "clean", "mirror", "reopen", "complete"}
      PROVE  StoresOf(j)'
  BY <1>2
<1>3. CASE Gate(j)
  <2>1. im'[j].pc = "matrix"
    BY <1>1, <1>3 DEF Gate, Idle
  <2> QED BY <1>2, <2>1
<1>4. CASE ReplaceMatrix(j)
  <2>1. im'[j].pc = "dataset"
    BY <1>1, <1>4 DEF ReplaceMatrix, AfterMatrix, ImStates
  <2> QED BY <1>2, <2>1
<1>5. CASE ClearOutbox(j)
  <2>1. im'[j].pc = "rows"
    BY <1>1, <1>5 DEF ClearOutbox, ImStates
  <2> QED BY <1>2, <2>1
<1>6. CASE Fail(j)
  <2>1. im'[j].pc = "undo"
    BY <1>1, <1>6 DEF Fail, Failed, ImStates
  <2> QED BY <1>2, <2>1
<1>7. {"outbox", "load", "undo", "idle", "fail", "defer",
       "seed", "clean", "mirror", "reopen", "complete"} \subseteq PCs
  BY DEF PCs, Steps
<1>8. ASSUME NEW pc \in {"outbox", "load", "undo", "idle", "fail", "defer"}, Goto(j, pc)
      PROVE  StoresOf(j)'
  <2>1. pc \in PCs
    BY <1>7
  <2>2. im'[j].pc = pc
    BY <1>8, <2>1, GotoStep
  <2> QED BY <1>2, <1>8, <2>2
<1>9. CASE ReplaceDataset(j) \/ ClearRows(j)
  BY <1>8, <1>9 DEF ReplaceDataset, ClearRows
<1>18. CASE Undo(j)
  <2>1. im'[j].pc \in {"restore", "unlock"}
    BY <1>18, UndoStep
  <2> QED BY <1>2, <2>1
<1>10. CASE Load(j)
  <2>1. im'[j] = [im[j] EXCEPT !.pc = "am", !.loaded = files] /\ UNCHANGED files
    BY <1>1, <1>10 DEF Load
  <2>2. im'[j].pc = "am" /\ im'[j].loaded = files
    BY <1>1, <2>1 DEF ImStates
  <2> QED BY <2>1, <2>2
<1>11. CASE CommitAmerica(j)
  <2>1. im'[j] = [im[j] EXCEPT !.pc = "eu", !.committing = TRUE] /\ UNCHANGED files
    BY <1>1, <1>11 DEF CommitAmerica
  <2>2. im'[j].pc = "eu" /\ im'[j].loaded = im[j].loaded
    BY <1>1, <2>1 DEF ImStates
  <2>3. flights'["AM"] = {im[j].loaded} /\ im[j].pc = "am"
    BY <1>1, <1>11 DEF CommitAmerica, At
  <2> QED BY <2>1, <2>2, <2>3
<1>12. CASE CommitEurope(j)
  <2>1. im'[j].pc = "seed" /\ im[j].pc = "eu" /\ UNCHANGED files
    BY <1>7, <1>12, GotoStep DEF CommitEurope, At
  <2>2. flights'["EU"] = {im[j].loaded} /\ flights'["AM"] = flights["AM"]
    BY <1>1, <1>12 DEF CommitEurope
  <2> QED BY <2>1, <2>2
<1>13. CASE SeedMatrices(j)
  <2>1. im[j].pc = "seed" /\ UNCHANGED <<files, flights>>
    BY <1>13 DEF SeedMatrices, At, dataVars
  <2>2. Goto(j, IF MatricesMatch(fares') THEN "clean" ELSE "undo")
    BY <1>13 DEF SeedMatrices
  <2>3. CASE MatricesMatch(fares')
    <3>1. im'[j].pc = "clean"
      BY <1>7, <2>2, <2>3, GotoStep
    <3>2. MatricesMatch(fares)'
      BY <2>1, <2>3 DEF MatricesMatch
    <3> QED BY <2>1, <3>1, <3>2
  <2>4. CASE ~MatricesMatch(fares')
    BY <1>8, <2>2, <2>4
  <2> QED BY <2>3, <2>4
<1>14. CASE CleanMongo(j)
  <2>1. im'[j].pc = "mirror" /\ im[j].pc = "clean" /\ UNCHANGED <<files, fares>>
    BY <1>7, <1>14, GotoStep DEF CleanMongo, At
  <2>2. flights'["AM"] = flights["AM"] /\ flights'["EU"] = flights["EU"]
    BY <1>1, <1>14 DEF CleanMongo
  <2>3. MatricesMatch(fares)'
    BY <2>1 DEF MatricesMatch
  <2> QED BY <2>1, <2>2, <2>3
<1>15. CASE MirrorMongo(j)
  <2>1. im[j].pc = "mirror" /\ UNCHANGED <<files, fares>>
    BY <1>15 DEF MirrorMongo, At
  <2>2. flights'["AM"] = flights["AM"] /\ flights'["EU"] = flights["EU"]
    BY <1>1, <1>15 DEF MirrorMongo
  <2>3. CASE FlightsCounted
    <3>1. im'[j].pc = "reopen"
      BY <1>7, <1>15, <2>3, GotoStep DEF MirrorMongo
    <3>2. flights'["Mongo"] = {files}
      BY <2>1, <2>3 DEF FlightsCounted
    <3>3. MatricesMatch(fares)'
      BY <2>1 DEF MatricesMatch
    <3> QED BY <2>1, <2>2, <3>1, <3>2, <3>3
  <2>4. CASE ~FlightsCounted
    BY <1>8, <1>15, <2>4 DEF MirrorMongo
  <2> QED BY <2>3, <2>4
<1>16. CASE OpenGate(j)
  <2>1. CASE im[j].pc = "reopen"
    <3>1. Goto(j, "complete") /\ UNCHANGED <<files, flights, fares>>
      BY <1>16, <2>1, AfterSteps DEF OpenGate, dataVars
    <3>2. im'[j].pc = "complete"
      BY <1>7, <3>1, GotoStep
    <3>3. MatricesMatch(fares)'
      BY <2>1, <3>1 DEF MatricesMatch
    <3> QED BY <2>1, <3>1, <3>2, <3>3
  <2>2. CASE im[j].pc # "reopen"
    BY <1>8, <1>16, <2>2, AfterSteps DEF OpenGate
  <2> QED BY <2>1, <2>2
<1>17. CASE EndJob(j)
  BY <1>8, <1>17, AfterSteps DEF EndJob
<1> QED BY <1>3, <1>4, <1>5, <1>6, <1>9, <1>10, <1>11, <1>12, <1>13, <1>14, <1>15, <1>16, <1>17,
           <1>18
        DEF Replace

LEMMA NextStoresInv ==
  ASSUME ~PrunesAtBoot
  PROVE  TypeOK /\ JobsInv /\ StoresInv /\ [Next]_vars => StoresInv'
<1> SUFFICES ASSUME TypeOK, JobsInv, StoresInv, [Next]_vars PROVE StoresInv'
  OBVIOUS
<1>1. ASSUME NEW j \in Jobs, Replace(j), Busy(j) PROVE StoresInv'
  <2>1. StoresOf(j)'
    BY <1>1, ReplaceStores DEF StoresInv
  <2>2. \A i \in Jobs : i # j => ~Busy(i)'
    BY <1>1, Moves DEF JobsInv, Busy
  <2>3. \A i \in Jobs : i # j => im'[i].pc \in {"idle", "defer"}
    BY <2>2 DEF Busy
  <2>4. UNCHANGED prune
    BY <1>1 DEF Replace, Gate, ReplaceMatrix, ReplaceDataset, ClearOutbox, ClearRows, Load,
           CommitAmerica, CommitEurope, SeedMatrices, CleanMongo, MirrorMongo, Fail, Undo, RestoreFile, OpenGate,
           EndJob, otherVars
  <2> QED BY <2>1, <2>3, <2>4 DEF StoresInv, StoresOf
<1>2. ASSUME NEW j \in Jobs, Replace(j), ~Busy(j) PROVE StoresInv'
  <2>1. im[j].pc = "defer" /\ ~Busy(j)' /\ \A i \in Jobs : i # j => im'[i] = im[i]
    BY <1>2, Moves DEF Busy
  <2>2. UNCHANGED <<files, flights, fares, prune>>
    BY <1>2, <2>1 DEF Replace, Gate, ReplaceMatrix, ReplaceDataset, ClearOutbox, ClearRows, Load,
           CommitAmerica, CommitEurope, SeedMatrices, CleanMongo, MirrorMongo, Fail, Undo, RestoreFile, OpenGate,
           EndJob, At, Steps, dataVars, otherVars
  <2>3. MatricesMatch(fares)' = MatricesMatch(fares)
    BY <2>2 DEF MatricesMatch
  <2>4. im'[j].pc \in {"idle", "defer"}
    BY <2>1 DEF Busy
  <2>5. \A i \in Jobs : StoresOf(i)'
    BY <2>1, <2>2, <2>3, <2>4 DEF StoresInv, StoresOf
  <2> QED BY <2>2, <2>5 DEF StoresInv
<1>3. ASSUME NEW j \in Jobs, StartInputJob(j) PROVE StoresInv'
  <2>1. im'[j].pc = "gate"
    BY <1>3, Starts DEF Idle
  <2>2. \A i \in Jobs : i # j => im'[i].pc \in {"idle", "defer"}
    BY <1>3, Starts DEF Busy
  <2>3. UNCHANGED prune
    BY <1>3 DEF StartInputJob, otherVars
  <2> QED BY <2>1, <2>2, <2>3 DEF StoresInv, StoresOf
<1>4. CASE Restart
  <2>1. \A j \in Jobs : im'[j].pc = "idle"
    BY <1>4, IdleType DEF Restart
  <2>2. prune' = NotPruning
    BY <1>4 DEF Restart
  <2> QED BY <2>1, <2>2 DEF StoresInv, StoresOf
<1>5. CASE UNCHANGED <<im, files, fares, prune, flights>>
  <2>1. MatricesMatch(fares)' = MatricesMatch(fares)
    BY <1>5 DEF MatricesMatch
  <2> QED BY <1>5, <2>1 DEF StoresInv, StoresOf
<1>6. CASE BootstrapMongo
  <2>1. UNCHANGED <<im, files, fares, prune>>
    BY <1>6 DEF BootstrapMongo, importVars, otherVars
  <2>2. /\ flights'["AM"] = flights["AM"] /\ flights'["EU"] = flights["EU"]
        /\ flights'["Mongo"] = UNION {flights[s] : s \in Stores}
    BY <1>6 DEF BootstrapMongo, TypeOK
  <2>3. \A F : flights["AM"] = {F} /\ flights["EU"] = {F} /\ flights["Mongo"] = {F}
               => flights'["Mongo"] = {F}
    BY <2>2
  <2>4. MatricesMatch(fares)' = MatricesMatch(fares)
    BY <2>1 DEF MatricesMatch
  <2> QED BY <2>1, <2>2, <2>3, <2>4 DEF StoresInv, StoresOf
<1>7. CASE PruneRead \/ PruneDelete
  BY <1>7 DEF PruneRead, PruneDelete, StoresInv, NotPruning
<1>8. ASSUME NEW j \in Jobs, Prepares(j) PROVE StoresInv'
  BY <1>5, <1>8, PreviewStep DEF dataVars, otherVars
<1>9. ASSUME NEW w \in Writers, Arrive(w) \/ LockTicket(w) \/ CommitTicket(w) PROVE StoresInv'
  BY <1>5, <1>9 DEF Arrive, LockTicket, CommitTicket, importVars, dataVars
<1>10. CASE (\E e \in Events : Claim(e)) \/ (\E s \in Stores : Apply(s)) \/ MarkDelivered
  BY <1>5, <1>10 DEF Claim, Apply, MarkDelivered, importVars, dataVars
<1>11. CASE UNCHANGED vars
  BY <1>5, <1>11 DEF vars, importVars, dataVars, otherVars
<1> QED BY <1>1, <1>2, <1>3, <1>4, <1>6, <1>7, <1>8, <1>9, <1>10, <1>11 DEF Next, Prepares

(* A job completes only when all stores agree with the files in use,       *)
(* whatever failed or stopped half way before, as long as no orphans are   *)
(* being removed from MongoDB (verifyRelationalMatrices, runInputJob).     *)
THEOREM CompletionIsConsistent ==
  ASSUME ~PrunesAtBoot
  PROVE  Spec => []CompletedIsConsistent
<1>1. Init => StoresInv
  BY IdleType DEF Init, StoresInv, StoresOf
<1>2. TInv => TypeOK
  BY DEF TInv
<1>3. TypeOK /\ JobsInv /\ StoresInv /\ [Next]_vars => StoresInv'
  BY NextStoresInv
<1>4. ASSUME StoresInv PROVE CompletedIsConsistent
  <2> SUFFICES ASSUME NEW j \in Jobs, im[j].pc = "complete"
               PROVE  /\ \A s \in Stores : flights[s] = {files}
                      /\ \A d \in PGs : fares[d] = files["matrix"]
    BY DEF CompletedIsConsistent, At
  <2> QED BY <1>4 DEF StoresInv, StoresOf, MatricesMatch
<1> QED BY <1>1, <1>2, <1>3, <1>4, SpecJobsInv, PTL DEF Spec
=============================================================================
