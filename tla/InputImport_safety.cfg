SPECIFICATION Spec
CONSTANTS
  Jobs <- TwoJobs
  Sessions = {}
  Workers = {}
  Fallible <- BeforeCommits
  PrunesAtBoot = FALSE
  MaxEvents = 0
  MaxRestarts = 2
CHECK_DEADLOCK FALSE
INVARIANTS TypeOK OneReplacementAtATime CompletedIsConsistent FailureKeepsTheFiles GateStaysShut
