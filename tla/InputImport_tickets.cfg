SPECIFICATION FairSpec
CONSTANTS
  Jobs <- OneJob
  Sessions = {c1}
  Workers = {refunder}
  Fallible <- AllSteps
  PrunesAtBoot = TRUE
  MaxEvents = 1
  MaxRestarts = 1
CHECK_DEADLOCK FALSE
INVARIANTS LockedTicketStays
PROPERTIES ReplacementsEnd
