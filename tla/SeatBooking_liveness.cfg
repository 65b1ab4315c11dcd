SPECIFICATION FairSpec
CONSTANTS
  Sessions = {c1, c2}
  Refunder = refunder
  Seats = {1, 2}
  MaxId = 1
  MaxMatrix = 1
  Eligible <- AllEligible
  Manifest <- OneFilled
  Departure = 1
  RefundDelay = 1
  MaxNow = 2
  MaxRestarts = 1
PROPERTIES RefundsAreReleased RequestsEnd
