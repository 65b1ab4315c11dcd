SPECIFICATION Spec
CONSTANTS
  Sessions = {c1, c2}
  Refunder = refunder
  Seats = {1, 2, 3}
  MaxId = 2
  MaxMatrix = 2
  Eligible <- GrowingEligible
  Manifest <- GrowingFilled
  Departure = 2
  RefundDelay = 1
  MaxNow = 2
  MaxRestarts = 1
SYMMETRY Symmetry
INVARIANTS ManifestKeepsPurchases
