SPECIFICATION Spec
CONSTANTS
  Sessions = {c1, c2}
  Refunder = refunder
  Seats = {1, 2, 3}
  MaxId = 2
  MaxMatrix = 1
  Eligible <- AllEligible
  Manifest <- OneFilled
  Departure = 2
  RefundDelay = 1
  MaxNow = 1
  MaxRestarts = 0
SYMMETRY Symmetry
INVARIANTS OneTicketPerSeat CheckedSeatStaysFree ManifestKeepsPurchases OutboxLeadsToRow
PROPERTIES ImplementsInventory ResoldOnlyAfterRefundWindow
