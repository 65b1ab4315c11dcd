SPECIFICATION BothSpec
CONSTANTS
  NoKey = nokey
  Keys = {k1}
  Tickets = {}
  Owner <- AmericanOwner
  Handlers = {h1, h2}
  Copiers = {c1}
  Fallible = {"EU", "Mongo"}
  MaxClock = 3
  MaxFails = 2
  MaxRestarts = 1
  Nodes <- TwoNodes
  MaxLamport = 4
CHECK_DEADLOCK FALSE
SYMMETRY Symmetry
INVARIANTS DeliveredIsEverywhere NoWriteIsLost WritesAdvanceTheClock StoresAgree
PROPERTIES SavesSupersede
