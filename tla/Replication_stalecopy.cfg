SPECIFICATION Spec
CONSTANTS
  NoKey = nokey
  Keys = {k1}
  Tickets = {k1}
  Owner <- AmericanOwner
  Handlers = {h1, h2}
  Copiers = {}
  Fallible = {}
  MaxClock = 2
  MaxFails = 0
  MaxRestarts = 0
CHECK_DEADLOCK FALSE
INVARIANTS DeliveredIsEverywhere
