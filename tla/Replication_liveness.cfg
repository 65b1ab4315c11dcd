SPECIFICATION BothSpec
CONSTANTS
  NoKey = nokey
  Keys = {k1}
  Tickets = {k1}
  Owner <- AmericanOwner
  Handlers = {h1}
  Copiers = {c1}
  Fallible = {"EU", "Mongo"}
  MaxClock = 2
  MaxFails = 2
  MaxRestarts = 1
  Panels = {dashboard, monitor, map, qr}
  NoPanel = none
  WithError = {dashboard, monitor}
  WithDetails = {dashboard}
  MaxReads = 2
  MaxDatos = 3
CHECK_DEADLOCK FALSE
INVARIANTS TypesOK ConfirmedHasTwoCopies
PROPERTIES EventsAreDelivered StoresConverge PanelsRecover
