SPECIFICATION SellingSpec
CONSTANTS
  lpb = lpb
  mad = mad
  Cities = {lpb, mad}
  Matrices = {1, 2}
  Hours <- MCHours
  Fares <- MCFares
  Starts = {1}
  MaxRoute = 3
  MaxJobs = 2
  f1 = f1
  f2 = f2
  a = a
  b = b
  None = None
  Flights = {f1, f2}
  SeatsOf <- MCSeatsOf
  Rutas <- MCRutas
  MaxTickets = 2
  MaxLoads = 1
  Boletos = {b1, b2}
  NoBoleto = none
  MaxFetches = 1
  Pasajes = {b1, b2}
  MaxDownloads = 3
  costo = costo
  Ciudades = {pocas, unas, otras}
  Buscables = {unas, otras}
  Opciones = {costo, tiempo}
  Top = 3
  MaxSearches = 3
CHECK_DEADLOCK FALSE
INVARIANTS TypesOK CreationIsOrderly SalesAreRight DeskShowsTheTruth DownloadsKeepApart LastSearchIsShown
