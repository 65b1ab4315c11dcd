SPECIFICATION DomainSpec
CONSTANTS
  Seats = {1, 2, 3, 4, 5}
  SoldShare = 50
  ReservedShare = 30
  Arrange <- Shuffled
  Airports <- FourAirports
  Origin = "ATL"
  Destination = "SIN"
  Arcs <- UsefulArcs
  FareTables <- SomeFareTables
  Criteria = {"costo", "tiempo"}
  K = 3
  Infinity = 1000
  Networks <- SomeNetworks
  Requests <- SomeRequests
  MaxCities = 4
  NoWay = 1000
  Goals = {"COST", "TIME"}
CHECK_DEADLOCK FALSE
INVARIANTS ManifestTakesFreeSeats SuggestsTheBest AnswersABestTour
PROPERTIES ManifestsMeetTheTargets
