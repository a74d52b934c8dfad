SPECIFICATION FairSpec
CONSTANTS
  None = None
  Riders = {a}
  Drivers = {d, e}
  RideIds = {r}
  Workers = {w}
  Radius = 1
  MaxResults = 1
  Faults = {"lost", "dies"}
  MaxWrites = 1
  MaxMoves = 2
  MaxFaults = 2
  MaxQueue = 3
PROPERTIES
  RequestedIsOffered
