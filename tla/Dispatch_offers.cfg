SPECIFICATION Spec
CONSTANTS
  None = None
  Riders = {a}
  Drivers = {d, e}
  RideIds = {r}
  Workers = {w, x}
  Radius = 0
  MaxResults = 2
  Faults = {"lost", "reread", "dies", "expires"}
  MaxWrites = 2
  MaxMoves = 1
  MaxFaults = 1
  MaxQueue = 3
SYMMETRY MCSymmetry
INVARIANTS
  TypeOK
  OfferedIsRecorded
  RecordsExpire
  OffersWithdrawn
