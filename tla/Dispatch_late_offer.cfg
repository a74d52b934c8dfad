SPECIFICATION Spec
CONSTANTS
  None = None
  Riders = {a}
  Drivers = {d, e}
  RideIds = {r}
  Workers = {w, x}
  Radius = 0
  MaxResults = 2
  Faults = {}
  MaxWrites = 2
  MaxMoves = 0
  MaxFaults = 0
  MaxQueue = 3
SYMMETRY MCSymmetry
INVARIANTS
  EveryLoserIsTold
