SPECIFICATION FairSpec
CONSTANTS
  None = None
  Riders = {a}
  Drivers = {d}
  RideIds = {r}
  Conns = {c}
  Capacity = 4
  Faults = {}
  MaxWrites = 4
  MaxNotices = 0
PROPERTIES
  EveryStreamEndsWithRide
CHECK_DEADLOCK FALSE
