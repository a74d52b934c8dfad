SPECIFICATION FairSpec
CONSTANTS
  None = None
  Riders = {a}
  Drivers = {d}
  RideIds = {r}
  Conns = {c}
  Capacity = 2
  Faults = {"lost", "dies"}
  MaxWrites = 4
  MaxNotices = 1
INVARIANTS
  TypeOK
  MembersAreOpen
  NothingLostInThePump
  CloseFollowsFinish
PROPERTIES
  StreamsEndWithRide
  DisconnectsNoticed
CHECK_DEADLOCK FALSE
