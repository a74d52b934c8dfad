SPECIFICATION FairSpec
CONSTANTS
  None = None
  p1 = p1
  p2 = p2
  Riders = {u}
  Places = {p1, p2}
  Cells = {p1, p2}
  CellOf <- MCCellOf
  Box <- MCBox
  Distances = {1001}
  Threads = {t1, t2}
  Capacity = 2
  Window = 2
  SurgeTtl = 2
  MaxResults = 1
  RideIds = {r1, r2}
INVARIANTS
  TypeOK
  BoundedBurst
  CountersExpire
  FareOfOwnCell
PROPERTIES
  RefusedRecover
  SurgeRefreshed
