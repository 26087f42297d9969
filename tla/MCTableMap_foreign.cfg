SPECIFICATION Spec
CONSTANTS
  s1 = s1
  s2 = s2
  origin = origin
  Users = {1, 2}
  Spots = {s1, s2, origin}
  Origin = origin
  NoTable = NoTable
  Me = 1
  SpotsOf <- DisjointSpots
  MaxCalls = 4
INVARIANTS OnlyOwnDeleted
CHECK_DEADLOCK FALSE
