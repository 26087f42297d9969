SPECIFICATION Spec
CONSTANTS
  s1 = s1
  s2 = s2
  origin = origin
  Users = {1}
  Spots = {s1, origin}
  Origin = origin
  NoTable = NoTable
  Me = 1
  SpotsOf <- AloneSpot
  MaxCalls = 6
PROPERTIES TableAppears
CHECK_DEADLOCK FALSE
