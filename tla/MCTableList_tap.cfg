SPECIFICATION Spec
CONSTANTS
  near = near
  far = far
  Users = {1, 2}
  Spots = {near, far}
  NoTable = NoTable
  MaxCalls = 2
  Distance <- NearFar
INVARIANT TapLeadsToRow
CHECK_DEADLOCK FALSE
