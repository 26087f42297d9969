SPECIFICATION Spec
CONSTANTS
  near = near
  far = far
  Users = {1, 2}
  Spots = {near, far}
  NoTable = NoTable
  MaxCalls = 3
  Distance <- NearFar
INVARIANTS TypeOK OneRowEach CellsHaveRows ShownUntilSearch 
CHECK_DEADLOCK FALSE
