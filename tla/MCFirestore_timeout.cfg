SPECIFICATION Spec
CONSTANTS
  Users = {1, 2}
  Spots = {s1}
  NoTable = NoTable
  MaxCalls = 2
  Backlog = 1
  Owned = {}
  MaxWrites = 0
INVARIANT AttemptTimesOut
CHECK_DEADLOCK FALSE
