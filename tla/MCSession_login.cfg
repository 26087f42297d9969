SPECIFICATION Spec
CONSTANTS
  a = a
  b = b
  Users = {a, b}
  NoUser = NoUser
  MaxTaps = 2
  MaxTasks = 0
PROPERTY LoginLoadsMap
CHECK_DEADLOCK FALSE
