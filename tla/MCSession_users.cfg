SPECIFICATION Spec
CONSTANTS
  a = a
  b = b
  Users = {a, b}
  NoUser = NoUser
  MaxTaps = 2
  MaxTasks = 2
INVARIANTS TypeOK OwnMap OneProfileEach PhotoHasImage ImagesGoByOwner 
PROPERTY SignInEnds
CHECK_DEADLOCK FALSE
