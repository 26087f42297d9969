SPECIFICATION Spec
CONSTANTS
  Users = {1, 2}
  Spots = {s1}
  NoTable = NoTable
  MaxCalls = 2
  Backlog = 1
  Owned = {1}
  MaxWrites = 1
INVARIANTS TypeOK AnsweredOnce AnsweredInOrder NoLostWakeup NoLostEvent TimerSound PendingWritesShow OwnNeverStale
PROPERTIES PromiseKept EveryReadAnswered
CHECK_DEADLOCK FALSE
