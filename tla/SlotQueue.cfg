CONSTANTS
  NTasks = 5
  Workers = 2
  WorkerQueueSize = 2
  MaxPosts = 2
  MaxRestarts = 1
SPECIFICATION QueueSpec
CHECK_DEADLOCK FALSE
INVARIANT SlotTypeOK
INVARIANT NoIdleSlot
PROPERTY InOrder
PROPERTY AcceptedStarts
PROPERTY QueueImplementsPool
