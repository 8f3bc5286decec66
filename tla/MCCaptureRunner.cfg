CONSTANTS
  Tasks = {t1, t2}
  Slots = {s1}
  NoSlot = NoSlot
  WorkerQueueSize = 1
  AutoStop = TRUE
SPECIFICATION Spec
SYMMETRY TaskSymmetry
INVARIANT TypeOK
INVARIANT SlotOwnership
INVARIANT SessionIsLive
INVARIANT QueuedWillRun
INVARIANT DispatchedOnce
INVARIANT JoiningHasRunner
INVARIANT CancelledIsPending
PROPERTY RunnerImplementsPool
