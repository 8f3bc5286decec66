CONSTANTS
  Tasks = {t1}
  Slots = {s1}
  NoSlot = NoSlot
  WorkerQueueSize = 1
  AutoStop = TRUE
  Pollers = {p1}
  ClientOps = {"submit", "stop", "delete", "poll"}
  Timeouts = {"drain", "append", "stop"}
  ToolsCanFail = TRUE
  Overdue = TRUE
  Retention = TRUE
  Restarts = TRUE
SPECIFICATION ManagerSpec
INVARIANT ManagerTypeOK
INVARIANT OneFinalize
INVARIANT AbortHasOwner
INVARIANT EndedHasNoSession
PROPERTY ManagerImplementsRunner
PROPERTY NothingNewWhileConverting
