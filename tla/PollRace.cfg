CONSTANTS
  Tasks = {t1}
  Slots = {s1}
  NoSlot = NoSlot
  WorkerQueueSize = 1
  AutoStop = FALSE
  Pollers = {p1}
  ClientOps = {"submit", "poll"}
  Timeouts = {}
  ToolsCanFail = FALSE
  Overdue = FALSE
  Retention = FALSE
  Restarts = FALSE
SPECIFICATION ManagerSpec
INVARIANT Downloadable
