CONSTANTS
  Tasks = {t1, t2}
  Slots = {s1}
  NoSlot = NoSlot
  WorkerQueueSize = 1
  AutoStop = FALSE
  Pollers = {}
  ClientOps = {"submit", "stop"}
  Timeouts = {"drain", "append"}
  ToolsCanFail = TRUE
  Overdue = FALSE
  Retention = TRUE
  Restarts = FALSE
SPECIFICATION ManagerSpec
INVARIANT Downloadable
PROPERTY PcmFileKept
