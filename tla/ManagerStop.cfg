CONSTANTS
  Tasks = {t1}
  Slots = {s1}
  NoSlot = NoSlot
  WorkerQueueSize = 1
  AutoStop = FALSE
  Pollers = {p1}
  ClientOps = {"submit", "stop", "poll"}
  Timeouts = {"drain", "append", "stop"}
  ToolsCanFail = TRUE
  Overdue = FALSE
  Retention = TRUE
  Restarts = TRUE
SPECIFICATION ManagerSpec
INVARIANT CaptureCanEnd
INVARIANT NoBrowserIsLeft
 
