CONSTANTS
  Tasks = {t1}
  Slots = {s1}
  NoSlot = NoSlot
  WorkerQueueSize = 1
  AutoStop = FALSE
  Pollers = {}
  ClientOps = {"submit", "stop"}
  Timeouts = {"drain", "append", "stop"}
  ToolsCanFail = TRUE
  Overdue = FALSE
  Retention = TRUE
  Restarts = FALSE
SPECIFICATION FairManagerSpec
 
 
INVARIANT CapturingIsAttended
