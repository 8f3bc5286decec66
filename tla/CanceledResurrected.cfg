CONSTANTS
  Tasks = {t1}
  Slots = {s1}
  NoSlot = NoSlot
  WorkerQueueSize = 1
  AutoStop = FALSE
  Pollers = {}
  ClientOps = {"submit", "stop"}
  Timeouts = {}
  ToolsCanFail = FALSE
  Overdue = FALSE
  Retention = FALSE
  Restarts = FALSE
SPECIFICATION ManagerSpec
PROPERTY CanceledIsFinal
