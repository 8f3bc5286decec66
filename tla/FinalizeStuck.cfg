CONSTANTS
  Tasks = {t1}
  Slots = {s1}
  NoSlot = NoSlot
  WorkerQueueSize = 1
  AutoStop = FALSE
  Pollers = {}
  ClientOps = {"submit"}
  Timeouts = {}
  ToolsCanFail = FALSE
  Overdue = TRUE
  Retention = FALSE
  Restarts = FALSE
SPECIFICATION FairManagerSpec
PROPERTY FinalizeEnds
