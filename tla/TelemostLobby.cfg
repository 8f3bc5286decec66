SPECIFICATION HistorySpec
CHECK_DEADLOCK FALSE
INVARIANT WaitingIsJoining
