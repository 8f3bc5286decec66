CONSTANTS
  NFrames = 2
  MaxChunks = 2
  MaxSegments = 3
SPECIFICATION BrowserSpec
CHECK_DEADLOCK FALSE
INVARIANT BrowserTypeOK
INVARIANT UrlsReachTheirMeeting
INVARIANT SteadyIsKept
INVARIANT NoChunkTwice
INVARIANT SavedIsComplete
INVARIANT AudioInOrder
PROPERTY EndIsNoticed
PROPERTY SilenceIsNoticed
PROPERTY StopEnds
