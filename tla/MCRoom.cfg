CONSTANTS
  MaxConns = 4
  QueueCap = 2
  SessionCap = 2
  MaxData = 2
  MaxCuts = 1
  MaxDrops = 1
  MaxTimeouts = 1
SPECIFICATION RoomSpec
INVARIANTS TypeRoom RoomsStayApart
PROPERTY NoSilentGap
CHECK_DEADLOCK FALSE
