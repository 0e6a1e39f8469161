CONSTANTS
  NumStreams = 2
  MaxStreams = 2
  StreamCredit = 1
  ConnCredit = 1
  DataCap = 1
  WireCap = 1
  FromDesktop = 0
  FromDaemon = 2
  Stalled = {}
  MaxFaults = 1
  MaxFins = 2
  Chunks <- MCChunks
SPECIFICATION MuxSafe
INVARIANTS TypeMux NoFalseAccusation OrderlyEndIsComplete ConnectionCreditWhole
CHECK_DEADLOCK FALSE
