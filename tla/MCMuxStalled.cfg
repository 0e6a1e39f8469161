CONSTANTS
  NumStreams = 2
  MaxStreams = 2
  StreamCredit = 1
  ConnCredit = 2
  DataCap = 1
  WireCap = 1
  FromDesktop = 0
  FromDaemon = 2
  Stalled = {1}
  MaxFaults = 0
  MaxFins = 1
  Chunks <- MCChunks
SPECIFICATION MuxSpec
PROPERTY WriterServed
CHECK_DEADLOCK FALSE
