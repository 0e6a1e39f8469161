CONSTANTS
  d1 = d1
  d2 = d2
  NoSha = NoSha
  Defs = {d1}
  Rank <- MCRank
  Revs = {r1}
  Issues = {}
  Prs = {}
  Shas = {}
  Slots = {}
  FilterReasons = {}
  MaxConcurrent = 1
  Grace = 1
  Retention = 1
  MaxRuns = 1
  MaxTime = 2
  ClockRegress = FALSE
  KeepStamps = TRUE
  Targets = {"prechecking", "running", "needs_you", "completed", "failed", "unknown", "timed_out", "skipped_precheck"}
  Duration = 1
  Schedule <- MCSchedule
  IntakeDef = d1
  AgentMoves = {"working", "awaiting", "reported", "exit_zero", "exit_nonzero", "gone"}
  Troubles <- MCCalm
SPECIFICATION RtSpec
INVARIANTS TimedOutMeansStopped
CHECK_DEADLOCK FALSE
