CONSTANTS
  d1 = d1
  d2 = d2
  NoSha = NoSha
  Defs = {d1}
  Rank <- MCRank
  Revs = {r1}
  Issues = {i1}
  Prs = {}
  Shas = {}
  Slots = {}
  FilterReasons = {"not_labelled"}
  MaxConcurrent = 1
  Grace = 0
  Retention = 1
  MaxRuns = 2
  MaxTime = 1
  ClockRegress = FALSE
  KeepStamps = TRUE
  Targets = {"prechecking", "running", "needs_you", "completed", "failed", "unknown", "timed_out", "skipped_precheck"}
  Duration = 1
  Schedule <- MCSchedule
  IntakeDef = d1
  AgentMoves = {"working", "awaiting", "exit_zero"}
  Troubles <- MCTroubles
SPECIFICATION RtSpec
INVARIANTS TypeRT LaunchDiscipline NoUnboundSurvivor OpenRunIsTended
PROPERTIES OpenRunSettles DueIsDecided Spec
CHECK_DEADLOCK FALSE
