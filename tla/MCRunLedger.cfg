CONSTANTS
  d1 = d1
  d2 = d2
  NoSha = NoSha
  Defs = {d1, d2}
  Rank <- MCRank
  Revs = {r1}
  Issues = {i1}
  Prs = {}
  Shas = {}
  Slots = {}
  FilterReasons = {"not_labelled"}
  MaxConcurrent = 1
  Grace = 1
  Retention = 1
  MaxRuns = 2
  MaxTime = 2
  ClockRegress = FALSE
  KeepStamps = FALSE
  Targets = {"reserved", "prechecking", "running", "needs_you", "completed", "failed"}
SPECIFICATION Spec
INVARIANTS TypeOK OpenWithinCapacity OccurrenceOnce EventOnce
PROPERTIES StatusMovesForward
CHECK_DEADLOCK FALSE
