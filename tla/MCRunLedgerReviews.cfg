CONSTANTS
  d1 = d1
  d2 = d2
  NoSha = NoSha
  Defs = {d1}
  Rank <- MCRank
  Revs = {r1}
  Issues = {}
  Prs = {pr}
  Shas = {a, b}
  Slots = {bell}
  FilterReasons = {}
  MaxConcurrent = 2
  Grace = 1
  Retention = 1
  MaxRuns = 2
  MaxTime = 1
  ClockRegress = TRUE
  KeepStamps = TRUE
  Targets = {"prechecking", "running", "completed", "failed"}
SPECIFICATION Spec
INVARIANTS OneOpenRunPerDefinition
PROPERTIES AuthorityKept
CHECK_DEADLOCK FALSE
