CONSTANTS
  d1 = d1
  d2 = d2
  sha1 = sha1
  sha2 = sha2
  NoSha = NoSha
  Defs = {d1}
  Rank <- MCRank
  Revs = {r1}
  Issues = {i1}
  Prs = {}
  Shas = {sha1, sha2}
  Slots = {}
  FilterReasons = {}
  MaxConcurrent = 1
  Grace = 0
  Retention = 1
  MaxRuns = 1
  MaxTime = 0
  ClockRegress = FALSE
  KeepStamps = FALSE
  Targets = {"running", "completed", "failed"}
  Drafts = {i1}
  Decided = {}
  ReviewDef = d1
  FirstSha = sha1
  Newer <- MCNewer
  MaxCrashes = 1
  MaxEdits = 1
  MaxFaults = 0
SPECIFICATION PubSpec
INVARIANTS UncertaintyKept
CHECK_DEADLOCK FALSE
