CONSTANTS
  d1 = d1
  d2 = d2
  sha1 = sha1
  sha2 = sha2
  NoSha = NoSha
  Defs = {d1}
  Rank <- MCRank
  Revs = {r1}
  Issues = {i1}
  Prs = {pr}
  Shas = {sha1, sha2}
  Slots = {"triage-comment", "triage-label"}
  FilterReasons = {}
  MaxConcurrent = 1
  Grace = 0
  Retention = 1
  MaxRuns = 2
  MaxTime = 0
  ClockRegress = FALSE
  KeepStamps = FALSE
  Targets = {"running", "completed", "failed"}
  Drafts = {i1}
  Decided = {i1}
  ReviewDef = d1
  FirstSha = sha1
  Newer <- MCNewer
  MaxCrashes = 1
  MaxEdits = 1
  MaxFaults = 1
SPECIFICATION PubSpec
INVARIANTS TypePub PublishedExists
PROPERTIES EffectsOnce NewestHeadClaimed PendingSettles
CHECK_DEADLOCK FALSE
