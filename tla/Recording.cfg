SPECIFICATION FairSpec
CONSTANTS
  r1 = r1
  r2 = r2
  s1 = s1
  s2 = s2
  Recs = {r1, r2}
  Starters = {s1, s2}
  ChanCap = 1
  MaxTaps = 2
  MaxAborts = 1
  MaxSweeps = 1
  MaxBoots = 1
CHECK_DEADLOCK FALSE
INVARIANTS
  CompletedIsGapless
  ActiveRowHasWriter
PROPERTIES
  EndedFeedFinalises
