SPECIFICATION FairSpec
CONSTANTS
  r1 = r1
  r2 = r2
  s1 = s1
  s2 = s2
  Recs = {r1}
  Starters = {s1}
  ChanCap = 1
  MaxTaps = 1
  MaxAborts = 1
  MaxSweeps = 0
  MaxBoots = 0
CHECK_DEADLOCK FALSE
PROPERTIES
  DeadWriterReleasesSlot
