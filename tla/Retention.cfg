SPECIFICATION FairSpec
CONSTANTS
  Recs = {r1, r2}
  Shares = {s}
  Viewers = {v1, v2}
  Deleters = {d}
  TtlDays = 1
  Batch = 1
  MaxUses = 1
  MaxAsked = 3
  MaxMishaps = 1
CHECK_DEADLOCK FALSE
INVARIANTS
  FilesAccounted
  SharesAccounted
PROPERTIES
  DeletionIsMeant
  ExpiredIsCleaned
