SPECIFICATION Spec
CONSTANTS
  Recs = {r1}
  Shares = {s}
  Viewers = {v1}
  Deleters = {d}
  TtlDays = 1
  Batch = 1
  MaxUses = 1
  MaxAsked = 2
  MaxMishaps = 0
CHECK_DEADLOCK FALSE
PROPERTY PermanentIsKept
