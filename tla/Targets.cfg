SPECIFICATION Spec
CONSTANTS
  Globals = {g}
  UserTargets = {u}
  NameOf <- SharedName
  Sessions = {s1, s2}
  Conns = {w1, w2}
  Reloads = {a1, a2}
  Wordings = 2
  MaxAsked = 6
  MaxBoots = 1
SYMMETRY Interchangeable
CHECK_DEADLOCK FALSE
INVARIANTS
  SessionKeepsTarget
  ShellMatchesTarget
PROPERTIES
  ApprovedIsApplied
