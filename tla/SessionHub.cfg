SPECIFICATION Spec
CONSTANTS
  u1 = u1
  u2 = u2
  c1 = c1
  c2 = c2
  p1 = p1
  p2 = p2
  Users = {u1}
  Conns = {c1, c2}
  Ptys = {p1, p2}
  UserOf <- TwoTabs
  MaxEvictions = 1
  MaxCloses = 1
  MaxAborts = 1
SYMMETRY TabSymmetry
INVARIANTS
  CountsAgree
  RosterSharesShell
  LiveEntryHasLoop
PROPERTIES
  ReaperSparesConnected
