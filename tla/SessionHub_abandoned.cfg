SPECIFICATION FairSpec
CONSTANTS
  u1 = u1
  u2 = u2
  c1 = c1
  c2 = c2
  p1 = p1
  p2 = p2
  Users = {u1}
  Conns = {c1, c2}
  Ptys = {p1}
  UserOf <- TwoTabs
  MaxEvictions = 0
  MaxCloses = 0
  MaxAborts = 1
PROPERTY AbandonedSessionCloses
