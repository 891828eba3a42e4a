SPECIFICATION Spec
CONSTANTS
  u1 = u1
  u2 = u2
  c1 = c1
  c2 = c2
  r1 = r1
  r2 = r2
  Users = {u1, u2}
  Conns = {c1, c2}
  UserOf <- OneEach
  Requests = {r1, r2}
  CollabCap = 2
  ChatCap = 1
  MaxJoins = 2
  MaxChats = 1
SYMMETRY EachSymmetry
CHECK_DEADLOCK FALSE
INVARIANTS
  RosterConverges
  ChatOnce
  GateFollowsRole
