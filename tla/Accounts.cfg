SPECIFICATION Spec
CONSTANTS
  c1 = c1
  c2 = c2
  l1 = l1
  l2 = l2
  Regs = {c1, c2}
  Logins = {l1, l2}
  Sockets = {w}
  Strikes = 2
  MaxAsked = 5
  MaxBoots = 1
SYMMETRY Alike
CHECK_DEADLOCK FALSE
INVARIANTS
  MailedCodeKept
  ThrottleHolds
  AccessFollowsPassword
  DisabledIsDetached
