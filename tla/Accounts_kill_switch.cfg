SPECIFICATION Spec
CONSTANTS
  c1 = c1
  c2 = c2
  l1 = l1
  l2 = l2
  Regs = {}
  Logins = {l1, l2}
  Sockets = {w}
  Strikes = 2
  MaxAsked = 2
  MaxBoots = 0
CHECK_DEADLOCK FALSE
PROPERTIES
  GateBlocksAttach
