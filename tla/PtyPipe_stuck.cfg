SPECIFICATION FairSpec
CONSTANTS
  h1 = h1
  h2 = h2
  Handlers = {h1}
  CmdCap = 1
  InCap = 1
  OutCap = 1
  TtyCap = 1
  MaxTyped = 5
  MaxPrinted = 1
CHECK_DEADLOCK FALSE
PROPERTIES
  UnlistedShellDies
