SPECIFICATION FairSpec
CONSTANTS
  h1 = h1
  h2 = h2
  Handlers = {h1, h2}
  CmdCap = 1
  InCap = 1
  OutCap = 1
  TtyCap = 1
  MaxTyped = 5
  MaxPrinted = 2
CHECK_DEADLOCK FALSE
PROPERTIES
  SessionEnds
INVARIANTS
  NothingLost
  FinalOutputDelivered
