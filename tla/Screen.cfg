SPECIFICATION FairScreenSpec
CONSTANTS
  g1 = g1
  g2 = g2
  Pages = {g1, g2}
  RingCap = 2
  ScrollCap = 4
  EndOf <- UnevenEnds
  MaxChunks = 5
  MaxAttaches = 2
CHECK_DEADLOCK FALSE
INVARIANTS
  ScrollbackIsWindow
PROPERTIES
  FeedRefined
  CatchesUp
