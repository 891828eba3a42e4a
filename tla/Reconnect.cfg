SPECIFICATION FairLineSpec
CONSTANTS
  w1 = w1
  w2 = w2
  Sockets = {w1, w2}
  NoSocket = NoSocket
  MaxAttempts = 2
INVARIANTS
  LineIsSound
  NoStorm
PROPERTIES
  RefusalIsFinal
  PageSettles
