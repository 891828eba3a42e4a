SPECIFICATION Spec
CONSTANTS
  Globals = {g}
  UserTargets = {u}
  NameOf <- OwnName
  Sessions = {s1}
  Conns = {w1}
  Reloads = {a1}
  Wordings = 2
  MaxAsked = 4
  MaxBoots = 0
CHECK_DEADLOCK FALSE
PROPERTIES
  RefusalIsForDrop
