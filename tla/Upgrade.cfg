SPECIFICATION FairUpSpec
CONSTANTS
  u1 = u1
  u2 = u2
  gateway = gateway
  command = command
  Users = {u1}
  Gateway = gateway
  Tools = {command}
  Releases = {0, 1, 2, 3, 4, 5, 6, 7}
  MaxStops = 2
  MaxCommands = 2
INVARIANTS
  ServesCurrentSchema
  AccountsKept
PROPERTIES
  DecisionsStand
  UpgradeEnds
