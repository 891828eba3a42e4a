SPECIFICATION Spec
CONSTANTS
  s1 = s1
  s2 = s2
  i1 = i1
  i2 = i2
  h1 = h1
  h2 = h2
  Sessions = {s1, s2}
  Owner = owner
  Users = {u1}
  Guests = {g1}
  Invites = {i1, i2}
  UseLimit = 2
  Redeemers = {h1, h2}
  Closers = {"owner", "reaper"}
  MaxAsked = 4
  MaxBoots = 1
SYMMETRY Alike
CHECK_DEADLOCK FALSE
INVARIANTS
  UsesAreMemberships
  ClosedIsEmpty
  SeatsInOrder
