\* No capacity is changed and no account deleted.
SPECIFICATION MCSpec
CONSTANTS
  Slots = {s1, s2}
  Users = {u1, u2, u3}
  Capacities = {0, 1, 2}
  NoUser = NoUser
  Ops <- MCSlotOps
  MaxPlaces = 6
SYMMETRY Symmetry
INVARIANTS QueueOnlyWhenFull OnePlaceEach
PROPERTY SeatsGoToTheHead
