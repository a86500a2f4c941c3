\* A cancellation by a user who has no seat.
SPECIFICATION MCSpec
CONSTANTS
  Slots = {s1}
  Users = {u1, u2}
  Capacities = {1}
  NoUser = NoUser
  Ops <- MCSeatOps
  MaxPlaces = 3
INVARIANT NeverOverbooked
