\* Two workers whose cancellations can wait for each other, under fairness.
SPECIFICATION FairSpec
CONSTANTS
  Slots = {s1, s2}
  Users = {u1, u2}
  Workers = {w1, w2}
  Capacities = {1}
  NoUser = NoUser
  Nobody = Nobody
  Ops <- MCSeatOps
  MaxPlaces = 2
PROPERTY EveryRequestEnds
INVARIANT CommittedSeats
