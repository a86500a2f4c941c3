\* Cancellations on two slots whose promotions need each other's users rows.
SPECIFICATION Spec
CONSTANTS
  Slots = {s1, s2}
  Users = {u1, u2}
  Workers = {w1, w2}
  Capacities = {1}
  NoUser = NoUser
  Nobody = Nobody
  Ops <- MCSeatOps
  MaxPlaces = 2
SYMMETRY Symmetry
INVARIANT NoWaitCycle
