\* Two users and one slot, a window of four ticks, two faults.
SPECIFICATION NotifierSpec
CONSTANTS
  Slots = {s1}
  Users = {u1, u2}
  Capacities = {2}
  NoUser = NoUser
  NoMail = NoMail
  Ops <- MCNotifierOps
  WindowFrom = 1
  WindowTo = 4
  Starts <- MCStarts
  MaxTime = 5
  MaxFaults = 2
SYMMETRY Symmetry
INVARIANTS NotifierTypeOK RemindersAreMade
PROPERTY NothingMissed
