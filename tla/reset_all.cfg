\* Two failed statements and a restart, at any moment of three weeks.
SPECIFICATION ResetFairSpec
CONSTANTS
  Slots = {s1}
  Users = {u1, u2}
  Capacities = {1}
  NoUser = NoUser
  Ops <- MCResetOps
  MaxWeek = 3
  MaxFailures = 2
  MaxRestarts = 1
INVARIANTS ResetTypeOK ListsAreHonoured RepeatsNeedFaults
PROPERTY ResetHappens
