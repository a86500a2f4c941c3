\* Every kind of request, one slot at a time, deleted accounts included.
SPECIFICATION MCSpec
CONSTANTS
  Slots = {s1, s2}
  Users = {u1, u2}
  Capacities = {1, 2}
  NoUser = NoUser
  Ops <- MCAllOps
  MaxPlaces = 3
SYMMETRY Symmetry
INVARIANTS TypeOK RowsAgree
PROPERTIES OnlyPromotionOverfills EmptyAccountsLeaveCleanly
