\* Every kind of request in two workers, two slots, one seat each.
SPECIFICATION Spec
CONSTANTS
  Slots = {s1, s2}
  Users = {u1, u2}
  Workers = {w1, w2}
  Capacities = {1}
  NoUser = NoUser
  Nobody = Nobody
  Ops <- MCAllOps
  MaxPlaces = 2
SYMMETRY Symmetry
INVARIANTS TypeOK FreeRowsAreCommitted OnlyManyUsersDeadlock CommittedRowsAgree
PROPERTIES CommitsAreAtomic AtomicSpec
