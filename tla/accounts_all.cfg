\* Two workers, two accounts, one email they may share one after the other.
SPECIFICATION Spec
CONSTANTS
  Accounts = {a1, a2}
  Emails = {e1}
  Passwords = {p1, p2}
  Gyms = {g1}
  Amounts <- MCAmounts
  MaxHours = 3
  Workers = {w1, w2}
  Nobody = Nobody
  NoAccount = NoAccount
  NoValue = NoValue
SYMMETRY Symmetry
INVARIANTS TypeOK EmailsAreUnique HoursAddUp ReadsFailForTheDeleted WaitsEnd
PROPERTIES LoginsAreGenuine TokensNeedAnAccount RequestsAreAtomic AtomicAccountsSpec
