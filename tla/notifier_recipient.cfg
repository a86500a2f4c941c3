\* Two participants of one slot are reminded by one process.
SPECIFICATION NotifierSpec
CONSTANTS
  Slots = {s1}
  Users = {u1, u2}
  Capacities = {2}
  NoUser = NoUser
  NoMail = NoMail
  Ops <- MCNotifierOps
  WindowFrom = 1
  WindowTo = 2
  Starts <- MCStarts
  MaxTime = 4
  MaxFaults = 2
PROPERTY MailsReachTheirUser
