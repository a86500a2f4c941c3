---------------------------- MODULE AccountsProofs ----------------------------
(***************************************************************************)
(* Accounts for any number of workers, accounts and gyms.  The invariant   *)
(* says what each worker may rely on at each of its statements, although   *)
(* others commit in between: a row it has locked stays as it read it, the  *)
(* email it inserts stays free, and of what it read without a lock it      *)
(* knows that it was so at some time since the request began.  What each   *)
(* answer promises until its commit, at the end of the module, makes every *)
(* commit a step of AtomicAccounts.                                        *)
(***************************************************************************)
EXTENDS Accounts, TLAPS

Sessions == {"refresh", "getUserHours", "banUser", "deleteUser", "addUserHours",
             "addGym", "addAdminToGym"}

Finished(p) == pc[p] = "commit" /\ answer[p] = "ok"
Registering(p) == Finished(p) /\ req[p].op = "createAccount"
Adding(p) == Finished(p) /\ req[p].op = "addUserHours"
Opening(p) == req[p].op = "addGym" /\ (pc[p] = "createGym" \/ Finished(p))

(* Which requests can be at which step.                                    *)
StepOK(p) ==
  /\ pc[p] = "idle" <=> req[p] = NoRequest
  /\ pc[p] \in {"findEmail", "lockFound", "insert"} => req[p].op = "createAccount"
  /\ pc[p] \in {"readPassword", "readId"} => req[p].op = "login"
  /\ pc[p] = "readAdmin" => req[p].op \in {"login", "refresh"}
  /\ pc[p] \in {"userExists", "readHours"} => req[p].op = "getUserHours"
  /\ pc[p] = "createGym" => req[p].op = "addGym"
  /\ pc[p] = "addAdmin" => req[p].op = "addAdminToGym"
  /\ req[p].op \in Sessions => acct[p] = req[p].user
  /\ pc[p] = "lockFound" => acct[p] \in Accounts
  /\ pc[p] = "idle" => value[p] = NoValue

(* What a writer has locked, or claimed by its INSERT.                     *)
WriterOK(p) ==
  /\ Registering(p) =>
       /\ acct[p] \in Accounts
       /\ users[acct[p]].st = "unborn"
       /\ \A a \in Accounts : Live(a) => users[a].email # req[p].email
  /\ Adding(p) =>
       /\ lock[acct[p]] = p
       /\ value[p] \in Hours /\ req[p].amount \in Hours
       /\ value[p] = users[acct[p]].hours + req[p].amount
  /\ Opening(p) => lock[acct[p]] = p /\ users[acct[p]].admin

Checked(p) == pc[p] = "readAdmin" \/ Finished(p)
HasEmail(p, a) == a \in present[p] /\ users[a].email = req[p].email

(* What a reader knows of the accounts that were there.                    *)
ReaderOK(p) ==
  /\ req[p].op \in Readers =>
       \A a \in Accounts : /\ Live(a) => a \in present[p]
                           /\ a \in present[p] => users[a].st # "unborn"
  /\ req[p].op = "getUserHours" =>
       /\ pc[p] = "readHours" => acct[p] \in present[p]
       /\ pc[p] = "unwind" => acct[p] \in present[p] /\ ~Live(acct[p])
  /\ req[p].op \in {"login", "refresh"} /\ Finished(p) => acct[p] \in present[p]

LoginOK(p) ==
  req[p].op = "login" =>
    /\ pc[p] = "readPassword" => value[p] = NoValue
    /\ pc[p] \in {"readPassword", "readId"} => acct[p] = NoAccount
    /\ value[p] # NoValue =>
         \E a \in Accounts : HasEmail(p, a) /\ users[a].password = value[p]
    /\ Checked(p) => value[p] = req[p].password /\ (acct[p] = NoAccount \/ HasEmail(p, acct[p]))
    /\ (Checked(p) /\ acct[p] = NoAccount) \/ pc[p] = "unwind" =>
         \E a \in Accounts : HasEmail(p, a) /\ ~Live(a)

WorkerOK(p) == StepOK(p) /\ WriterOK(p) /\ ReaderOK(p) /\ LoginOK(p)

LocksOK == \A a \in Accounts : lock[a] # Nobody => Live(a)

ClaimsOK ==
  \A p, q \in Workers : p # q /\ Registering(p) /\ Registering(q) =>
    acct[p] # acct[q] /\ req[p].email # req[q].email

HoursOK ==
  \A a \in Accounts : /\ users[a].hours = added[a]
                      /\ users[a].st = "unborn" => added[a] = 0

AInv ==
  /\ TypeOK
  /\ \A p \in Workers : WorkerOK(p)
  /\ LocksOK /\ ClaimsOK /\ HoursOK
  /\ EmailsAreUnique

-----------------------------------------------------------------------------
LEMMA RequestFields ==
  ASSUME NEW r \in Requests \cup {NoRequest}
  PROVE  /\ r.op \in {"createAccount", "login"} => r.email \in Emails /\ r.password \in Passwords
         /\ r.op \in Sessions => r.user \in Accounts
         /\ r.op = "addUserHours" => r.amount \in Int
         /\ r.op \in {"addGym", "addAdminToGym"} => r.gym \in Gyms
         /\ r # NoRequest => r.op \in Sessions \cup {"createAccount", "login"}
<1>1. CASE r \in [op : {"createAccount", "login"}, email : Emails, password : Passwords]
  BY <1>1 DEF Sessions
<1>2. CASE r \in [op : {"refresh"}, user : Accounts]
  BY <1>2 DEF Sessions
<1>3. CASE r \in [op : {"getUserHours", "banUser", "deleteUser"}, user : Accounts]
  BY <1>3 DEF Sessions
<1>4. CASE r \in [op : {"addUserHours"}, user : Accounts, amount : Amounts]
  BY <1>4, HoursAssumption DEF Sessions
<1>5. CASE r \in [op : {"addGym", "addAdminToGym"}, user : Accounts, gym : Gyms]
  BY <1>5 DEF Sessions
<1>6. CASE r = NoRequest
  BY <1>6 DEF NoRequest, Sessions
<1> QED
  BY <1>1, <1>2, <1>3, <1>4, <1>5, <1>6 DEF Requests, AuthRequests, SessionRequests

LEMMA RowFields ==
  ASSUME NEW a \in Accounts, users \in [Accounts -> Row]
  PROVE  /\ users[a] \in Row
         /\ users[a].st \in {"unborn", "live", "gone"}
         /\ users[a].email \in Emails /\ users[a].password \in Passwords
         /\ users[a].hours \in Hours /\ users[a].hours \in Int
BY HoursAssumption DEF Row, Hours

LEMMA NewRowFields ==
  ASSUME NEW e \in Emails, NEW p \in Passwords
  PROVE  /\ NewRow(e, p) \in Row
         /\ NewRow(e, p).st = "live" /\ NewRow(e, p).email = e
         /\ NewRow(e, p).password = p /\ NewRow(e, p).hours = 0
BY HoursAssumption DEF NewRow, Row, Hours

(* The commits of others, as a worker sees them: rows are born and die,    *)
(* and keep their email and password.                                      *)
RowsKept ==
  \A a \in Accounts : users[a].st # "unborn" =>
    /\ users'[a].st # "unborn"
    /\ users'[a].email = users[a].email /\ users'[a].password = users[a].password
    /\ Live(a)' => Live(a)

LocalsKept(q) ==
  /\ pc'[q] = pc[q] /\ req'[q] = req[q] /\ acct'[q] = acct[q]
  /\ value'[q] = value[q] /\ answer'[q] = answer[q]

LEMMA OtherWorkerOK ==
  ASSUME TypeOK, NEW q \in Workers, WorkerOK(q), LocalsKept(q), RowsKept,
         \A a \in Accounts : lock[a] = q => lock'[a] = q /\ users'[a] = users[a],
         Registering(q) =>
           /\ users'[acct[q]].st = "unborn"
           /\ \A a \in Accounts : Live(a)' => users'[a].email # req[q].email,
         req[q].op \in Readers =>
           /\ present[q] \subseteq present'[q]
           /\ \A a \in Accounts : /\ Live(a)' => a \in present'[q]
                                  /\ a \in present'[q] => users'[a].st # "unborn"
  PROVE  WorkerOK(q)'
<1>1. req[q] \in Requests \cup {NoRequest} /\ present[q] \subseteq Accounts
  BY DEF TypeOK
<1>2. StepOK(q)'
  BY DEF LocalsKept, WorkerOK, StepOK
<1>3. WriterOK(q)'
  <2>1. Registering(q)' <=> Registering(q)
    BY DEF LocalsKept, Registering, Finished
  <2>2. (Adding(q)' <=> Adding(q)) /\ (Opening(q)' <=> Opening(q))
    BY DEF LocalsKept, Adding, Opening, Finished
  <2>3. Adding(q) \/ Opening(q) => acct[q] \in Accounts
    BY <1>1, RequestFields DEF WorkerOK, StepOK, Adding, Opening, Sessions
  <2> QED
    BY <2>1, <2>2, <2>3 DEF WorkerOK, WriterOK, LocalsKept
<1>4. ReaderOK(q)'
  <2>1. req[q].op = "getUserHours" => acct[q] \in Accounts
    BY <1>1, RequestFields DEF WorkerOK, StepOK, Sessions
  <2>2. Finished(q)' <=> Finished(q)
    BY DEF LocalsKept, Finished
  <2>3. req[q].op \in {"login", "refresh", "getUserHours"} => req[q].op \in Readers
    BY DEF Readers
  <2>4. req[q].op = "getUserHours" =>
          /\ pc'[q] = "readHours" => acct'[q] \in present'[q]
          /\ pc'[q] = "unwind" => acct'[q] \in present'[q] /\ ~Live(acct[q])'
    BY <2>1, <2>3 DEF WorkerOK, ReaderOK, LocalsKept, RowsKept
  <2>5. req[q].op \in {"login", "refresh"} /\ Finished(q)' => acct'[q] \in present'[q]
    BY <2>2, <2>3 DEF WorkerOK, ReaderOK, LocalsKept
  <2> QED
    BY <2>4, <2>5 DEF ReaderOK, LocalsKept
<1>5. LoginOK(q)'
  <2> SUFFICES ASSUME req[q].op = "login" PROVE LoginOK(q)'
    BY DEF LoginOK, LocalsKept
  <2>1. \A a \in Accounts : HasEmail(q, a) =>
          /\ HasEmail(q, a)' /\ users'[a].password = users[a].password
          /\ ~Live(a) => ~Live(a)'
    BY DEF WorkerOK, ReaderOK, Readers, HasEmail, RowsKept, LocalsKept
  <2>2. Checked(q)' <=> Checked(q)
    BY DEF LocalsKept, Checked, Finished
  <2>3. HasEmail(q, acct[q]) => acct[q] \in Accounts
    BY <1>1 DEF HasEmail
  <2> QED
    BY <2>1, <2>2, <2>3 DEF LocalsKept, WorkerOK, LoginOK
<1> QED
  BY <1>2, <1>3, <1>4, <1>5 DEF WorkerOK

LEMMA NoRequestFields ==
  /\ NoRequest.op \notin Sessions \cup Readers \cup {"createAccount", "login"}
  /\ \A r \in Requests : r # NoRequest
<1>1. NoRequest.op = "none"
  BY DEF NoRequest
<1>2. ASSUME NEW r \in Requests PROVE r.op # "none"
  BY <1>2 DEF Requests, AuthRequests, SessionRequests
<1> QED
  BY <1>1, <1>2 DEF Sessions, Readers

Replies == {"none", "ok", "invalid", "noAccess", "notFound"}

LocalTypes ==
  /\ pc \in [Workers -> Steps]
  /\ acct \in [Workers -> Accounts \cup {NoAccount}]
  /\ value \in [Workers -> Passwords \cup Hours \cup {NoValue}]
  /\ answer \in [Workers -> Replies]

(* A worker's step that writes no row: it may lock live rows that are free *)
(* and free the ones it has.                                               *)
LEMMA ReadingStep ==
  ASSUME AInv, NEW p \in Workers, TypeOK', WorkerOK(p)', users' = users, added' = added,
         \A q \in Workers : q # p => LocalsKept(q) /\ present'[q] = present[q],
         \A a \in Accounts : \/ lock'[a] = lock[a]
                             \/ lock[a] = p /\ lock'[a] = Nobody
                             \/ lock[a] = Nobody /\ lock'[a] = p /\ Live(a),
         Registering(p)' => \A q \in Workers : q # p /\ Registering(q) =>
                              acct'[p] # acct[q] /\ req'[p].email # req[q].email
  PROVE  AInv'
<1>1. RowsKept
  BY DEF RowsKept, Live
<1>2. ASSUME NEW q \in Workers, q # p PROVE WorkerOK(q)'
  <2>1. \A a \in Accounts : lock[a] = q => lock'[a] = q /\ users'[a] = users[a]
    BY <1>2, WorkersAssumption
  <2>2. WorkerOK(q) /\ LocalsKept(q) /\ present'[q] = present[q]
    BY <1>2 DEF AInv
  <2>3. Registering(q) => /\ users'[acct[q]].st = "unborn"
                          /\ \A a \in Accounts : Live(a)' => users'[a].email # req[q].email
    BY <2>2 DEF WorkerOK, WriterOK, Live
  <2>4. req[q].op \in Readers =>
          /\ present[q] \subseteq present'[q]
          /\ \A a \in Accounts : /\ Live(a)' => a \in present'[q]
                                 /\ a \in present'[q] => users'[a].st # "unborn"
    BY <2>2 DEF WorkerOK, ReaderOK, Live
  <2> QED
    BY <1>1, <2>1, <2>2, <2>3, <2>4, OtherWorkerOK DEF AInv
<1>3. LocksOK'
  BY WorkersAssumption DEF AInv, LocksOK, Live
<1>4. ClaimsOK'
  <2>1. \A q \in Workers : q # p => (Registering(q)' <=> Registering(q))
    BY DEF LocalsKept, Registering, Finished
  <2> QED
    BY <2>1 DEF AInv, ClaimsOK, LocalsKept
<1>5. HoursOK' /\ EmailsAreUnique'
  BY DEF AInv, HoursOK, EmailsAreUnique, Existing, Live
<1> QED
  BY <1>2, <1>3, <1>4, <1>5 DEF AInv

Locks(p) == pc[p] \in {"lock", "lockFound"} /\ acct[p] \in Accounts /\ lockUser(p)

LEMMA LocksRow ==
  ASSUME AInv, NEW p \in Workers, Locks(p)
  PROVE  /\ lock' \in [Accounts -> Workers \cup {Nobody}]
         /\ \A a \in Accounts : \/ lock'[a] = lock[a]
                                \/ lock[a] = Nobody /\ lock'[a] = p /\ Live(a)
         /\ Live(acct[p]) => lock'[acct[p]] = p
<1>1. lock \in [Accounts -> Workers \cup {Nobody}] /\ acct[p] \in Accounts
  BY DEF AInv, TypeOK, Locks
<1>2. Live(acct[p]) => lock[acct[p]] \in {Nobody, p}
  <2> SUFFICES ASSUME Live(acct[p]), lock[acct[p]] \in Workers, lock[acct[p]] # p PROVE FALSE
    BY <1>1
  <2>1. WaitsFor(p, lock[acct[p]])
    BY DEF WaitsFor, Locks
  <2> QED
    BY <2>1 DEF Locks, lockUser, Waits
<1>3. CASE Live(acct[p])
  <2>1. lock' = [lock EXCEPT ![acct[p]] = p]
    BY <1>3 DEF Locks, lockUser
  <2>2. lock' \in [Accounts -> Workers \cup {Nobody}] /\ lock'[acct[p]] = p
        /\ \A a \in Accounts : a # acct[p] => lock'[a] = lock[a]
    BY <1>1, <2>1
  <2>3. \A a \in Accounts : \/ lock'[a] = lock[a]
                            \/ lock[a] = Nobody /\ lock'[a] = p /\ Live(a)
    BY <1>2, <1>3, <2>2
  <2> QED
    BY <2>2, <2>3
<1>4. CASE ~Live(acct[p])
  <2>1. lock' = lock
    BY <1>4 DEF Locks, lockUser
  <2> QED
    BY <1>1, <1>4, <2>1
<1> QED
  BY <1>3, <1>4

(* One statement of a request, up to the next.                             *)
Statement(p) ==
  /\ LocalTypes'
  /\ \A q \in Workers : q # p => LocalsKept(q)
  /\ req' = req
  /\ \/ lock' = lock
     \/ Locks(p)
  /\ UNCHANGED << tables, history >>

LEMMA StatementStep ==
  ASSUME AInv, NEW p \in Workers, Statement(p), WorkerOK(p)',
         Registering(p)' => \A q \in Workers : q # p /\ Registering(q) =>
                              acct'[p] # acct[q] /\ req'[p].email # req[q].email
  PROVE  AInv'
<1>1. lock' \in [Accounts -> Workers \cup {Nobody}]
  BY LocksRow DEF AInv, TypeOK, Statement
<1>2. \A a \in Accounts : \/ lock'[a] = lock[a]
                          \/ lock[a] = Nobody /\ lock'[a] = p /\ Live(a)
  BY LocksRow DEF AInv, TypeOK, Statement
<1>3. UNCHANGED << users, gyms, tokens, added, present, req >>
  BY DEF Statement, tables, history
<1>4. TypeOK'
  BY <1>1, <1>3 DEF AInv, TypeOK, Statement, LocalTypes, Replies, Answers
<1> QED
  BY <1>2, <1>3, <1>4, ReadingStep DEF Statement

LEMMA AdvanceLocals ==
  ASSUME AInv, NEW p \in Workers, NEW to \in Steps, NEW a \in Replies,
         Goto(p, to) \/ (to = "commit" /\ Reply(p, a)),
         acct' = acct \/ \E b \in Accounts : acct' = [acct EXCEPT ![p] = b],
         value' = value \/ \E v \in Passwords \cup Hours : value' = [value EXCEPT ![p] = v],
         req' = req
  PROVE  /\ LocalTypes'
         /\ \A q \in Workers : q # p => LocalsKept(q)
         /\ pc'[p] = to
         /\ \A b \in Accounts : acct' = [acct EXCEPT ![p] = b] => acct'[p] = b
         /\ \A v : value' = [value EXCEPT ![p] = v] => value'[p] = v
         /\ Goto(p, to) => answer'[p] = answer[p]
         /\ Reply(p, a) => answer'[p] = a
<1>1. pc' = [pc EXCEPT ![p] = to]
  BY DEF Goto, Reply
<1>2. pc \in [Workers -> Steps] /\ acct \in [Workers -> Accounts \cup {NoAccount}]
      /\ value \in [Workers -> Passwords \cup Hours \cup {NoValue}] /\ answer \in [Workers -> Replies]
  BY DEF AInv, TypeOK, Replies, Answers
<1>3. answer' = answer \/ answer' = [answer EXCEPT ![p] = a]
  BY DEF Goto, Reply
<1>4. pc' \in [Workers -> Steps] /\ answer' \in [Workers -> Replies]
  BY <1>1, <1>2, <1>3
<1>5. acct' \in [Workers -> Accounts \cup {NoAccount}]
  BY <1>2
<1>6. value' \in [Workers -> Passwords \cup Hours \cup {NoValue}]
  BY <1>2
<1>7. \A q \in Workers : q # p => LocalsKept(q)
  BY <1>1, <1>2, <1>3 DEF LocalsKept
<1>8. Goto(p, to) => answer'[p] = answer[p]
  BY DEF Goto
<1>9. Reply(p, a) => answer'[p] = a
  BY <1>2 DEF Reply
<1> QED
  BY <1>1, <1>2, <1>4, <1>5, <1>6, <1>7, <1>8, <1>9 DEF LocalTypes

(* One statement of each kind.                                             *)

(* What a statement leaves as it is.                                       *)
Frame(p) ==
  /\ req' = req /\ users' = users /\ present' = present
  /\ req[p] \in Requests \cup {NoRequest}
  /\ present[p] \subseteq Accounts
  /\ NoAccount \notin Accounts

LEMMA StatementFrame ==
  ASSUME AInv, NEW p \in Workers, UNCHANGED << tables, history, req >>
  PROVE  Frame(p)
BY WorkersAssumption DEF AInv, TypeOK, Frame, tables, history

(* A statement that ends in an answer other than ok, or goes on to one     *)
(* where nothing has to be known yet.                                      *)
LEMMA PlainStep ==
  ASSUME AInv, NEW p \in Workers, NEW to \in Steps, NEW a \in Replies \ {"ok"},
         \/ Goto(p, to) /\ \/ to = "insert" /\ req[p].op = "createAccount"
                           \/ to = "unwind" /\ req[p].op \notin {"login", "getUserHours"}
         \/ to = "commit" /\ Reply(p, a),
         pc[p] # "idle",
         acct' = acct \/ (req[p].op \in {"createAccount", "login"}
                            /\ \E b \in Accounts : acct' = [acct EXCEPT ![p] = b]),
         lock' = lock \/ Locks(p),
         UNCHANGED << tables, history, req, value >>
  PROVE  AInv'
<1>1. /\ LocalTypes' /\ \A q \in Workers : q # p => LocalsKept(q)
      /\ pc'[p] = to
      /\ Goto(p, to) => answer'[p] = answer[p]
      /\ Reply(p, a) => answer'[p] = a
  BY AdvanceLocals
<1>2. Statement(p)
  BY <1>1 DEF Statement
<1>3. Frame(p)
  BY StatementFrame
<1>4. req[p].op \in Sessions => acct'[p] = acct[p]
  BY DEF Sessions
<1>5. ~Finished(p)' /\ pc'[p] \notin {"idle", "createGym", "readAdmin", "readHours", "readPassword",
                                      "readId", "lockFound"}
  BY <1>1 DEF Finished
<1>6. StepOK(p)'
  BY <1>1, <1>3, <1>4, <1>5 DEF AInv, WorkerOK, StepOK, Frame, Finished
<1>7. WriterOK(p)' /\ ReaderOK(p)'
  BY <1>1, <1>3, <1>5
     DEF AInv, WorkerOK, WriterOK, ReaderOK, Frame, Registering, Adding, Opening, Live
<1>8. LoginOK(p)'
  <2>1. ~Checked(p)'
    BY <1>5 DEF Checked, Finished
  <2>2. req[p].op = "login" => pc'[p] # "unwind"
    BY <1>1
  <2> QED
    BY <1>1, <1>3, <1>5, <2>1, <2>2 DEF AInv, WorkerOK, LoginOK, HasEmail, Frame
<1>9. ~Registering(p)'
  BY <1>5 DEF Registering
<1> QED
  BY <1>2, <1>6, <1>7, <1>8, <1>9, StatementStep DEF WorkerOK

LEMMA CreateAccountSteps ==
  ASSUME AInv, NEW p \in Workers, emailExists(p) \/ lockFound(p) \/ createUser(p)
  PROVE  AInv'
<1>1. req[p].op = "createAccount" /\ pc[p] # "idle"
  BY DEF AInv, WorkerOK, StepOK, emailExists, lockFound, createUser
<1>2. {"insert", "unwind", "commit", "lockFound"} \subseteq Steps /\ "invalid" \in Replies \ {"ok"}
      /\ "ok" \in Replies
  BY DEF Steps, Replies, Answers
<1>3. UNCHANGED << tables, history, req, value >>
  BY DEF emailExists, lockFound, createUser
<1>4. CASE emailExists(p)
  <2>1. CASE Goto(p, "insert") /\ UNCHANGED acct
    BY <1>1, <1>2, <1>3, <1>4, <2>1, PlainStep DEF emailExists
  <2>2. CASE \E a \in Named(req[p].email) : acct' = [acct EXCEPT ![p] = a] /\ Goto(p, "lockFound")
    <3>1. PICK a \in Accounts : acct' = [acct EXCEPT ![p] = a] /\ Goto(p, "lockFound")
      BY <2>2 DEF Named, Existing
    <3>2. /\ LocalTypes' /\ \A q \in Workers : q # p => LocalsKept(q)
          /\ pc'[p] = "lockFound" /\ acct'[p] = a
      BY <1>2, <1>3, <3>1, AdvanceLocals
    <3>3. Statement(p) /\ Frame(p)
      BY <1>3, <1>4, <3>2, StatementFrame DEF Statement, emailExists
    <3>4. WorkerOK(p)' /\ ~Registering(p)'
      BY <1>1, <3>2, <3>3
         DEF WorkerOK, StepOK, WriterOK, ReaderOK, LoginOK, Registering, Adding, Opening,
             Finished, Frame, Sessions, Readers, NoRequest
    <3> QED
      BY <3>3, <3>4, StatementStep
  <2> QED
    BY <1>4, <2>1, <2>2 DEF emailExists
<1>5. CASE lockFound(p)
  <2>1. acct[p] \in Accounts
    BY <1>5 DEF AInv, WorkerOK, StepOK, lockFound
  <2> QED
    BY <1>1, <1>2, <1>3, <1>5, <2>1, PlainStep DEF lockFound, Locks
<1>6. CASE createUser(p)
  <2>1. CASE Goto(p, "unwind") /\ UNCHANGED acct
    BY <1>1, <1>2, <1>3, <1>6, <2>1, PlainStep DEF createUser
  <2>2. CASE /\ Named(req[p].email) = {}
             /\ \E a \in Accounts \ {acct[q] : q \in {v \in Workers : pc[v] = "commit"}} :
                  /\ users[a].st = "unborn"
                  /\ acct' = [acct EXCEPT ![p] = a]
                  /\ Reply(p, "ok")
    <3>1. PICK a \in Accounts \ {acct[q] : q \in {v \in Workers : pc[v] = "commit"}} :
                  /\ users[a].st = "unborn"
                  /\ acct' = [acct EXCEPT ![p] = a]
                  /\ Reply(p, "ok")
      BY <2>2
    <3>2. /\ LocalTypes' /\ \A q \in Workers : q # p => LocalsKept(q)
          /\ pc'[p] = "commit" /\ acct'[p] = a /\ answer'[p] = "ok"
      BY <1>2, <1>3, <3>1, AdvanceLocals
    <3>3. Statement(p) /\ Frame(p)
      BY <1>3, <1>6, <3>2, StatementFrame DEF Statement, createUser
    <3>4. \A b \in Accounts : Live(b) => users[b].email # req[p].email
      BY <2>2 DEF Named, Existing
    <3>5. WorkerOK(p)'
      BY <1>1, <3>1, <3>2, <3>3, <3>4
         DEF WorkerOK, StepOK, WriterOK, ReaderOK, LoginOK, Registering, Adding, Opening,
             Finished, Frame, Sessions, Readers, NoRequest, Live
    <3>6. ASSUME NEW q \in Workers, q # p, Registering(q)
          PROVE  acct'[p] # acct[q] /\ req'[p].email # req[q].email
      <4>1. acct[q] \in {acct[r] : r \in {v \in Workers : pc[v] = "commit"}}
        BY <3>6 DEF Registering, Finished
      <4>2. req[q].email # req[p].email
        BY <1>6, <3>6 DEF Registering, Finished, createUser, Inserting, Waits, WaitsFor
      <4> QED
        BY <3>1, <3>2, <3>3, <4>1, <4>2 DEF Frame
    <3> QED
      BY <3>3, <3>5, <3>6, StatementStep
  <2> QED
    BY <1>6, <2>1, <2>2 DEF createUser
<1> QED
  BY <1>4, <1>5, <1>6

-----------------------------------------------------------------------------
(* The readers: what they have seen is true of some time since they began. *)
LEMMA GetPasswordStep ==
  ASSUME AInv, NEW p \in Workers, getPasswordByEmail(p)
  PROVE  AInv'
<1>1. /\ req[p].op = "login" /\ pc[p] = "readPassword" /\ acct[p] = NoAccount /\ value[p] = NoValue
      /\ req[p] # NoRequest
  BY DEF AInv, WorkerOK, StepOK, LoginOK, getPasswordByEmail
<1>2. /\ Goto(p, "readId") /\ UNCHANGED << tables, history, req, acct, lock >>
      /\ \/ UNCHANGED value
         \/ \E a \in Named(req[p].email) : value' = [value EXCEPT ![p] = users[a].password]
  BY DEF getPasswordByEmail
<1>3. \A a \in Accounts : users[a].password \in Passwords
  BY RowFields DEF AInv, TypeOK
<1>4. value' = value \/ \E v \in Passwords \cup Hours : value' = [value EXCEPT ![p] = v]
  BY <1>2, <1>3 DEF Named, Existing
<1>5. "readId" \in Steps /\ "none" \in Replies
  BY DEF Steps, Replies, Answers
<1>6. /\ LocalTypes' /\ \A q \in Workers : q # p => LocalsKept(q)
      /\ pc'[p] = "readId"
      /\ \A v : value' = [value EXCEPT ![p] = v] => value'[p] = v
  BY <1>2, <1>4, <1>5, AdvanceLocals
<1>7. Statement(p) /\ Frame(p)
  BY <1>2, <1>6, StatementFrame DEF Statement
<1>8. value'[p] # NoValue =>
        \E a \in Accounts : HasEmail(p, a)' /\ users'[a].password = value'[p]
  <2>1. CASE UNCHANGED value
    BY <1>1, <2>1
  <2>2. CASE \E a \in Named(req[p].email) : value' = [value EXCEPT ![p] = users[a].password]
    <3>1. PICK a \in Accounts : /\ Live(a) /\ users[a].email = req[p].email
                                /\ value' = [value EXCEPT ![p] = users[a].password]
      BY <2>2 DEF Named, Existing
    <3>2. a \in present[p]
      BY <1>1, <3>1 DEF AInv, WorkerOK, ReaderOK, Readers
    <3> QED
      BY <1>6, <1>7, <3>1, <3>2 DEF HasEmail, Frame
  <2> QED
    BY <1>2, <2>1, <2>2
<1>9. StepOK(p)'
  BY <1>1, <1>6, <1>7 DEF StepOK, Frame, Sessions
<1>10. WriterOK(p)' /\ ReaderOK(p)' /\ ~Registering(p)'
  BY <1>1, <1>6, <1>7
     DEF AInv, WorkerOK, WriterOK, ReaderOK, Frame, Registering, Adding, Opening, Finished, Live
<1>11. LoginOK(p)'
  BY <1>1, <1>2, <1>6, <1>7, <1>8 DEF LoginOK, Checked, Finished, Frame
<1> QED
  BY <1>7, <1>9, <1>10, <1>11, StatementStep DEF WorkerOK

LEMMA GetUserIdStep ==
  ASSUME AInv, NEW p \in Workers, getUserIdByEmail(p)
  PROVE  AInv'
<1>1. req[p].op = "login" /\ pc[p] = "readId" /\ acct[p] = NoAccount /\ req[p] # NoRequest
  BY DEF AInv, WorkerOK, StepOK, LoginOK, getUserIdByEmail
<1>2. /\ UNCHANGED << tables, history, req, value, lock >>
      /\ \/ Named(req[p].email) = {} /\ UNCHANGED acct
         \/ \E a \in Named(req[p].email) : acct' = [acct EXCEPT ![p] = a]
      /\ IF value[p] = req[p].password THEN Goto(p, "readAdmin") ELSE Reply(p, "noAccess")
  BY DEF getUserIdByEmail, verifyPassword
<1>3. {"readAdmin", "commit"} \subseteq Steps /\ "noAccess" \in Replies \ {"ok"}
  BY DEF Steps, Replies, Answers
<1>4. acct' = acct \/ \E b \in Accounts : acct' = [acct EXCEPT ![p] = b]
  BY <1>2 DEF Named, Existing
<1>5. CASE Reply(p, "noAccess")
  BY <1>1, <1>2, <1>3, <1>4, <1>5, PlainStep
<1>6. CASE Goto(p, "readAdmin") /\ value[p] = req[p].password
  <2>1. /\ LocalTypes' /\ \A q \in Workers : q # p => LocalsKept(q)
        /\ pc'[p] = "readAdmin"
        /\ \A b \in Accounts : acct' = [acct EXCEPT ![p] = b] => acct'[p] = b
    BY <1>2, <1>3, <1>4, <1>6, AdvanceLocals
  <2>2. Statement(p) /\ Frame(p)
    BY <1>2, <2>1, StatementFrame DEF Statement
  <2>3. value[p] # NoValue
    <3>1. req[p].password \in Passwords
      BY <1>1, <2>2, RequestFields DEF Frame
    <3> QED
      BY <1>6, <3>1, ValuesAssumption
  <2>4. PICK a \in Accounts : HasEmail(p, a) /\ users[a].password = value[p]
    BY <1>1, <2>3 DEF AInv, WorkerOK, LoginOK
  <2>5. \/ acct'[p] \in Accounts /\ HasEmail(p, acct[p])'
        \/ acct'[p] = NoAccount /\ ~Live(a)
    <3>1. CASE Named(req[p].email) = {} /\ UNCHANGED acct
      BY <1>1, <2>4, <3>1 DEF Named, Existing, HasEmail
    <3>2. CASE \E b \in Named(req[p].email) : acct' = [acct EXCEPT ![p] = b]
      <4>1. PICK b \in Accounts : Live(b) /\ users[b].email = req[p].email /\ acct' = [acct EXCEPT ![p] = b]
        BY <3>2 DEF Named, Existing
      <4>2. b \in present[p]
        BY <1>1, <4>1 DEF AInv, WorkerOK, ReaderOK, Readers
      <4> QED
        BY <2>1, <2>2, <4>1, <4>2 DEF HasEmail, Frame
    <3> QED
      BY <1>2, <3>1, <3>2
  <2>6. HasEmail(p, a)' /\ users'[a].password = value'[p] /\ value'[p] = req'[p].password
        /\ (~Live(a) => ~Live(a)')
    BY <1>2, <1>6, <2>2, <2>4 DEF HasEmail, Frame, Live
  <2>7. StepOK(p)'
    BY <1>1, <2>1, <2>2 DEF StepOK, Frame, Sessions
  <2>8. WriterOK(p)' /\ ReaderOK(p)' /\ ~Registering(p)'
    BY <1>1, <2>1, <2>2
       DEF AInv, WorkerOK, WriterOK, ReaderOK, Frame, Registering, Adding, Opening, Finished, Live
  <2>9. LoginOK(p)'
    BY <2>1, <2>2, <2>5, <2>6 DEF LoginOK, Frame
  <2> QED
    BY <2>2, <2>7, <2>8, <2>9, StatementStep DEF WorkerOK
<1> QED
  BY <1>2, <1>5, <1>6

LEMMA IsAdminStep ==
  ASSUME AInv, NEW p \in Workers, isAdmin(p)
  PROVE  AInv'
<1>1. req[p].op \in {"login", "refresh"} /\ pc[p] = "readAdmin" /\ Checked(p) /\ req[p] # NoRequest
  BY DEF AInv, WorkerOK, StepOK, isAdmin, Checked
<1>2. /\ UNCHANGED << tables, history, req, acct, value, lock >>
      /\ IF acct[p] \in Existing THEN Reply(p, "ok") ELSE Goto(p, "unwind")
  BY DEF isAdmin
<1>3. {"unwind", "commit"} \subseteq Steps /\ "ok" \in Replies
  BY DEF Steps, Replies, Answers
<1>4. PICK to \in {"unwind", "commit"} :
        IF acct[p] \in Existing THEN to = "commit" /\ Reply(p, "ok") ELSE to = "unwind" /\ Goto(p, to)
  BY <1>2
<1>5. /\ LocalTypes' /\ \A q \in Workers : q # p => LocalsKept(q)
      /\ pc'[p] = to
      /\ Reply(p, "ok") => answer'[p] = "ok"
  BY <1>2, <1>3, <1>4, AdvanceLocals
<1>6. Statement(p) /\ Frame(p)
  BY <1>2, <1>5, StatementFrame DEF Statement
<1>7. acct[p] \in Existing => acct[p] \in present[p] /\ acct[p] # NoAccount
  BY <1>1, <1>6 DEF AInv, WorkerOK, ReaderOK, Readers, Existing, Frame
<1>8. StepOK(p)'
  BY <1>1, <1>2, <1>4, <1>5, <1>6 DEF AInv, WorkerOK, StepOK, Frame
<1>9. WriterOK(p)' /\ ~Registering(p)'
  BY <1>1, <1>4, <1>5, <1>6 DEF WriterOK, Frame, Registering, Adding, Opening
<1>10. ReaderOK(p)'
  BY <1>1, <1>2, <1>4, <1>5, <1>6, <1>7
     DEF AInv, WorkerOK, ReaderOK, Frame, Readers, Finished, Live
<1>11. LoginOK(p)'
  <2> SUFFICES ASSUME req[p].op = "login" PROVE LoginOK(p)'
    BY <1>6 DEF LoginOK, Frame
  <2>1. /\ value[p] = req[p].password
        /\ acct[p] = NoAccount \/ HasEmail(p, acct[p])
        /\ value[p] # NoValue =>
             \E a \in Accounts : HasEmail(p, a) /\ users[a].password = value[p]
        /\ acct[p] = NoAccount => \E a \in Accounts : HasEmail(p, a) /\ ~Live(a)
    BY <1>1 DEF AInv, WorkerOK, LoginOK
  <2>2. \A a : /\ HasEmail(p, a)' <=> HasEmail(p, a)
               /\ Live(a)' <=> Live(a)
    BY <1>6 DEF HasEmail, Frame, Live
  <2>3. acct[p] \notin Existing => \E a \in Accounts : HasEmail(p, a) /\ ~Live(a)
    BY <1>6, <2>1 DEF HasEmail, Frame, Existing
  <2> QED
    BY <1>2, <1>4, <1>5, <1>6, <1>7, <2>1, <2>2, <2>3 DEF LoginOK, Frame, Checked
<1> QED
  BY <1>6, <1>8, <1>9, <1>10, <1>11, StatementStep DEF WorkerOK

LEMMA HoursReaders ==
  ASSUME AInv, NEW p \in Workers, userExists(p) \/ getUserHours(p)
  PROVE  AInv'
<1>1. /\ req[p].op = "getUserHours" /\ pc[p] \in {"userExists", "readHours"} /\ req[p] # NoRequest
      /\ acct[p] = req[p].user
  BY DEF AInv, WorkerOK, StepOK, userExists, getUserHours, Sessions
<1>2. acct[p] \in Accounts /\ users[acct[p]].hours \in Hours
  BY <1>1, RequestFields, RowFields DEF AInv, TypeOK, Sessions
<1>3. UNCHANGED << tables, history, req, acct, lock >>
  BY DEF userExists, getUserHours
<1>4. {"unwind", "commit", "readHours"} \subseteq Steps /\ "ok" \in Replies /\ "notFound" \in Replies
  BY DEF Steps, Replies, Answers
<1>5. PICK to \in {"unwind", "commit", "readHours"}, a \in {"ok", "notFound"} :
        /\ Goto(p, to) \/ (to = "commit" /\ Reply(p, a))
        /\ to = "unwind" => pc[p] = "readHours" /\ ~Live(acct[p])
        /\ to = "readHours" => Live(acct[p])
  BY DEF userExists, getUserHours
<1>6. value' = value \/ \E v \in Passwords \cup Hours : value' = [value EXCEPT ![p] = v]
  BY <1>2 DEF userExists, getUserHours
<1>7. /\ LocalTypes' /\ \A q \in Workers : q # p => LocalsKept(q)
      /\ pc'[p] = to
  BY <1>3, <1>4, <1>5, <1>6, AdvanceLocals
<1>8. Statement(p) /\ Frame(p)
  BY <1>3, <1>7, StatementFrame DEF Statement
<1>9. StepOK(p)'
  BY <1>1, <1>3, <1>5, <1>7, <1>8 DEF StepOK, Frame
<1>10. WriterOK(p)' /\ LoginOK(p)' /\ ~Registering(p)'
  BY <1>1, <1>8 DEF WriterOK, LoginOK, Frame, Registering, Adding, Opening
<1>11. ReaderOK(p)'
  <2>1. pc[p] = "readHours" \/ Live(acct[p]) => acct[p] \in present[p]
    BY <1>1, <1>2 DEF AInv, WorkerOK, ReaderOK, Readers
  <2> QED
    BY <1>1, <1>2, <1>3, <1>5, <1>7, <1>8, <2>1 DEF AInv, WorkerOK, ReaderOK, Frame, Live
<1> QED
  BY <1>8, <1>9, <1>10, <1>11, StatementStep DEF WorkerOK

-----------------------------------------------------------------------------
(* The statements that lock a row.                                         *)
LEMMA LockingSteps ==
  ASSUME AInv, NEW p \in Workers,
         addUserHours(p) \/ banUser(p) \/ deleteUser(p) \/ addGym(p)
  PROVE  AInv'
<1>1. /\ req[p].op \in {"addUserHours", "banUser", "deleteUser", "addGym"} /\ pc[p] = "lock"
      /\ req[p] # NoRequest /\ acct[p] = req[p].user
      /\ lockUser(p) /\ UNCHANGED << tables, req, acct, history >>
  BY DEF AInv, WorkerOK, StepOK, Sessions, addUserHours, banUser, deleteUser, addGym
<1>2. acct[p] \in Accounts /\ users[acct[p]] \in Row /\ Locks(p)
  <2>1. req[p] \in Requests \cup {NoRequest} /\ users \in [Accounts -> Row]
    BY DEF AInv, TypeOK
  <2> QED
    BY <1>1, <2>1, RequestFields, RowFields DEF Sessions, Locks
<1>3. /\ {"unwind", "commit", "createGym"} \subseteq Steps
      /\ "ok" \in Replies /\ {"notFound", "noAccess"} \subseteq Replies \ {"ok"}
  BY DEF Steps, Replies, Answers
<1>4. CASE /\ UNCHANGED value
           /\ Goto(p, "unwind") \/ Reply(p, "notFound") \/ Reply(p, "noAccess")
  BY <1>1, <1>2, <1>3, <1>4, PlainStep
<1>5. ASSUME \/ Reply(p, "ok")
             \/ Goto(p, "createGym") /\ req[p].op = "addGym",
             value' = value \/ \E v \in Passwords \cup Hours : value' = [value EXCEPT ![p] = v],
             req[p].op = "addUserHours" =>
               /\ Live(acct[p])
               /\ fits(req[p].amount) /\ fits(users[acct[p]].hours + req[p].amount)
               /\ value' = [value EXCEPT ![p] = users[acct[p]].hours + req[p].amount],
             req[p].op = "addGym" => Live(acct[p]) /\ users[acct[p]].admin
      PROVE  AInv'
  <2> PICK to \in {"commit", "createGym"} :
         \/ to = "commit" /\ Reply(p, "ok")
         \/ to = "createGym" /\ Goto(p, to) /\ req[p].op = "addGym"
    BY <1>5
  <2>1. /\ LocalTypes' /\ \A q \in Workers : q # p => LocalsKept(q)
        /\ pc'[p] = to
        /\ \A v : value' = [value EXCEPT ![p] = v] => value'[p] = v
    BY <1>1, <1>3, <1>5, AdvanceLocals
  <2>2. Statement(p) /\ Frame(p)
    BY <1>1, <1>2, <2>1, StatementFrame DEF Statement
  <2>3. Live(acct[p]) => lock'[acct[p]] = p
    BY <1>2, LocksRow
  <2>4. StepOK(p)'
    BY <1>1, <1>5, <2>1, <2>2 DEF StepOK, Frame
  <2>5. WriterOK(p)' /\ ~Registering(p)'
    BY <1>1, <1>5, <2>1, <2>2, <2>3 DEF WriterOK, Registering, Adding, Opening, Finished, Frame, fits
  <2>6. ReaderOK(p)' /\ LoginOK(p)'
    BY <1>1, <2>2 DEF ReaderOK, LoginOK, Frame, Readers
  <2> QED
    BY <2>2, <2>4, <2>5, <2>6, StatementStep DEF WorkerOK
<1>6. CASE addUserHours(p)
  <2> DEFINE total == users[acct[p]].hours + req[p].amount
  <2>1. req[p].op = "addUserHours"
    BY <1>6 DEF addUserHours
  <2>2. \/ UNCHANGED value /\ (Reply(p, "notFound") \/ Goto(p, "unwind"))
        \/ /\ Live(acct[p]) /\ fits(req[p].amount) /\ fits(total)
           /\ value' = [value EXCEPT ![p] = total] /\ Reply(p, "ok")
    BY <1>6 DEF addUserHours
  <2>3. CASE /\ Live(acct[p]) /\ fits(req[p].amount) /\ fits(total)
             /\ value' = [value EXCEPT ![p] = total] /\ Reply(p, "ok")
    <3>1. \E v \in Passwords \cup Hours : value' = [value EXCEPT ![p] = v]
      BY <2>3 DEF fits
    <3> HIDE DEF total
    <3>2. req[p].op # "addGym"
      BY <2>1
    <3> QED
      BY <1>5, <2>1, <2>3, <3>1, <3>2 DEF total
  <2> QED
    BY <1>4, <2>2, <2>3
<1>7. CASE banUser(p) \/ deleteUser(p)
  <2>1. req[p].op \notin {"addUserHours", "addGym"} /\ value' = value
    BY <1>7 DEF banUser, deleteUser
  <2>2. Reply(p, "ok") \/ Reply(p, "notFound")
    BY <1>7 DEF banUser, deleteUser
  <2>3. Reply(p, "ok") => AInv'
    BY <1>5, <2>1
  <2> QED
    BY <1>4, <2>1, <2>2, <2>3
<1>8. CASE addGym(p)
  BY <1>1, <1>4, <1>5, <1>8 DEF addGym
<1> QED
  BY <1>6, <1>7, <1>8

LEMMA CreateGymStep ==
  ASSUME AInv, NEW p \in Workers, createGym(p)
  PROVE  AInv'
<1>1. /\ req[p].op = "addGym" /\ pc[p] = "createGym" /\ Opening(p) /\ req[p] # NoRequest
      /\ UNCHANGED << tables, lock, req, acct, value, history >>
      /\ acct[p] = req[p].user
      /\ Reply(p, "ok") \/ Goto(p, "unwind")
  BY DEF AInv, WorkerOK, StepOK, Opening, createGym, Sessions
<1>2. {"unwind", "commit"} \subseteq Steps /\ "ok" \in Replies /\ "notFound" \in Replies \ {"ok"}
  BY DEF Steps, Replies, Answers
<1>3. CASE Goto(p, "unwind")
  BY <1>1, <1>2, <1>3, PlainStep
<1>4. CASE Reply(p, "ok")
  <2>1. /\ LocalTypes' /\ \A q \in Workers : q # p => LocalsKept(q)
        /\ pc'[p] = "commit"
    BY <1>1, <1>2, <1>4, AdvanceLocals
  <2>2. Statement(p) /\ Frame(p)
    BY <1>1, <2>1, StatementFrame DEF Statement
  <2>3. StepOK(p)'
    BY <1>1, <2>1, <2>2 DEF StepOK, Frame
  <2>4. WriterOK(p)' /\ ~Registering(p)'
    BY <1>1, <2>1, <2>2 DEF AInv, WorkerOK, WriterOK, Registering, Adding, Opening, Finished, Frame
  <2>5. ReaderOK(p)' /\ LoginOK(p)'
    BY <1>1, <2>2 DEF ReaderOK, LoginOK, Frame, Readers
  <2> QED
    BY <2>2, <2>3, <2>4, <2>5, StatementStep DEF WorkerOK
<1> QED
  BY <1>1, <1>3, <1>4

-----------------------------------------------------------------------------
(* The ends of a request.                                                  *)
LEMMA FinishedWorker ==
  ASSUME AInv, NEW p \in Workers, Finish(p)
  PROVE  /\ LocalTypes'
         /\ req' \in [Workers -> Requests \cup {NoRequest}]
         /\ lock' \in [Accounts -> Workers \cup {Nobody}]
         /\ \A a \in Accounts : lock'[a] = IF lock[a] = p THEN Nobody ELSE lock[a]
         /\ \A q \in Workers : q # p => LocalsKept(q)
         /\ WorkerOK(p)'
         /\ ~Registering(p)'
<1>1. LocalTypes'
  BY DEF AInv, TypeOK, Finish, LocalTypes, Steps, Replies, Answers
<1>2. req' \in [Workers -> Requests \cup {NoRequest}]
  BY DEF AInv, TypeOK, Finish
<1>3. /\ lock' \in [Accounts -> Workers \cup {Nobody}]
      /\ \A a \in Accounts : lock'[a] = IF lock[a] = p THEN Nobody ELSE lock[a]
  BY DEF AInv, TypeOK, Finish
<1>4. \A q \in Workers : q # p => LocalsKept(q)
  BY DEF AInv, TypeOK, Finish, LocalsKept
<1>5. pc'[p] = "idle" /\ req'[p] = NoRequest /\ value'[p] = NoValue
  BY DEF AInv, TypeOK, Finish
<1>6. StepOK(p)'
  BY <1>5, NoRequestFields DEF StepOK
<1>7. WriterOK(p)' /\ ReaderOK(p)' /\ LoginOK(p)' /\ ~Registering(p)'
  BY <1>5, NoRequestFields DEF WriterOK, ReaderOK, LoginOK, Registering, Adding, Opening, Finished, Readers
<1> QED
  BY <1>1, <1>2, <1>3, <1>4, <1>6, <1>7 DEF WorkerOK

LEMMA RollbackStep ==
  ASSUME AInv, NEW p \in Workers, Rollback(p)
  PROVE  AInv'
<1>1. /\ LocalTypes'
      /\ req' \in [Workers -> Requests \cup {NoRequest}]
      /\ lock' \in [Accounts -> Workers \cup {Nobody}]
      /\ \A a \in Accounts : lock'[a] = IF lock[a] = p THEN Nobody ELSE lock[a]
      /\ \A q \in Workers : q # p => LocalsKept(q)
      /\ WorkerOK(p)' /\ ~Registering(p)'
  BY FinishedWorker DEF Rollback
<1>2. UNCHANGED << users, gyms, tokens, added >> /\ present' = [present EXCEPT ![p] = {}]
  BY DEF Rollback, tables
<1>3. TypeOK'
  BY <1>1, <1>2 DEF AInv, TypeOK, LocalTypes, Replies, Answers
<1>4. \A q \in Workers : q # p => present'[q] = present[q]
  BY <1>2 DEF AInv, TypeOK
<1> QED
  BY <1>1, <1>2, <1>3, <1>4, ReadingStep

LEMMA AddAdminStep ==
  ASSUME AInv, NEW p \in Workers, addAdminToGym(p)
  PROVE  AInv'
<1>1. /\ LocalTypes'
      /\ req' \in [Workers -> Requests \cup {NoRequest}]
      /\ lock' \in [Accounts -> Workers \cup {Nobody}]
      /\ \A a \in Accounts : lock'[a] = IF lock[a] = p THEN Nobody ELSE lock[a]
      /\ \A q \in Workers : q # p => LocalsKept(q)
      /\ WorkerOK(p)' /\ ~Registering(p)'
  BY FinishedWorker DEF addAdminToGym
<1>2. UNCHANGED << users, tokens, added >> /\ present' = [present EXCEPT ![p] = {}]
  BY DEF addAdminToGym
<1>3. acct[p] \in Accounts
  <2>1. req[p].op = "addAdminToGym" /\ req[p] \in Requests \cup {NoRequest} /\ acct[p] = req[p].user
    BY DEF AInv, TypeOK, WorkerOK, StepOK, addAdminToGym, Sessions
  <2> QED
    BY <2>1, RequestFields DEF Sessions
<1>4. gyms' \in [Gyms -> SUBSET Accounts]
  BY <1>3 DEF AInv, TypeOK, addAdminToGym
<1>5. TypeOK'
  BY <1>1, <1>2, <1>4 DEF AInv, TypeOK, LocalTypes, Replies, Answers
<1>6. \A q \in Workers : q # p => present'[q] = present[q]
  BY <1>2 DEF AInv, TypeOK
<1> QED
  BY <1>1, <1>2, <1>5, <1>6, ReadingStep

LEMMA AcceptStep ==
  ASSUME AInv, NEW p \in Workers, Accept(p)
  PROVE  AInv'
<1>1. PICK r \in Requests :
        /\ pc[p] = "idle"
        /\ req' = [req EXCEPT ![p] = r]
        /\ acct' = [acct EXCEPT ![p] = IF r.op \in {"createAccount", "login"} THEN NoAccount ELSE r.user]
        /\ present' = [present EXCEPT ![p] = IF r.op \in Readers THEN Existing ELSE {}]
        /\ pc' = [pc EXCEPT ![p] = FirstStep(r.op)]
        /\ UNCHANGED << users, gyms, tokens, lock, value, answer, added >>
  BY DEF Accept, Goto, tables
<1>2. /\ FirstStep(r.op) \in {"findEmail", "readPassword", "readAdmin", "userExists", "addAdmin", "lock"}
      /\ FirstStep(r.op) = "findEmail" => r.op = "createAccount"
      /\ FirstStep(r.op) = "readPassword" <=> r.op = "login"
      /\ FirstStep(r.op) = "readAdmin" => r.op = "refresh"
      /\ FirstStep(r.op) = "userExists" => r.op = "getUserHours"
      /\ FirstStep(r.op) = "addAdmin" => r.op = "addAdminToGym"
  BY DEF FirstStep
<1>3. /\ pc' \in [Workers -> Steps] /\ pc'[p] = FirstStep(r.op)
      /\ \A q \in Workers : q # p => pc'[q] = pc[q]
  <2>1. FirstStep(r.op) \in Steps
    BY <1>2 DEF Steps
  <2> QED
    BY <1>1, <2>1 DEF AInv, TypeOK
<1>4. r # NoRequest /\ (r.op \in Sessions => r.user \in Accounts)
      /\ r.op \in Sessions \cup {"createAccount", "login"}
  BY RequestFields, NoRequestFields
<1>5. /\ req' \in [Workers -> Requests \cup {NoRequest}] /\ req'[p] = r
      /\ \A q \in Workers : q # p => req'[q] = req[q]
  BY <1>1 DEF AInv, TypeOK
<1>6. /\ acct' \in [Workers -> Accounts \cup {NoAccount}]
      /\ acct'[p] = IF r.op \in {"createAccount", "login"} THEN NoAccount ELSE r.user
      /\ \A q \in Workers : q # p => acct'[q] = acct[q]
  BY <1>1, <1>4 DEF AInv, TypeOK
<1>7. /\ present' \in [Workers -> SUBSET Accounts]
      /\ present'[p] = IF r.op \in Readers THEN Existing ELSE {}
      /\ \A q \in Workers : q # p => present'[q] = present[q]
  BY <1>1 DEF AInv, TypeOK, Existing
<1>8. TypeOK'
  BY <1>1, <1>3, <1>5, <1>6, <1>7 DEF AInv, TypeOK
<1>9. value'[p] = NoValue
  BY <1>1 DEF AInv, WorkerOK, StepOK
<1>10. StepOK(p)'
  BY <1>2, <1>3, <1>4, <1>5, <1>6 DEF StepOK, Sessions
<1>11. WriterOK(p)' /\ ~Registering(p)' /\ ~Finished(p)'
  BY <1>2, <1>3 DEF WriterOK, Registering, Adding, Opening, Finished
<1>12. ReaderOK(p)'
  BY <1>1, <1>2, <1>3, <1>5, <1>7, <1>11 DEF ReaderOK, Existing, Live
<1>13. LoginOK(p)'
  BY <1>2, <1>3, <1>5, <1>6, <1>9, <1>11 DEF LoginOK, Checked
<1>14. \A q \in Workers : q # p => LocalsKept(q)
  BY <1>1, <1>3, <1>5, <1>6 DEF LocalsKept
<1> QED
  BY <1>1, <1>7, <1>8, <1>10, <1>11, <1>12, <1>13, <1>14, ReadingStep DEF WorkerOK

LEMMA ExpireStep ==
  ASSUME AInv, Expire
  PROVE  AInv'
<1>1. UNCHANGED << users, gyms, lock, pc, req, acct, value, answer, added, present >>
      /\ tokens' \subseteq tokens
  BY DEF Expire, locals, history
<1>2. TypeOK'
  BY <1>1 DEF AInv, TypeOK
<1>3. ASSUME NEW p \in Workers PROVE WorkerOK(p)'
  <2>1. StepOK(p)' /\ WriterOK(p)'
    BY <1>1 DEF AInv, WorkerOK, StepOK, WriterOK, Registering, Adding, Opening, Finished, Live
  <2>2. ReaderOK(p)' /\ LoginOK(p)'
    BY <1>1 DEF AInv, WorkerOK, ReaderOK, LoginOK, Checked, HasEmail, Finished, Live
  <2> QED
    BY <2>1, <2>2 DEF WorkerOK
<1>4. LocksOK' /\ HoursOK' /\ EmailsAreUnique'
  BY <1>1 DEF AInv, LocksOK, HoursOK, EmailsAreUnique, Existing, Live
<1>5. ClaimsOK'
  BY <1>1 DEF AInv, ClaimsOK, Registering, Finished
<1> QED
  BY <1>2, <1>3, <1>4, <1>5 DEF AInv

(* What a commit may do to a row.                                          *)
Claims(p, a) == Registering(p) /\ a = acct[p]

Written(p, a) ==
  /\ lock[a] = p \/ Claims(p, a)
  /\ users'[a].st # "unborn" /\ users'[a].hours = added'[a]
  /\ lock[a] = p => /\ users'[a].email = users[a].email
                    /\ users'[a].password = users[a].password
  /\ Claims(p, a) => users'[a].email = req[p].email

LEMMA WrittenRows ==
  ASSUME AInv, NEW p \in Workers,
         \A a \in Accounts : \/ users'[a] = users[a] /\ added'[a] = added[a]
                             \/ Written(p, a)
  PROVE  /\ RowsKept
         /\ \A a \in Accounts : lock[a] \notin {p, Nobody} => users'[a] = users[a]
<1>1. \A a \in Accounts : Claims(p, a) => users[a].st = "unborn" /\ lock[a] = Nobody
  BY DEF AInv, WorkerOK, WriterOK, LocksOK, Claims, Live
<1>2. \A a \in Accounts : lock[a] = p => Live(a)
  BY WorkersAssumption DEF AInv, LocksOK
<1>3. RowsKept
  BY <1>1, <1>2 DEF RowsKept, Written, Live
<1> QED
  BY <1>1, <1>3 DEF Written

LEMMA WritingStep ==
  ASSUME AInv, NEW p \in Workers, Finish(p), Witness(p),
         users' \in [Accounts -> Row], added' \in [Accounts -> Int],
         gyms' \in [Gyms -> SUBSET Accounts], tokens' \subseteq Token,
         \A a \in Accounts : \/ users'[a] = users[a] /\ added'[a] = added[a]
                             \/ Written(p, a)
  PROVE  AInv'
<1>1. /\ LocalTypes'
      /\ req' \in [Workers -> Requests \cup {NoRequest}]
      /\ lock' \in [Accounts -> Workers \cup {Nobody}]
      /\ \A a \in Accounts : lock'[a] = IF lock[a] = p THEN Nobody ELSE lock[a]
      /\ \A q \in Workers : q # p => LocalsKept(q)
      /\ WorkerOK(p)' /\ ~Registering(p)'
  BY FinishedWorker
<1>2. present' \in [Workers -> SUBSET Accounts]
  <2>1. \A q \in Workers : present[q] \subseteq Accounts
    BY DEF AInv, TypeOK
  <2> QED
    BY <2>1 DEF Witness
<1>3. TypeOK'
  BY <1>1, <1>2 DEF TypeOK, LocalTypes, Replies, Answers
<1>4. \A a \in Accounts : Claims(p, a) =>
        /\ users[a].st = "unborn" /\ lock[a] = Nobody
        /\ \A b \in Accounts : Live(b) => users[b].email # req[p].email
  BY DEF AInv, WorkerOK, WriterOK, LocksOK, Claims, Live
<1>5. \A a \in Accounts : lock[a] = p => Live(a)
  BY WorkersAssumption DEF AInv, LocksOK
<1>6. RowsKept
  BY WrittenRows
<1>7. \A a \in Accounts : lock[a] \notin {p, Nobody} => users'[a] = users[a]
  BY WrittenRows
<1>8. ASSUME NEW q \in Workers, q # p PROVE WorkerOK(q)'
  <2>1. WorkerOK(q) /\ LocalsKept(q)
    BY <1>1, <1>8 DEF AInv
  <2>2. \A a \in Accounts : lock[a] = q => lock'[a] = q /\ users'[a] = users[a]
    BY <1>1, <1>7, <1>8, WorkersAssumption
  <2>3. ASSUME Registering(q)
        PROVE  /\ users'[acct[q]].st = "unborn"
               /\ \A a \in Accounts : Live(a)' => users'[a].email # req[q].email
    <3>1. /\ acct[q] \in Accounts /\ users[acct[q]].st = "unborn"
          /\ \A a \in Accounts : Live(a) => users[a].email # req[q].email
      BY <2>1, <2>3 DEF WorkerOK, WriterOK
    <3>2. ~Claims(p, acct[q]) /\ lock[acct[q]] # p
      BY <1>5, <1>8, <2>3, <3>1 DEF AInv, ClaimsOK, Claims, Live
    <3>3. users'[acct[q]] = users[acct[q]]
      BY <3>1, <3>2 DEF Written
    <3>4. Registering(p) => req[p].email # req[q].email
      BY <1>8, <2>3 DEF AInv, ClaimsOK
    <3>5. \A a \in Accounts : Live(a)' => users'[a].email # req[q].email
      BY <1>5, <3>1, <3>4 DEF Written, Claims, Live
    <3> QED
      BY <3>1, <3>3, <3>5
  <2>4. req[q].op \in Readers =>
          /\ present[q] \subseteq present'[q]
          /\ \A a \in Accounts : /\ Live(a)' => a \in present'[q]
                                 /\ a \in present'[q] => users'[a].st # "unborn"
    <3> SUFFICES ASSUME req[q].op \in Readers
                 PROVE  /\ present[q] \subseteq present'[q]
                        /\ \A a \in Accounts : /\ Live(a)' => a \in present'[q]
                                               /\ a \in present'[q] => users'[a].st # "unborn"
      OBVIOUS
    <3>1. present'[q] = present[q] \cup {a \in Accounts : users'[a].st = "live"}
      BY <1>8 DEF Witness
    <3>2. \A a \in Accounts : a \in present[q] => users[a].st # "unborn"
      BY <2>1 DEF WorkerOK, ReaderOK
    <3> QED
      BY <1>6, <3>1, <3>2 DEF RowsKept, Live
  <2> QED
    BY <1>6, <2>1, <2>2, <2>3, <2>4, OtherWorkerOK DEF AInv
<1>9. LocksOK'
  BY <1>1, <1>7 DEF AInv, LocksOK, Live
<1>10. ClaimsOK'
  <2>1. \A q \in Workers : q # p => (Registering(q)' <=> Registering(q))
    BY <1>1 DEF LocalsKept, Registering, Finished
  <2> QED
    BY <1>1, <2>1 DEF AInv, ClaimsOK, LocalsKept
<1>11. HoursOK'
  BY DEF AInv, HoursOK, Written
<1>12. EmailsAreUnique'
  <2>1. \A a \in Accounts : Live(a)' =>
          \/ Live(a) /\ users'[a].email = users[a].email
          \/ Claims(p, a) /\ users'[a].email = req[p].email
    BY <1>5 DEF Written, Live
  <2>2. \A a, b \in Accounts : Live(a) /\ Live(b) /\ users[a].email = users[b].email => a = b
    BY DEF AInv, EmailsAreUnique, Existing
  <2>3. \A a, b \in Accounts : Live(a)' /\ Live(b)' /\ users'[a].email = users'[b].email => a = b
    BY <1>4, <2>1, <2>2 DEF Claims
  <2> QED
    BY <2>3 DEF EmailsAreUnique, Existing
<1> QED
  BY <1>1, <1>3, <1>8, <1>9, <1>10, <1>11, <1>12 DEF AInv

(* What RemoveUser leaves of a row.                                        *)
RemovedRow(e, p) == [NewRow(e, p) EXCEPT !.st = "gone"]

LEMMA RemovedRowFields ==
  ASSUME NEW e \in Emails, NEW p \in Passwords
  PROVE  /\ RemovedRow(e, p) \in Row
         /\ RemovedRow(e, p).st = "gone" /\ RemovedRow(e, p).email = e
         /\ RemovedRow(e, p).password = p /\ RemovedRow(e, p).hours = 0
<1>1. NewRow(e, p) \in Row /\ NewRow(e, p).email = e /\ NewRow(e, p).password = p
      /\ NewRow(e, p).hours = 0
  BY NewRowFields
<1> DEFINE new == NewRow(e, p)
<1>2. RemovedRow(e, p) = [new EXCEPT !.st = "gone"]
  BY DEF RemovedRow
<1> HIDE DEF new
<1>3. new \in Row /\ new.email = e /\ new.password = p /\ new.hours = 0
  BY <1>1 DEF new
<1> QED
  BY <1>2, <1>3 DEF Row

LEMMA CommitWrites ==
  ASSUME AInv, NEW p \in Workers, Commit(p)
  PROVE  /\ users' \in [Accounts -> Row] /\ added' \in [Accounts -> Int]
         /\ gyms' \in [Gyms -> SUBSET Accounts] /\ tokens' \subseteq Token
         /\ \A a \in Accounts : \/ users'[a] = users[a] /\ added'[a] = added[a]
                                \/ Written(p, a)
<1>1. pc[p] = "commit"
  BY DEF Commit
<1>2. /\ users \in [Accounts -> Row] /\ added \in [Accounts -> Int]
      /\ gyms \in [Gyms -> SUBSET Accounts] /\ tokens \subseteq Token
      /\ req[p] \in Requests \cup {NoRequest}
      /\ present[p] \subseteq Accounts
      /\ WorkerOK(p)
  BY DEF AInv, TypeOK
<1>3. \A a \in Accounts : {make_access_token(a), make_refresh_token(a)} \subseteq Token
  BY DEF Token, make_access_token, make_refresh_token
<1>4. CASE req[p].op = "createAccount" /\ answer[p] = "ok" /\ Register(p)
  <2>1. Registering(p) /\ acct[p] \in Accounts /\ users[acct[p]].st = "unborn"
    BY <1>1, <1>2, <1>4 DEF Registering, Finished, WorkerOK, WriterOK
  <2>2. req[p].email \in Emails /\ req[p].password \in Passwords
    BY <1>2, <1>4, RequestFields
  <2> DEFINE new == NewRow(req[p].email, req[p].password)
  <2>3. new \in Row /\ new.st = "live" /\ new.email = req[p].email /\ new.hours = 0
    BY <2>2, NewRowFields
  <2> HIDE DEF new
  <2>4. users' = [users EXCEPT ![acct[p]] = new] /\ gyms' = gyms /\ added' = added
    BY <1>4 DEF Register, new
  <2>5. tokens' \subseteq Token
    BY <1>2, <1>3, <1>4, <2>1 DEF Register
  <2>6. users' \in [Accounts -> Row] /\ users'[acct[p]] = new
    BY <1>2, <2>1, <2>3, <2>4
  <2>7. \A a \in Accounts : a # acct[p] => users'[a] = users[a]
    BY <1>2, <2>4
  <2>8. added'[acct[p]] = 0 /\ lock[acct[p]] # p
    BY <2>1, <2>4, WorkersAssumption DEF AInv, HoursOK, LocksOK, Live
  <2>9. Written(p, acct[p])
    BY <2>1, <2>3, <2>6, <2>8 DEF Written, Claims
  <2> QED
    BY <1>1, <1>2, <2>4, <2>5, <2>6, <2>7, <2>9
<1>5. CASE /\ UNCHANGED << users, gyms, added >>
           /\ \/ tokens' = tokens
              \/ tokens' = tokens \cup {make_access_token(acct[p]), make_refresh_token(acct[p])}
                   /\ acct[p] \in Accounts
              \/ tokens' = tokens \cup {make_access_token(acct[p])} /\ acct[p] \in Accounts
  <2>1. tokens' \subseteq Token
    BY <1>2, <1>3, <1>5
  <2> QED
    BY <1>1, <1>2, <1>5, <2>1
<1>6. CASE req[p].op \in {"login", "refresh"} /\ answer[p] = "ok" /\ (StartSession(p) \/ RenewSession(p))
  <2>1. acct[p] \in Accounts
    BY <1>1, <1>2, <1>6 DEF WorkerOK, ReaderOK, Finished
  <2> QED
    BY <1>5, <1>6, <2>1 DEF StartSession, RenewSession
<1>7. CASE req[p].op = "addUserHours" /\ answer[p] = "ok" /\ WriteHours(p)
  <2>1. /\ lock[acct[p]] = p /\ value[p] \in Hours
        /\ value[p] = users[acct[p]].hours + req[p].amount
        /\ acct[p] = req[p].user
    BY <1>1, <1>2, <1>7 DEF WorkerOK, WriterOK, StepOK, Adding, Finished, Sessions
  <2>2. acct[p] \in Accounts /\ req[p].amount \in Int
    BY <1>2, <1>7, <2>1, RequestFields DEF Sessions
  <2>3. /\ users' = [users EXCEPT ![acct[p]].hours = value[p]]
        /\ added' = [added EXCEPT ![acct[p]] = @ + req[p].amount]
        /\ gyms' = gyms /\ tokens' = tokens
    BY <1>7 DEF WriteHours
  <2>4. users' \in [Accounts -> Row]
    BY <1>2, <2>1, <2>2, <2>3 DEF Row
  <2>5. \A a \in Accounts : a # acct[p] => users'[a] = users[a]
    BY <1>2, <2>3
  <2>6. added' \in [Accounts -> Int] /\ added'[acct[p]] = added[acct[p]] + req[p].amount
        /\ \A a \in Accounts : a # acct[p] => added'[a] = added[a]
    BY <1>2, <2>2, <2>3
  <2>7. Live(acct[p])
    BY <2>1, <2>2, WorkersAssumption DEF AInv, LocksOK
  <2>8. users[acct[p]] \in Row
    BY <1>2, <2>2
  <2>9. /\ users'[acct[p]].hours = value[p] /\ users'[acct[p]].st = "live"
        /\ users'[acct[p]].email = users[acct[p]].email
        /\ users'[acct[p]].password = users[acct[p]].password
    BY <1>2, <2>2, <2>3, <2>7, <2>8 DEF Row, Live
  <2>10. added[acct[p]] = users[acct[p]].hours
    BY <2>2 DEF AInv, HoursOK
  <2>11. users'[acct[p]].hours = added'[acct[p]]
    BY <2>1, <2>6, <2>9, <2>10
  <2>12. ~Claims(p, acct[p])
    BY <1>7 DEF Claims, Registering
  <2>13. Written(p, acct[p])
    BY <2>1, <2>9, <2>11, <2>12 DEF Written
  <2> QED
    BY <1>1, <1>2, <2>3, <2>4, <2>5, <2>6, <2>13
<1>8. CASE req[p].op = "deleteUser" /\ answer[p] = "ok" /\ RemoveUser(p)
  <2>1. gyms' = gyms /\ tokens' = tokens
    BY <1>8 DEF RemoveUser
  <2>2. acct[p] \in Accounts
    BY <1>2, <1>8, RequestFields DEF WorkerOK, StepOK, Sessions
  <2>3. CASE UNCHANGED << users, added >>
    BY <1>5, <2>1, <2>3
  <2>4. CASE /\ lock[acct[p]] = p
             /\ users' = [users EXCEPT ![acct[p]] = [NewRow(@.email, @.password) EXCEPT !.st = "gone"]]
             /\ added' = [added EXCEPT ![acct[p]] = 0]
    <3> DEFINE gone == RemovedRow(users[acct[p]].email, users[acct[p]].password)
    <3>1. users' = [users EXCEPT ![acct[p]] = gone]
      BY <2>2, <2>4 DEF RemovedRow
    <3>2. users[acct[p]].email \in Emails /\ users[acct[p]].password \in Passwords
      BY <1>2, <2>2, RowFields
    <3>3. gone \in Row /\ gone.st = "gone" /\ gone.email = users[acct[p]].email
          /\ gone.password = users[acct[p]].password /\ gone.hours = 0
      BY <3>2, RemovedRowFields
    <3> HIDE DEF gone
    <3>4. users' \in [Accounts -> Row] /\ users'[acct[p]] = gone
          /\ \A a \in Accounts : a # acct[p] => users'[a] = users[a]
      BY <1>2, <2>2, <3>1, <3>3
    <3>5. added' \in [Accounts -> Int] /\ added'[acct[p]] = 0
          /\ \A a \in Accounts : a # acct[p] => added'[a] = added[a]
      BY <1>2, <2>2, <2>4
    <3>6. ~Claims(p, acct[p])
      BY <1>8 DEF Claims, Registering
    <3>7. Written(p, acct[p])
      BY <2>4, <3>3, <3>4, <3>5, <3>6 DEF Written
    <3> QED
      BY <1>1, <1>2, <2>1, <3>4, <3>5, <3>7
  <2> QED
    BY <1>8, <2>3, <2>4 DEF RemoveUser
<1>9. CASE req[p].op = "addGym" /\ answer[p] = "ok" /\ OpenGym(p)
  <2>1. acct[p] \in Accounts
    BY <1>2, <1>9, RequestFields DEF WorkerOK, StepOK, Sessions
  <2>2. UNCHANGED << users, tokens, added >> /\ gyms' = [gyms EXCEPT ![req[p].gym] = {acct[p]}]
    BY <1>9 DEF OpenGym
  <2>3. gyms' \in [Gyms -> SUBSET Accounts]
    BY <1>2, <2>1, <2>2
  <2> QED
    BY <1>1, <1>2, <2>2, <2>3
<1>10. CASE UNCHANGED << tables, added >>
  BY <1>5, <1>10 DEF tables
<1> QED
  BY <1>4, <1>6, <1>7, <1>8, <1>9, <1>10 DEF Commit

LEMMA CommitStep ==
  ASSUME AInv, NEW p \in Workers, Commit(p)
  PROVE  AInv'
<1>1. Witness(p) /\ Finish(p)
  BY DEF Commit
<1> QED
  BY <1>1, CommitWrites, WritingStep

-----------------------------------------------------------------------------
LEMMA NextAInv ==
  ASSUME AInv, [Next]_vars
  PROVE  AInv'
<1>1. ASSUME NEW p \in Workers, Advance(p) PROVE AInv'
  <2>1. CASE emailExists(p) \/ lockFound(p) \/ createUser(p)
    BY <2>1, CreateAccountSteps
  <2>2. CASE getPasswordByEmail(p)
    BY <2>2, GetPasswordStep
  <2>3. CASE getUserIdByEmail(p)
    BY <2>3, GetUserIdStep
  <2>4. CASE isAdmin(p)
    BY <2>4, IsAdminStep
  <2>5. CASE userExists(p) \/ getUserHours(p)
    BY <2>5, HoursReaders
  <2>6. CASE addUserHours(p) \/ banUser(p) \/ deleteUser(p) \/ addGym(p)
    BY <2>6, LockingSteps
  <2>7. CASE createGym(p)
    BY <2>7, CreateGymStep
  <2>8. CASE addAdminToGym(p)
    BY <2>8, AddAdminStep
  <2>9. CASE Commit(p)
    BY <2>9, CommitStep
  <2>10. CASE Unwind(p)
    BY <2>10, RollbackStep DEF Unwind
  <2> QED
    BY <1>1, <2>1, <2>2, <2>3, <2>4, <2>5, <2>6, <2>7, <2>8, <2>9, <2>10 DEF Advance
<1>2. ASSUME NEW p \in Workers, Accept(p) \/ Fail(p) PROVE AInv'
  BY <1>2, AcceptStep, RollbackStep DEF Fail
<1>3. CASE UNCHANGED vars
  <2>1. UNCHANGED << users, gyms, tokens, lock, pc, req, acct, value, answer, added, present >>
    BY <1>3 DEF vars, tables, locals, history
  <2>2. TypeOK'
    BY <2>1 DEF AInv, TypeOK
  <2>3. ASSUME NEW p \in Workers PROVE WorkerOK(p)'
    <3>1. StepOK(p)' /\ WriterOK(p)'
      BY <2>1 DEF AInv, WorkerOK, StepOK, WriterOK, Registering, Adding, Opening, Finished, Live
    <3>2. ReaderOK(p)' /\ LoginOK(p)'
      BY <2>1 DEF AInv, WorkerOK, ReaderOK, LoginOK, Checked, HasEmail, Finished, Live
    <3> QED
      BY <3>1, <3>2 DEF WorkerOK
  <2>4. LocksOK' /\ HoursOK' /\ EmailsAreUnique'
    BY <2>1 DEF AInv, LocksOK, HoursOK, EmailsAreUnique, Existing, Live
  <2>5. ClaimsOK'
    BY <2>1 DEF AInv, ClaimsOK, Registering, Finished
  <2> QED
    BY <2>2, <2>3, <2>4, <2>5 DEF AInv
<1> QED
  BY <1>1, <1>2, <1>3, ExpireStep DEF Next

LEMMA InitAInv ==
  ASSUME Init
  PROVE  AInv
<1>1. users \in [Accounts -> {r \in Row : /\ r.st \in {"unborn", "live"}
                                          /\ r.hours = 0
                                          /\ r.admin <=> r.st = "live"}]
  BY DEF Init, InitTables
<1>2. \A a \in Accounts : users[a] \in Row /\ users[a].hours = 0
  BY <1>1
<1>3. users \in [Accounts -> Row]
  BY <1>1
<1>4. /\ gyms \in [Gyms -> SUBSET Accounts] /\ tokens \subseteq Token
      /\ lock = [a \in Accounts |-> Nobody]
      /\ pc = [p \in Workers |-> "idle"]
      /\ req = [p \in Workers |-> NoRequest]
      /\ acct = [p \in Workers |-> NoAccount]
      /\ value = [p \in Workers |-> NoValue]
      /\ answer = [p \in Workers |-> "none"]
      /\ added = [a \in Accounts |-> 0]
      /\ present = [p \in Workers |-> {}]
  BY DEF Init, InitTables
<1>5. TypeOK
  BY <1>3, <1>4 DEF TypeOK, Steps
<1>6. ASSUME NEW p \in Workers PROVE WorkerOK(p)
  <2>1. pc[p] = "idle" /\ req[p] = NoRequest /\ value[p] = NoValue
    BY <1>4
  <2> QED
    BY <2>1, NoRequestFields
       DEF WorkerOK, StepOK, WriterOK, ReaderOK, LoginOK, Registering, Adding, Opening, Finished, Readers
<1>7. LocksOK /\ ClaimsOK /\ HoursOK
  BY <1>2, <1>4 DEF LocksOK, ClaimsOK, HoursOK, Registering, Finished
<1>8. EmailsAreUnique
  <2>1. \A e \in Emails : \A a, b \in Named(e) : a = b
    BY DEF Init, InitTables
  <2>2. \A a \in Accounts : users[a].email \in Emails
    BY <1>3, RowFields
  <2> QED
    BY <2>1, <2>2 DEF EmailsAreUnique, Named, Existing
<1> QED
  BY <1>5, <1>6, <1>7, <1>8 DEF AInv

LEMMA Invariance == Spec => []AInv
<1>1. Init => AInv
  BY InitAInv
<1>2. AInv /\ [Next]_vars => AInv'
  BY NextAInv
<1> QED
  BY <1>1, <1>2, PTL DEF Spec

(* Every state is of the types the module states.                          *)
THEOREM AccountsTypeCorrect == Spec => []TypeOK
<1>1. AInv => TypeOK
  BY DEF AInv
<1> QED
  BY <1>1, Invariance, PTL

(* However createAccount requests meet, no email has two accounts          *)
(* (auth_routes.cpp:88-91).                                                *)
THEOREM EmailsUnique == Spec => []EmailsAreUnique
<1>1. AInv => EmailsAreUnique
  BY DEF AInv
<1> QED
  BY <1>1, Invariance, PTL

(* No addition of hours is lost (user_routes.cpp:24-30).                   *)
THEOREM HoursKept == Spec => []HoursAddUp
<1>1. AInv => HoursAddUp
  BY DEF AInv, HoursOK, HoursAddUp, Existing
<1> QED
  BY <1>1, Invariance, PTL

(* A login or a question for the hours that fails on its account has met   *)
(* a deletion (user_routes.cpp:7-10, auth_routes.cpp:114-129).             *)
THEOREM OnlyDeletionFailsReads == Spec => []ReadsFailForTheDeleted
<1>1. ASSUME AInv, NEW p \in Workers, pc[p] = "unwind", req[p].op \in {"login", "getUserHours"}
      PROVE  \E a \in present[p] :
               /\ ~Live(a)
               /\ IF req[p].op = "login" THEN users[a].email = req[p].email ELSE a = acct[p]
  <2>1. CASE req[p].op = "login"
    BY <1>1, <2>1 DEF AInv, WorkerOK, LoginOK, HasEmail
  <2>2. CASE req[p].op = "getUserHours"
    BY <1>1, <2>2 DEF AInv, WorkerOK, ReaderOK
  <2> QED
    BY <1>1, <2>1, <2>2
<1>2. AInv => ReadsFailForTheDeleted
  BY <1>1 DEF ReadsFailForTheDeleted
<1> QED
  BY <1>2, Invariance, PTL

(* Who holds a row is past the statement that may wait for one.            *)
HolderOK(p) ==
  /\ pc[p] \in {"lock", "lockFound"} => acct[p] \in Accounts
  /\ \A a \in Accounts : lock[a] = p => pc[p] \in {"commit", "unwind", "createGym"}

HoldersOK == \A p \in Workers : HolderOK(p)

LEMMA HoldersStep ==
  ASSUME HoldersOK, NEW p \in Workers, HolderOK(p)',
         \A q \in Workers : q # p => LocalsKept(q),
         \A a \in Accounts : lock'[a] \in {lock[a], p, Nobody}
  PROVE  HoldersOK'
<1>1. ASSUME NEW q \in Workers, q # p PROVE HolderOK(q)'
  <2>1. HolderOK(q) /\ pc'[q] = pc[q] /\ acct'[q] = acct[q]
    BY <1>1 DEF HoldersOK, LocalsKept
  <2>2. \A a \in Accounts : lock'[a] = q => lock[a] = q
    BY <1>1, WorkersAssumption
  <2> QED
    BY <2>1, <2>2 DEF HolderOK
<1> QED
  BY <1>1 DEF HoldersOK

(* A statement that leaves the locks alone, of a worker that has none or   *)
(* goes on as one that may have.                                           *)
LEMMA HoldersGoto ==
  ASSUME AInv, HoldersOK, NEW p \in Workers, NEW to,
         pc' = [pc EXCEPT ![p] = to], to \notin {"lock"},
         to = "lockFound" => acct'[p] \in Accounts,
         lock' = lock, pc[p] \notin {"commit", "unwind", "createGym"} \/ to \in {"commit", "unwind"},
         \A q \in Workers : q # p => acct'[q] = acct[q]
  PROVE  HoldersOK'
<1>1. pc'[p] = to /\ \A q \in Workers : q # p => pc'[q] = pc[q]
  BY DEF AInv, TypeOK
<1>2. HolderOK(p)
  BY DEF HoldersOK
<1>3. HolderOK(p)'
  BY <1>1, <1>2 DEF HolderOK
<1>4. ASSUME NEW q \in Workers, q # p PROVE HolderOK(q)'
  BY <1>1, <1>4 DEF HoldersOK, HolderOK
<1> QED
  BY <1>3, <1>4 DEF HoldersOK

LEMMA NextHolders ==
  ASSUME AInv, HoldersOK, [Next]_vars
  PROVE  HoldersOK'
<1>1. pc \in [Workers -> Steps] /\ acct \in [Workers -> Accounts \cup {NoAccount}]
      /\ lock \in [Accounts -> Workers \cup {Nobody}]
  BY DEF AInv, TypeOK
<1>2. ASSUME NEW p \in Workers, emailExists(p) PROVE HoldersOK'
  <2>1. CASE Goto(p, "insert") /\ UNCHANGED acct
    BY <1>2, <2>1, HoldersGoto DEF emailExists, Goto
  <2>2. CASE \E a \in Named(req[p].email) : acct' = [acct EXCEPT ![p] = a] /\ Goto(p, "lockFound")
    <3>1. PICK a \in Accounts : acct' = [acct EXCEPT ![p] = a] /\ Goto(p, "lockFound")
      BY <2>2 DEF Named, Existing
    <3> QED
      BY <1>1, <1>2, <3>1, HoldersGoto DEF emailExists, Goto
  <2> QED
    BY <1>2, <2>1, <2>2 DEF emailExists
<1>3. ASSUME NEW p \in Workers,
             \/ createUser(p) \/ getPasswordByEmail(p) \/ getUserIdByEmail(p) \/ isAdmin(p)
             \/ userExists(p) \/ getUserHours(p) \/ createGym(p)
      PROVE  HoldersOK'
  <2>1. PICK to \in {"unwind", "commit", "readId", "readAdmin", "readHours"} :
          /\ pc' = [pc EXCEPT ![p] = to]
          /\ pc[p] = "createGym" => to \in {"unwind", "commit"}
    BY <1>3 DEF createUser, getPasswordByEmail, getUserIdByEmail, isAdmin, userExists, getUserHours,
                createGym, Goto, Reply
  <2>2. lock' = lock /\ pc[p] \notin {"commit", "unwind"}
    BY <1>3 DEF createUser, getPasswordByEmail, getUserIdByEmail, isAdmin, userExists, getUserHours,
                createGym
  <2>3. acct' = acct \/ \E a \in Accounts : acct' = [acct EXCEPT ![p] = a]
    BY <1>3 DEF createUser, getPasswordByEmail, getUserIdByEmail, isAdmin, userExists, getUserHours,
                createGym, Named, Existing
  <2>4. \A q \in Workers : q # p => acct'[q] = acct[q]
    BY <1>1, <2>3
  <2> QED
    BY <2>1, <2>2, <2>4, HoldersGoto
<1>4. ASSUME NEW p \in Workers,
             lockFound(p) \/ addUserHours(p) \/ banUser(p) \/ deleteUser(p) \/ addGym(p)
      PROVE  HoldersOK'
  <2>1. /\ pc[p] \in {"lock", "lockFound"} /\ lockUser(p) /\ acct' = acct
        /\ HolderOK(p)
    BY <1>4 DEF lockFound, addUserHours, banUser, deleteUser, addGym, HoldersOK
  <2>2. PICK to \in {"commit", "unwind", "createGym", "insert"} :
          pc' = [pc EXCEPT ![p] = to] /\ (to = "insert" => ~Live(acct[p]))
    BY <1>4 DEF lockFound, addUserHours, banUser, deleteUser, addGym, Goto, Reply
  <2>3. pc'[p] = to /\ \A q \in Workers : q # p => pc'[q] = pc[q]
    BY <1>1, <2>2
  <2>4. CASE Live(acct[p])
    <3>1. lock' = [lock EXCEPT ![acct[p]] = p]
      BY <2>1, <2>4 DEF lockUser
    <3>2. \A a \in Accounts : lock'[a] = IF a = acct[p] THEN p ELSE lock[a]
      BY <1>1, <3>1
    <3>3. ASSUME NEW q \in Workers PROVE HolderOK(q)'
      <4>1. HolderOK(q)
        BY DEF HoldersOK
      <4> QED
        BY <2>1, <2>2, <2>3, <2>4, <3>2, <4>1 DEF HolderOK
    <3> QED
      BY <3>3 DEF HoldersOK
  <2>5. CASE ~Live(acct[p])
    <3>1. lock' = lock
      BY <2>1, <2>5 DEF lockUser
    <3> QED
      BY <2>1, <2>2, <3>1, HoldersGoto
  <2> QED
    BY <2>4, <2>5
<1>5. ASSUME NEW p \in Workers, Finish(p) PROVE HoldersOK'
  <2>1. /\ \A a \in Accounts : lock'[a] = IF lock[a] = p THEN Nobody ELSE lock[a]
        /\ \A q \in Workers : q # p => LocalsKept(q)
    BY <1>5, FinishedWorker
  <2>2. pc'[p] = "idle"
    BY <1>1, <1>5 DEF Finish
  <2>3. HolderOK(p)'
    BY <2>1, <2>2, WorkersAssumption DEF HolderOK
  <2> QED
    BY <2>1, <2>3, HoldersStep
<1>6. ASSUME NEW p \in Workers, Accept(p) PROVE HoldersOK'
  <2>1. PICK r \in Requests :
          /\ pc[p] = "idle" /\ lock' = lock
          /\ acct' = [acct EXCEPT ![p] = IF r.op \in {"createAccount", "login"} THEN NoAccount ELSE r.user]
          /\ pc' = [pc EXCEPT ![p] = FirstStep(r.op)]
    BY <1>6 DEF Accept, Goto
  <2>2. r.op \notin {"createAccount", "login"} => r.user \in Accounts
    BY RequestFields, NoRequestFields
  <2>3. FirstStep(r.op) # "lockFound" /\ (FirstStep(r.op) = "lock" => r.op \notin {"createAccount", "login"})
    BY DEF FirstStep
  <2>4. /\ pc'[p] = FirstStep(r.op) /\ \A q \in Workers : q # p => pc'[q] = pc[q]
        /\ acct'[p] = IF r.op \in {"createAccount", "login"} THEN NoAccount ELSE r.user
        /\ \A q \in Workers : q # p => acct'[q] = acct[q]
    BY <1>1, <2>1
  <2>5. ASSUME NEW q \in Workers PROVE HolderOK(q)'
    <3>1. HolderOK(q)
      BY DEF HoldersOK
    <3> QED
      BY <2>1, <2>2, <2>3, <2>4, <3>1 DEF HolderOK
  <2> QED
    BY <2>5 DEF HoldersOK
<1>7. CASE Expire \/ UNCHANGED vars
  <2>1. UNCHANGED << pc, acct, lock >>
    BY <1>7 DEF Expire, vars, locals
  <2> QED
    BY <2>1 DEF HoldersOK, HolderOK
<1>8. ASSUME NEW p \in Workers, addAdminToGym(p) \/ Commit(p) \/ Unwind(p) \/ Fail(p) PROVE Finish(p)
  BY <1>8 DEF addAdminToGym, Commit, Unwind, Fail, Rollback
<1> QED
  BY <1>2, <1>3, <1>4, <1>5, <1>6, <1>7, <1>8 DEF Next, Advance

(* Whatever the workers, the accounts and the gyms, nobody waits in a      *)
(* circle or for one that is idle: who has locked a row waits at most for  *)
(* the name of a gym, whose owner is about to commit                       *)
(* (auth_routes.cpp:88-91, section_routes.cpp:31-37).                      *)
THEOREM NoCircularWait == Spec => []WaitsEnd
<1>1. Init => HoldersOK
  BY WorkersAssumption DEF Init, HoldersOK, HolderOK
<1>2. AInv /\ HoldersOK => WaitsEnd
  <2> SUFFICES ASSUME AInv, HoldersOK, NEW p \in Workers, NEW q \in Workers, WaitsFor(p, q)
               PROVE  /\ pc[q] # "idle"
                      /\ \A r \in Workers : WaitsFor(q, r) => pc[r] # "idle" /\ ~Waits(r)
    BY DEF WaitsEnd
  <2>1. pc[q] \in {"commit", "unwind", "createGym"}
    <3>1. HolderOK(p) /\ HolderOK(q)
      BY DEF HoldersOK
    <3> QED
      BY <3>1 DEF WaitsFor, HolderOK, Inserting, Deleting
  <2>2. ASSUME NEW r \in Workers, WaitsFor(q, r) PROVE pc[r] = "commit"
    BY <2>1, <2>2 DEF WaitsFor, Inserting
  <2>3. \A r \in Workers : pc[r] = "commit" => ~Waits(r)
    BY DEF Waits, WaitsFor
  <2> QED
    BY <2>1, <2>2, <2>3
<1>3. AInv /\ HoldersOK /\ [Next]_vars => HoldersOK'
  BY NextHolders
<1> QED
  BY <1>1, <1>2, <1>3, Invariance, PTL DEF Spec

(* Which steps change the gyms.                                            *)
LEMMA GymSteps ==
  ASSUME AInv, Next, NEW g \in Gyms, gyms[g] = {}, gyms'[g] # {}
  PROVE  \E p \in Workers : /\ pc[p] = "commit" /\ answer[p] = "ok"
                            /\ req[p].op = "addGym" /\ OpenGym(p)
<1>1. gyms' # gyms
  OBVIOUS
<1>2. ~Expire
  BY <1>1 DEF Expire
<1>3. PICK p \in Workers : Accept(p) \/ Advance(p) \/ Fail(p)
  BY <1>2 DEF Next
<1>4. gyms \in [Gyms -> SUBSET Accounts]
  BY DEF AInv, TypeOK
<1>5. ~Accept(p) /\ ~Fail(p) /\ ~Unwind(p)
  BY <1>1 DEF Accept, Fail, Unwind, Rollback, tables
<1>6. ~addAdminToGym(p)
  BY <1>4 DEF addAdminToGym
<1>7. Commit(p)
  BY <1>1, <1>3, <1>5, <1>6
     DEF Advance, emailExists, lockFound, createUser, getPasswordByEmail, getUserIdByEmail, isAdmin,
         userExists, getUserHours, addUserHours, banUser, deleteUser, addGym, createGym, tables
<1> QED
  BY <1>1, <1>7 DEF Commit, Register, StartSession, RenewSession, WriteHours, RemoveUser, tables

(* A gym is opened by somebody who is an administrator at that moment,     *)
(* whatever happens to the account meanwhile (section_routes.cpp:31-37).   *)
GymsNeedAnAdmin ==
  [][\A g \in Gyms : gyms[g] = {} =>
       \A a \in gyms'[g] : Live(a) /\ users[a].admin]_vars

(* Whatever happens to its account meanwhile, the one who opens a gym is   *)
(* an administrator when it opens (section_routes.cpp:31-37).              *)
THEOREM OnlyAdminsOpenGyms == Spec => GymsNeedAnAdmin
<1> DEFINE Opened == \A g \in Gyms : gyms[g] = {} =>
                       \A a \in gyms'[g] : Live(a) /\ users[a].admin
<1>1. AInv /\ [Next]_vars => [Opened]_vars
  <2> SUFFICES ASSUME AInv, Next, NEW g \in Gyms, gyms[g] = {}, NEW a \in gyms'[g]
               PROVE  Live(a) /\ users[a].admin
    OBVIOUS
  <2>1. PICK p \in Workers : /\ pc[p] = "commit" /\ answer[p] = "ok"
                             /\ req[p].op = "addGym" /\ OpenGym(p)
    BY GymSteps
  <2>2. acct[p] = req[p].user /\ lock[acct[p]] = p /\ users[acct[p]].admin
    BY <2>1 DEF AInv, WorkerOK, StepOK, WriterOK, Opening, Finished, Sessions
  <2>3. acct[p] \in Accounts
    <3>1. req[p] \in Requests \cup {NoRequest}
      BY DEF AInv, TypeOK
    <3> QED
      BY <2>1, <2>2, <3>1, RequestFields DEF Sessions
  <2>4. Live(acct[p])
    BY <2>2, <2>3, WorkersAssumption DEF AInv, LocksOK
  <2>5. a = acct[p]
    BY <2>1 DEF OpenGym, AInv, TypeOK
  <2> QED
    BY <2>2, <2>4, <2>5
<1> QED
  BY <1>1, Invariance, PTL DEF Spec, GymsNeedAnAdmin

(* Tokens are given out for accounts that existed at some time since the   *)
(* request began (auth_routes.cpp:151-157).                                *)
THEOREM TokensForAccounts == Spec => TokensNeedAnAccount
<1> DEFINE Given == \A p \in Workers : Commit(p) =>
                      \A t \in tokens' \ tokens : t.sub \in present[p] \/ users'[t.sub].st = "live"
<1>1. AInv /\ [Next]_vars => [Given]_vars
  <2> SUFFICES ASSUME AInv, NEW p \in Workers, Commit(p), NEW t \in tokens' \ tokens
               PROVE  t.sub \in present[p] \/ users'[t.sub].st = "live"
    OBVIOUS
  <2>1. CASE Register(p) /\ req[p].op = "createAccount" /\ answer[p] = "ok"
    <3>1. Registering(p) /\ acct[p] \in Accounts
      BY <2>1 DEF Commit, AInv, WorkerOK, WriterOK, Registering, Finished
    <3>2. t.sub = acct[p]
      BY <2>1 DEF Register, make_access_token, make_refresh_token
    <3>3. req[p] \in Requests \cup {NoRequest} /\ users \in [Accounts -> Row]
      BY DEF AInv, TypeOK
    <3>4. req[p].email \in Emails /\ req[p].password \in Passwords
      BY <2>1, <3>3, RequestFields
    <3>5. NewRow(req[p].email, req[p].password).st = "live"
      BY <3>4, NewRowFields
    <3>6. users'[acct[p]] = NewRow(req[p].email, req[p].password)
      BY <2>1, <3>1, <3>3 DEF Register
    <3> QED
      BY <3>2, <3>5, <3>6
  <2>2. CASE (StartSession(p) \/ RenewSession(p)) /\ req[p].op \in {"login", "refresh"} /\ answer[p] = "ok"
    <3>1. t.sub = acct[p]
      BY <2>2 DEF StartSession, RenewSession, make_access_token, make_refresh_token
    <3>2. acct[p] \in present[p]
      BY <2>2 DEF Commit, AInv, WorkerOK, ReaderOK, Finished
    <3> QED
      BY <3>1, <3>2
  <2> QED
    BY <2>1, <2>2 DEF Commit, WriteHours, RemoveUser, OpenGym, tables
<1> QED
  BY <1>1, Invariance, PTL DEF Spec, TokensNeedAnAccount

(* Unless an account with the email is deleted during a login, its token   *)
(* is for the account of this email and password                           *)
(* (auth_routes.cpp:114-129).                                              *)
THEOREM GenuineLogins == Spec => LoginsAreGenuine
<1> DEFINE Genuine ==
      \A p \in Workers :
        /\ Commit(p)
        /\ req[p].op = "login" /\ answer[p] = "ok"
        /\ \A b \in present[p] : users[b].email = req[p].email => Live(b)
        => /\ users[acct[p]].email = req[p].email
           /\ users[acct[p]].password = req[p].password
<1>1. AInv /\ [Next]_vars => [Genuine]_vars
  <2> SUFFICES ASSUME AInv, NEW p \in Workers, Commit(p),
                      req[p].op = "login", answer[p] = "ok",
                      \A b \in present[p] : users[b].email = req[p].email => Live(b)
               PROVE  /\ users[acct[p]].email = req[p].email
                      /\ users[acct[p]].password = req[p].password
    OBVIOUS
  <2>1. WorkerOK(p) /\ Finished(p) /\ Checked(p) /\ present[p] \subseteq Accounts
        /\ req[p] \in Requests \cup {NoRequest}
    BY DEF AInv, TypeOK, Commit, Finished, Checked
  <2>2. acct[p] \in present[p]
    BY <2>1 DEF WorkerOK, ReaderOK
  <2>3. HasEmail(p, acct[p]) /\ value[p] = req[p].password
    BY <2>1, <2>2, WorkersAssumption DEF WorkerOK, LoginOK
  <2>4. value[p] # NoValue
    BY <2>1, <2>3, RequestFields, ValuesAssumption
  <2>5. PICK a \in Accounts : HasEmail(p, a) /\ users[a].password = value[p]
    BY <2>1, <2>4 DEF WorkerOK, LoginOK
  <2>6. a = acct[p]
    BY <2>1, <2>3, <2>5 DEF HasEmail, AInv, EmailsAreUnique, Existing
  <2> QED
    BY <2>3, <2>5, <2>6 DEF HasEmail
<1> QED
  BY <1>1, Invariance, PTL DEF Spec, LoginsAreGenuine

-----------------------------------------------------------------------------
(* Accounts implements AtomicAccounts: what each answer promises of the    *)
(* tables until its commit.                                                *)
Born(a) == users[a].st # "unborn"

AnswerOK(p) ==
  /\ answer[p] \in Answers /\ req[p].op # "addAdminToGym"
  /\ answer[p] = "invalid" =>
       /\ req[p].op = "createAccount" /\ acct[p] \in Accounts
       /\ lock[acct[p]] = p /\ users[acct[p]].email = req[p].email
  /\ answer[p] = "noAccess" =>
       \/ req[p].op = "login"
       \/ req[p].op = "addGym" /\ lock[acct[p]] = p /\ ~users[acct[p]].admin
  /\ answer[p] = "notFound" =>
       req[p].op \in {"getUserHours", "addUserHours", "banUser"} /\ ~Live(acct[p])
  /\ answer[p] = "ok" /\ req[p].op = "banUser" => lock[acct[p]] = p
  /\ answer[p] = "ok" /\ req[p].op = "addGym" => gyms[req[p].gym] = {}
  /\ req[p].op = "deleteUser" /\ Live(acct[p]) => lock[acct[p]] = p

PromiseOK(p) ==
  /\ req[p].op \in Sessions \ {"refresh"} => Born(req[p].user)
  /\ pc[p] = "lockFound" => Born(acct[p]) /\ users[acct[p]].email = req[p].email
  /\ pc[p] = "commit" => AnswerOK(p)

Opens(p) == Finished(p) /\ req[p].op = "addGym"

PromisesOK ==
  /\ \A p \in Workers : PromiseOK(p)
  /\ \A p, q \in Workers : p # q /\ Opens(p) /\ Opens(q) => req[p].gym # req[q].gym

(* What a worker's step leaves to the others.                              *)
OthersKept(p) ==
  \A q \in Workers : q # p =>
    /\ LocalsKept(q)
    /\ \A a \in Accounts : lock[a] = q => lock'[a] = q /\ users'[a] = users[a]
    /\ Opens(q) /\ gyms[req[q].gym] = {} => gyms'[req[q].gym] = {}

LEMMA OtherPromiseOK ==
  ASSUME AInv, NEW q \in Workers, PromiseOK(q), LocalsKept(q), RowsKept,
         \A a \in Accounts : lock[a] = q => lock'[a] = q /\ users'[a] = users[a],
         Opens(q) /\ gyms[req[q].gym] = {} => gyms'[req[q].gym] = {}
  PROVE  PromiseOK(q)'
<1>1. req[q] \in Requests \cup {NoRequest} /\ StepOK(q)
  BY DEF AInv, TypeOK, WorkerOK
<1>2. req[q].op \in Sessions => req[q].user \in Accounts /\ acct[q] = req[q].user
  BY <1>1, RequestFields DEF StepOK
<1>3. req[q].op \in Sessions \ {"refresh"} => Born(req[q].user) /\ Born(req[q].user)'
  BY <1>2 DEF PromiseOK, Born, RowsKept, LocalsKept
<1>4. pc[q] = "lockFound" => acct[q] \in Accounts
  BY <1>1 DEF StepOK
<1>5. pc[q] = "lockFound" => Born(acct[q])' /\ users'[acct[q]].email = req[q].email
  BY <1>4 DEF PromiseOK, Born, RowsKept, LocalsKept
<1>6. ASSUME AnswerOK(q), pc[q] = "commit" PROVE AnswerOK(q)'
  <2>1. req[q].op \in Sessions \ {"refresh"} => (Live(acct[q])' => Live(acct[q]))
    BY <1>2, <1>3 DEF RowsKept, Born, LocalsKept
  <2>2. answer[q] = "ok" /\ req[q].op = "addGym" => Opens(q)
    BY <1>6 DEF Opens, Finished
  <2>3. answer[q] = "notFound" => ~Live(acct[q])'
    BY <1>6, <2>1 DEF AnswerOK, Sessions
  <2>4. req[q].op = "deleteUser" /\ Live(acct[q])' => lock'[acct[q]] = q
    BY <1>2, <1>6, <2>1 DEF AnswerOK, Sessions
  <2>5. answer[q] = "ok" /\ req[q].op = "banUser" => lock'[acct[q]] = q
    BY <1>2, <1>6 DEF AnswerOK, Sessions
  <2>6. answer[q] = "noAccess" /\ req[q].op = "addGym" => lock'[acct[q]] = q /\ ~users'[acct[q]].admin
    BY <1>2, <1>6 DEF AnswerOK, Sessions
  <2>7. answer[q] = "invalid" => lock'[acct[q]] = q /\ users'[acct[q]].email = req[q].email
    BY <1>6 DEF AnswerOK
  <2> QED
    BY <1>6, <2>2, <2>3, <2>4, <2>5, <2>6, <2>7 DEF AnswerOK, LocalsKept
<1> QED
  BY <1>3, <1>5, <1>6 DEF PromiseOK, LocalsKept

LEMMA PromisesStep ==
  ASSUME AInv, PromisesOK, NEW p \in Workers, OthersKept(p), RowsKept, PromiseOK(p)',
         Opens(p)' => \A q \in Workers : q # p /\ Opens(q) => req'[p].gym # req[q].gym
  PROVE  PromisesOK'
<1>1. ASSUME NEW q \in Workers, q # p PROVE PromiseOK(q)'
  BY <1>1, OtherPromiseOK DEF PromisesOK, OthersKept
<1>2. \A q \in Workers : q # p => (Opens(q)' <=> Opens(q)) /\ req'[q] = req[q]
  BY DEF OthersKept, LocalsKept, Opens, Finished
<1> QED
  BY <1>1, <1>2 DEF PromisesOK

Statements(p) ==
  \/ emailExists(p) \/ lockFound(p) \/ createUser(p)
  \/ getPasswordByEmail(p) \/ getUserIdByEmail(p) \/ isAdmin(p)
  \/ userExists(p) \/ getUserHours(p)
  \/ addUserHours(p) \/ banUser(p) \/ deleteUser(p)
  \/ addGym(p) \/ createGym(p)

(* A statement leaves the tables alone and frees no row.                   *)
LEMMA StatementKeeps ==
  ASSUME AInv, HoldersOK, NEW p \in Workers, Statements(p)
  PROVE  /\ OthersKept(p) /\ RowsKept
         /\ req' = req /\ users' = users /\ gyms' = gyms
         /\ req[p] \in Requests /\ pc[p] # "idle"
<1>1. UNCHANGED << users, gyms, req >> /\ pc[p] # "idle"
  BY DEF Statements, emailExists, lockFound, createUser, getPasswordByEmail, getUserIdByEmail, isAdmin,
         userExists, getUserHours, addUserHours, banUser, deleteUser, addGym, createGym, tables
<1>2. /\ \E to : pc' = [pc EXCEPT ![p] = to]
      /\ answer' = answer \/ \E a : answer' = [answer EXCEPT ![p] = a]
      /\ acct' = acct \/ \E a : acct' = [acct EXCEPT ![p] = a]
      /\ value' = value \/ \E v : value' = [value EXCEPT ![p] = v]
  BY DEF Statements, emailExists, lockFound, createUser, getPasswordByEmail, getUserIdByEmail, isAdmin,
         userExists, getUserHours, addUserHours, banUser, deleteUser, addGym, createGym, Goto, Reply
<1>3. ASSUME NEW q \in Workers, q # p PROVE LocalsKept(q)
  BY <1>1, <1>2, <1>3 DEF AInv, TypeOK, LocalsKept
<1>4. lock' = lock \/ Locks(p)
  <2>1. pc[p] \in {"lock", "lockFound"} => acct[p] \in Accounts
    BY DEF HoldersOK, HolderOK
  <2> QED
    BY <2>1 DEF Statements, emailExists, lockFound, createUser, getPasswordByEmail, getUserIdByEmail,
         isAdmin, userExists, getUserHours, addUserHours, banUser, deleteUser, addGym, createGym, Locks
<1>5. \A a \in Accounts : lock'[a] = lock[a] \/ lock[a] = Nobody
  BY <1>4, LocksRow
<1>6. \A a \in Accounts, q \in Workers : lock[a] = q => lock'[a] = q
  BY <1>5, WorkersAssumption
<1>7. OthersKept(p)
  BY <1>1, <1>3, <1>6 DEF OthersKept
<1>8. RowsKept
  BY <1>1 DEF RowsKept, Live
<1>9. req[p] \in Requests
  BY <1>1 DEF AInv, TypeOK, WorkerOK, StepOK
<1> QED
  BY <1>1, <1>7, <1>8, <1>9

(* A statement that goes on, or says the same as its request may say at    *)
(* its commit anyway.                                                      *)
LEMMA StatementPromises ==
  ASSUME AInv, HoldersOK, PromisesOK, NEW p \in Workers, Statements(p),
         pc'[p] = "lockFound" => Born(acct[p])' /\ users[acct'[p]].email = req[p].email,
         pc'[p] = "commit" => AnswerOK(p)',
         Opens(p)' => \A q \in Workers : q # p /\ Opens(q) => req[p].gym # req[q].gym
  PROVE  PromisesOK'
<1>1. OthersKept(p) /\ RowsKept /\ req' = req /\ users' = users
  BY StatementKeeps
<1>2. PromiseOK(p)'
  BY <1>1 DEF PromisesOK, PromiseOK, Born
<1> QED
  BY <1>1, <1>2, PromisesStep

LEMMA AccountStatements ==
  ASSUME AInv, HoldersOK, PromisesOK, NEW p \in Workers,
         emailExists(p) \/ lockFound(p) \/ createUser(p)
  PROVE  PromisesOK'
<1>1. /\ Statements(p) /\ req[p].op = "createAccount"
      /\ req' = req /\ users' = users /\ lock \in [Accounts -> Workers \cup {Nobody}]
      /\ pc \in [Workers -> Steps] /\ answer \in [Workers -> Answers \cup {"none"}]
      /\ acct \in [Workers -> Accounts \cup {NoAccount}]
  BY StatementKeeps DEF Statements, AInv, TypeOK, WorkerOK, StepOK, emailExists, lockFound, createUser
<1>2. ~Opens(p)'
  BY <1>1 DEF Opens
<1>3. CASE emailExists(p)
  <2>1. CASE Goto(p, "insert")
    <3>1. pc'[p] = "insert"
      BY <1>1, <2>1 DEF Goto
    <3> QED
      BY <1>1, <1>2, <3>1, StatementPromises
  <2>2. CASE \E a \in Named(req[p].email) : acct' = [acct EXCEPT ![p] = a] /\ Goto(p, "lockFound")
    <3>1. PICK a \in Named(req[p].email) : acct' = [acct EXCEPT ![p] = a] /\ Goto(p, "lockFound")
      BY <2>2
    <3>2. acct'[p] = a /\ pc'[p] = "lockFound"
      BY <1>1, <3>1 DEF Goto
    <3>3. Born(acct[p])' /\ users[acct'[p]].email = req[p].email
      BY <1>1, <3>2 DEF Named, Existing, Live, Born
    <3> QED
      BY <1>1, <1>2, <3>2, <3>3, StatementPromises
  <2> QED
    BY <1>3, <2>1, <2>2 DEF emailExists
<1>4. CASE lockFound(p)
  <2>1. Locks(p) /\ acct' = acct /\ pc[p] = "lockFound"
    BY <1>4 DEF lockFound, Locks, HoldersOK, HolderOK
  <2>2. CASE Live(acct[p]) /\ Reply(p, "invalid")
    <3>1. pc'[p] = "commit" /\ answer'[p] = "invalid"
      BY <1>1, <2>2 DEF Reply
    <3>2. lock'[acct[p]] = p /\ acct[p] \in Accounts
      BY <2>1, <2>2, LocksRow DEF Locks
    <3>3. users[acct[p]].email = req[p].email
      BY <2>1 DEF PromisesOK, PromiseOK
    <3>4. AnswerOK(p)'
      BY <1>1, <2>1, <3>1, <3>2, <3>3 DEF AnswerOK, Answers
    <3> QED
      BY <1>1, <1>2, <3>1, <3>4, StatementPromises
  <2>3. CASE Goto(p, "insert")
    <3>1. pc'[p] = "insert"
      BY <1>1, <2>3 DEF Goto
    <3> QED
      BY <1>1, <1>2, <3>1, StatementPromises
  <2> QED
    BY <1>4, <2>2, <2>3 DEF lockFound
<1>5. CASE createUser(p)
  <2>1. CASE Goto(p, "unwind")
    <3>1. pc'[p] = "unwind"
      BY <1>1, <2>1 DEF Goto
    <3> QED
      BY <1>1, <1>2, <3>1, StatementPromises
  <2>2. CASE Reply(p, "ok")
    <3>1. pc'[p] = "commit" /\ answer'[p] = "ok"
      BY <1>1, <2>2 DEF Reply
    <3>2. AnswerOK(p)'
      BY <1>1, <3>1 DEF AnswerOK, Answers
    <3> QED
      BY <1>1, <1>2, <3>1, <3>2, StatementPromises
  <2> QED
    BY <1>5, <2>1, <2>2 DEF createUser
<1> QED
  BY <1>3, <1>4, <1>5

LEMMA ReadingStatements ==
  ASSUME AInv, HoldersOK, PromisesOK, NEW p \in Workers,
         \/ getPasswordByEmail(p) \/ getUserIdByEmail(p) \/ isAdmin(p)
         \/ userExists(p) \/ getUserHours(p)
  PROVE  PromisesOK'
<1>1. /\ Statements(p) /\ req[p].op \in {"login", "refresh", "getUserHours"}
      /\ req' = req /\ users' = users
      /\ pc \in [Workers -> Steps] /\ answer \in [Workers -> Answers \cup {"none"}]
  BY StatementKeeps DEF Statements, AInv, TypeOK, WorkerOK, StepOK, getPasswordByEmail,
       getUserIdByEmail, isAdmin, userExists, getUserHours
<1>2. ~Opens(p)'
  BY <1>1 DEF Opens
<1>3. CASE \E to \in {"readId", "readAdmin", "readHours", "unwind"} : Goto(p, to)
  <2>1. pc'[p] \in {"readId", "readAdmin", "readHours", "unwind"}
    BY <1>1, <1>3 DEF Goto
  <2> QED
    BY <1>1, <1>2, <2>1, StatementPromises
<1>4. ASSUME NEW a \in Answers, Reply(p, a), a \in {"ok", "noAccess", "notFound"},
             a = "noAccess" => req[p].op = "login",
             a = "notFound" => req[p].op = "getUserHours" /\ ~Live(acct[p]) /\ acct' = acct
      PROVE  PromisesOK'
  <2>1. pc'[p] = "commit" /\ answer'[p] = a
    BY <1>1, <1>4 DEF Reply
  <2>2. AnswerOK(p)'
    BY <1>1, <1>4, <2>1 DEF AnswerOK, Live
  <2> QED
    BY <1>1, <1>2, <2>1, <2>2, StatementPromises
<1>5. CASE isAdmin(p) \/ getUserHours(p)
  BY <1>3, <1>4, <1>5 DEF isAdmin, getUserHours, Answers
<1>6. CASE getPasswordByEmail(p)
  BY <1>3, <1>6 DEF getPasswordByEmail
<1>7. CASE getUserIdByEmail(p)
  <2>1. req[p].op = "login"
    BY <1>7 DEF getUserIdByEmail, AInv, WorkerOK, StepOK
  <2> QED
    BY <1>3, <1>4, <1>7, <2>1 DEF getUserIdByEmail, Answers
<1>8. CASE userExists(p)
  <2>1. req[p].op = "getUserHours"
    BY <1>8 DEF userExists, AInv, WorkerOK, StepOK
  <2> QED
    BY <1>3, <1>4, <1>8, <2>1 DEF userExists, Answers
<1> QED
  BY <1>5, <1>6, <1>7, <1>8

LEMMA LockingStatements ==
  ASSUME AInv, HoldersOK, PromisesOK, NEW p \in Workers,
         addUserHours(p) \/ banUser(p) \/ deleteUser(p) \/ addGym(p)
  PROVE  PromisesOK'
<1>1. /\ Statements(p) /\ req' = req /\ users' = users /\ acct' = acct
      /\ pc \in [Workers -> Steps] /\ answer \in [Workers -> Answers \cup {"none"}]
      /\ Locks(p)
  BY StatementKeeps DEF Statements, AInv, TypeOK, addUserHours, banUser, deleteUser, addGym, Locks,
       HoldersOK, HolderOK
<1>2. Live(acct[p]) => lock'[acct[p]] = p
  BY <1>1, LocksRow
<1>3. CASE \E to \in {"unwind", "createGym"} : Goto(p, to)
  <2>1. pc'[p] \in {"unwind", "createGym"}
    BY <1>1, <1>3 DEF Goto
  <2>2. ~Opens(p)'
    BY <2>1 DEF Opens, Finished
  <2> QED
    BY <1>1, <2>1, <2>2, StatementPromises
<1>4. ASSUME NEW a \in {"ok", "noAccess", "notFound"}, Reply(p, a),
             a = "noAccess" => req[p].op = "addGym" /\ Live(acct[p]) /\ ~users[acct[p]].admin,
             a = "notFound" => req[p].op \in {"addUserHours", "banUser"} /\ ~Live(acct[p]),
             a = "ok" => \/ req[p].op \in {"addUserHours", "deleteUser"}
                         \/ req[p].op = "banUser" /\ Live(acct[p]),
             req[p].op \in {"addUserHours", "banUser", "deleteUser", "addGym"}
      PROVE  PromisesOK'
  <2>1. pc'[p] = "commit" /\ answer'[p] = a
    BY <1>1, <1>4 DEF Reply
  <2>2. AnswerOK(p)'
    BY <1>1, <1>2, <1>4, <2>1 DEF AnswerOK, Answers, Live
  <2>3. ~Opens(p)'
    BY <1>1, <1>4, <2>1 DEF Opens, Finished
  <2> QED
    BY <1>1, <2>1, <2>2, <2>3, StatementPromises
<1>5. CASE addUserHours(p)
  BY <1>3, <1>4, <1>5 DEF addUserHours
<1>6. CASE banUser(p) \/ deleteUser(p)
  BY <1>4, <1>6 DEF banUser, deleteUser
<1>7. CASE addGym(p)
  BY <1>3, <1>4, <1>7 DEF addGym
<1> QED
  BY <1>5, <1>6, <1>7

(* An INSERT waits for those of its name that are not committed.           *)
LEMMA GymStatement ==
  ASSUME AInv, HoldersOK, PromisesOK, NEW p \in Workers, createGym(p)
  PROVE  PromisesOK'
<1>1. /\ Statements(p) /\ req' = req /\ users' = users /\ gyms' = gyms /\ acct' = acct
      /\ pc \in [Workers -> Steps] /\ answer \in [Workers -> Answers \cup {"none"}]
      /\ req[p].op = "addGym" /\ pc[p] = "createGym"
  BY StatementKeeps DEF Statements, AInv, TypeOK, WorkerOK, StepOK, createGym
<1>2. CASE Goto(p, "unwind")
  <2>1. pc'[p] = "unwind"
    BY <1>1, <1>2 DEF Goto
  <2>2. ~Opens(p)'
    BY <2>1 DEF Opens, Finished
  <2> QED
    BY <1>1, <2>1, <2>2, StatementPromises
<1>3. CASE gyms[req[p].gym] = {} /\ Reply(p, "ok")
  <2>1. pc'[p] = "commit" /\ answer'[p] = "ok"
    BY <1>1, <1>3 DEF Reply
  <2>2. AnswerOK(p)'
    BY <1>1, <1>3, <2>1 DEF AnswerOK, Answers
  <2>3. ASSUME NEW q \in Workers, q # p, Opens(q), req[p].gym = req[q].gym PROVE FALSE
    <3>1. Inserting(q, "addGym", "gym", req[p].gym)
      BY <2>3 DEF Inserting, Opens, Finished
    <3>2. WaitsFor(p, q)
      BY <1>1, <2>3, <3>1 DEF WaitsFor
    <3> QED
      BY <3>2 DEF createGym, Waits
  <2> QED
    BY <1>1, <2>1, <2>2, <2>3, StatementPromises
<1> QED
  BY <1>2, <1>3 DEF createGym

LEMMA FinishPromises ==
  ASSUME AInv, PromisesOK, NEW p \in Workers, Finish(p), RowsKept,
         \A a \in Accounts : lock[a] \notin {p, Nobody} => users'[a] = users[a],
         \A q \in Workers : q # p /\ Opens(q) /\ gyms[req[q].gym] = {} => gyms'[req[q].gym] = {}
  PROVE  PromisesOK'
<1>1. /\ \A a \in Accounts : lock'[a] = IF lock[a] = p THEN Nobody ELSE lock[a]
      /\ \A q \in Workers : q # p => LocalsKept(q)
  BY FinishedWorker
<1>2. pc'[p] = "idle" /\ req'[p] = NoRequest
  BY DEF AInv, TypeOK, Finish
<1>3. OthersKept(p)
  BY <1>1, WorkersAssumption DEF OthersKept
<1>4. PromiseOK(p)' /\ ~Opens(p)'
  BY <1>2, NoRequestFields DEF PromiseOK, Opens, Finished
<1> QED
  BY <1>3, <1>4, PromisesStep

LEMMA EndPromises ==
  ASSUME AInv, PromisesOK, NEW p \in Workers,
         addAdminToGym(p) \/ Commit(p) \/ Unwind(p) \/ Fail(p)
  PROVE  PromisesOK'
<1>1. Finish(p) /\ gyms \in [Gyms -> SUBSET Accounts]
  BY DEF addAdminToGym, Commit, Unwind, Fail, Rollback, AInv, TypeOK
<1>2. \A q \in Workers : Opens(q) => req[q].gym \in Gyms
  <2>1. \A q \in Workers : req[q] \in Requests \cup {NoRequest}
    BY DEF AInv, TypeOK
  <2> QED
    BY <2>1, RequestFields DEF Opens
<1>3. CASE addAdminToGym(p) \/ Unwind(p) \/ Fail(p)
  <2>1. users' = users
    BY <1>3 DEF addAdminToGym, Unwind, Fail, Rollback, tables
  <2>2. RowsKept
    BY <2>1 DEF RowsKept, Live
  <2>3. \A g \in Gyms : gyms[g] = {} => gyms'[g] = {}
    BY <1>1, <1>3 DEF addAdminToGym, Unwind, Fail, Rollback, tables
  <2> QED
    BY <1>1, <1>2, <2>1, <2>2, <2>3, FinishPromises
<1>4. CASE Commit(p)
  <2>1. /\ RowsKept
        /\ \A a \in Accounts : lock[a] \notin {p, Nobody} => users'[a] = users[a]
    BY <1>4, CommitWrites, WrittenRows
  <2>2. gyms' = gyms \/ (Opens(p) /\ gyms' = [gyms EXCEPT ![req[p].gym] = {acct[p]}])
    BY <1>4 DEF Commit, Register, StartSession, RenewSession, WriteHours, RemoveUser, OpenGym, tables,
         Opens, Finished
  <2>3. \A q \in Workers : q # p /\ Opens(q) /\ gyms[req[q].gym] = {} => gyms'[req[q].gym] = {}
    BY <1>1, <1>2, <2>2 DEF PromisesOK
  <2> QED
    BY <1>1, <2>1, <2>3, FinishPromises
<1> QED
  BY <1>3, <1>4

LEMMA AcceptPromises ==
  ASSUME AInv, PromisesOK, NEW p \in Workers, Accept(p)
  PROVE  PromisesOK'
<1>1. PICK r \in Requests :
        /\ Authorized(r)
        /\ req' = [req EXCEPT ![p] = r]
        /\ acct' = [acct EXCEPT ![p] = IF r.op \in {"createAccount", "login"} THEN NoAccount ELSE r.user]
        /\ pc' = [pc EXCEPT ![p] = FirstStep(r.op)]
        /\ UNCHANGED << users, gyms, lock, value, answer >>
  BY DEF Accept, Goto, tables
<1>2. /\ pc'[p] = FirstStep(r.op) /\ req'[p] = r
      /\ \A q \in Workers : q # p => LocalsKept(q)
  BY <1>1 DEF AInv, TypeOK, LocalsKept
<1>3. FirstStep(r.op) \notin {"lockFound", "commit"}
  BY DEF FirstStep
<1>4. r.op \in Sessions \ {"refresh"} => users[r.user].st # "unborn"
  <2>1. ASSUME r \in AuthRequests PROVE r.op \in {"createAccount", "login", "refresh"}
    BY <2>1 DEF AuthRequests
  <2> QED
    BY <1>1, <2>1 DEF Authorized, Sessions
<1>5. PromiseOK(p)' /\ ~Opens(p)'
  BY <1>1, <1>2, <1>3, <1>4 DEF PromiseOK, Born, Opens, Finished
<1>6. OthersKept(p) /\ RowsKept
  BY <1>1, <1>2 DEF OthersKept, RowsKept, Live
<1> QED
  BY <1>5, <1>6, PromisesStep

LEMMA NextPromises ==
  ASSUME AInv, HoldersOK, PromisesOK, [Next]_vars
  PROVE  PromisesOK'
<1>1. ASSUME NEW p \in Workers, Accept(p) \/ Advance(p) \/ Fail(p) PROVE PromisesOK'
  BY <1>1, AcceptPromises, EndPromises, AccountStatements, ReadingStatements, LockingStatements,
     GymStatement DEF Advance
<1>2. CASE Expire \/ UNCHANGED vars
  <2>1. UNCHANGED << users, gyms, lock, pc, req, acct, answer >>
    BY <1>2 DEF Expire, vars, tables, locals
  <2>2. ASSUME NEW p \in Workers PROVE PromiseOK(p)'
    <3>1. PromiseOK(p)
      BY DEF PromisesOK
    <3>2. AnswerOK(p) => AnswerOK(p)'
      BY <2>1 DEF AnswerOK, Live
    <3> QED
      BY <2>1, <3>1, <3>2 DEF PromiseOK, Born
  <2> QED
    BY <2>1, <2>2 DEF PromisesOK, Opens, Finished
<1> QED
  BY <1>1, <1>2 DEF Next

LEMMA SameRows ==
  /\ \A a : (Atomic!Live(a) <=> Live(a)) /\ (Atomic!Born(a) <=> Born(a))
  /\ \A e : Atomic!Named(e) = Named(e)
  /\ \A e, w : Atomic!NewRow(e, w) = NewRow(e, w)
  /\ \A a : /\ Atomic!make_access_token(a) = make_access_token(a)
            /\ Atomic!make_refresh_token(a) = make_refresh_token(a)
  /\ Atomic!Hours = Hours
<1>1. \A a : (Atomic!Live(a) <=> Live(a)) /\ (Atomic!Born(a) <=> Born(a))
  BY DEF Atomic!Live, Live, Atomic!Born, Born
<1>2. \A e : Atomic!Named(e) = Named(e)
  BY <1>1 DEF Atomic!Named, Named, Atomic!Existing, Existing
<1>3. \A e, w : Atomic!NewRow(e, w) = NewRow(e, w)
  BY DEF Atomic!NewRow, NewRow
<1> QED
  BY <1>1, <1>2, <1>3 DEF Atomic!make_access_token, make_access_token, Atomic!make_refresh_token,
       make_refresh_token, Atomic!Hours, Hours

(* A registration's own commit, and one that found the email taken.        *)
LEMMA RegistrationServes ==
  ASSUME AInv, PromisesOK, NEW p \in Workers, Commit(p), req[p].op = "createAccount"
  PROVE  Atomic!createAccount(req[p], answer[p])
<1>1. pc[p] = "commit" /\ AnswerOK(p) /\ WorkerOK(p)
  BY DEF Commit, PromisesOK, PromiseOK, AInv
<1>2. CASE answer[p] = "ok"
  <2>1. Register(p)
    BY <1>2 DEF Commit, Writers
  <2>2. /\ acct[p] \in Accounts /\ users[acct[p]].st = "unborn"
        /\ \A a \in Accounts : Live(a) => users[a].email # req[p].email
    BY <1>1, <1>2 DEF WorkerOK, WriterOK, Registering, Finished
  <2>3. Atomic!Named(req[p].email) = {} /\ ~Atomic!Born(acct[p])
    BY <2>2, SameRows DEF Named, Existing, Born
  <2>4. /\ users' = [users EXCEPT ![acct[p]] = Atomic!NewRow(req[p].email, req[p].password)]
        /\ Atomic!NewSession(acct[p]) /\ gyms' = gyms
    BY <2>1, SameRows DEF Register, Atomic!NewSession
  <2> QED
    BY <1>2, <2>2, <2>3, <2>4 DEF Atomic!createAccount
<1>3. CASE answer[p] = "invalid"
  <2>1. UNCHANGED tables
    BY <1>3 DEF Commit
  <2>2. acct[p] \in Accounts /\ Live(acct[p]) /\ users[acct[p]].email = req[p].email
    BY <1>1, <1>3, WorkersAssumption DEF AnswerOK, AInv, LocksOK
  <2>3. acct[p] \in Atomic!Named(req[p].email)
    BY <2>2, SameRows DEF Named, Existing
  <2> QED
    BY <1>3, <2>1, <2>3 DEF Atomic!createAccount, Atomic!tables, tables
<1> QED
  BY <1>1, <1>2, <1>3 DEF AnswerOK, Answers

LEMMA LoginServes ==
  ASSUME AInv, PromisesOK, NEW p \in Workers, Commit(p), req[p].op = "login"
  PROVE  Atomic!login(req[p], answer[p])
<1>1. /\ pc[p] = "commit" /\ AnswerOK(p) /\ WorkerOK(p) /\ present[p] \subseteq Accounts
      /\ req[p] \in Requests \cup {NoRequest}
  BY DEF Commit, PromisesOK, PromiseOK, AInv, TypeOK
<1>2. CASE answer[p] = "ok"
  <2>1. StartSession(p)
    BY <1>2 DEF Commit, Writers
  <2>2. Finished(p) /\ Checked(p)
    BY <1>1, <1>2 DEF Finished, Checked
  <2>3. acct[p] \in present[p] /\ \A a \in Accounts : a \in present[p] => Born(a)
    BY <1>1, <2>2 DEF WorkerOK, ReaderOK, Readers, Born
  <2>4. HasEmail(p, acct[p]) /\ value[p] = req[p].password
    BY <1>1, <2>2, <2>3, WorkersAssumption DEF WorkerOK, LoginOK
  <2>5. value[p] # NoValue
    BY <1>1, <2>4, RequestFields, ValuesAssumption
  <2>6. PICK a \in Accounts : HasEmail(p, a) /\ users[a].password = req[p].password
    BY <1>1, <2>4, <2>5 DEF WorkerOK, LoginOK
  <2>7. Atomic!Born(a) /\ users[a].email = req[p].email
    BY <2>3, <2>6, SameRows DEF HasEmail
  <2>8. acct[p] \in Accounts /\ Atomic!Born(acct[p]) /\ users[acct[p]].email = req[p].email
    BY <1>1, <2>3, <2>4, SameRows DEF HasEmail
  <2>9. Atomic!NewSession(acct[p]) /\ UNCHANGED << users, gyms >>
    BY <2>1, SameRows DEF StartSession, Atomic!NewSession
  <2> QED
    BY <1>2, <2>6, <2>7, <2>8, <2>9 DEF Atomic!login
<1>3. CASE answer[p] = "noAccess"
  BY <1>3 DEF Commit, Atomic!login, Atomic!tables, tables
<1> QED
  BY <1>1, <1>2, <1>3 DEF AnswerOK, Answers

LEMMA SessionServes ==
  ASSUME AInv, PromisesOK, NEW p \in Workers, Commit(p), req[p].op \in Sessions
  PROVE  Atomic!Serve(req[p], answer[p])
<1>1. /\ pc[p] = "commit" /\ AnswerOK(p) /\ WorkerOK(p)
      /\ req[p] \in Requests \cup {NoRequest}
  BY DEF Commit, PromisesOK, PromiseOK, AInv, TypeOK
<1>2. acct[p] = req[p].user /\ acct[p] \in Accounts
  BY <1>1, RequestFields DEF WorkerOK, StepOK
<1>3. lock[acct[p]] = p => Live(acct[p])
  BY <1>2, WorkersAssumption DEF AInv, LocksOK
<1>4. CASE req[p].op = "refresh"
  <2>1. answer[p] = "ok"
    BY <1>1, <1>4 DEF AnswerOK, Answers
  <2>2. RenewSession(p)
    BY <1>4, <2>1 DEF Commit, Writers
  <2>3. Atomic!Born(req[p].user)
    BY <1>1, <1>2, <1>4, <2>1, SameRows DEF WorkerOK, ReaderOK, Readers, Finished, Born
  <2>4. Atomic!refresh(req[p], answer[p])
    BY <1>2, <1>4, <2>1, <2>2, <2>3, SameRows DEF RenewSession, Atomic!refresh
  <2> QED
    BY <2>4 DEF Atomic!Serve
<1>5. CASE req[p].op = "getUserHours"
  <2>1. UNCHANGED tables
    BY <1>5 DEF Commit
  <2>2. answer[p] \in {"ok", "notFound"} /\ (answer[p] = "notFound" => ~Atomic!Live(req[p].user))
    BY <1>1, <1>2, <1>5, SameRows DEF AnswerOK, Answers
  <2>3. Atomic!getUserHours(req[p], answer[p])
    BY <1>5, <2>1, <2>2 DEF Atomic!getUserHours, Atomic!tables, tables
  <2> QED
    BY <2>3 DEF Atomic!Serve
<1>6. CASE req[p].op = "addUserHours"
  <2>1. CASE answer[p] = "ok"
    <3>1. WriteHours(p)
      BY <1>6, <2>1 DEF Commit, Writers
    <3>2. /\ lock[acct[p]] = p /\ value[p] \in Hours /\ req[p].amount \in Hours
          /\ value[p] = users[acct[p]].hours + req[p].amount
      BY <1>1, <1>6, <2>1 DEF WorkerOK, WriterOK, Adding, Finished
    <3>3. Atomic!addUserHours(req[p], answer[p])
      BY <1>2, <1>3, <1>6, <2>1, <3>1, <3>2, SameRows DEF WriteHours, Atomic!addUserHours
    <3> QED
      BY <3>3 DEF Atomic!Serve
  <2>2. CASE answer[p] = "notFound"
    <3>1. UNCHANGED tables /\ ~Live(acct[p])
      BY <1>1, <1>6, <2>2 DEF Commit, AnswerOK
    <3>2. Atomic!addUserHours(req[p], answer[p])
      BY <1>2, <1>6, <2>2, <3>1, SameRows DEF Atomic!addUserHours, tables
    <3> QED
      BY <3>2 DEF Atomic!Serve
  <2> QED
    BY <1>1, <1>6, <2>1, <2>2 DEF AnswerOK, Answers
<1>7. CASE req[p].op = "banUser"
  <2>1. UNCHANGED tables
    BY <1>7 DEF Commit
  <2>2. answer[p] = IF Atomic!Live(req[p].user) THEN "ok" ELSE "notFound"
    BY <1>1, <1>2, <1>3, <1>7, SameRows DEF AnswerOK, Answers
  <2>3. Atomic!banUser(req[p], answer[p])
    BY <1>7, <2>1, <2>2 DEF Atomic!banUser, Atomic!tables, tables
  <2> QED
    BY <2>3 DEF Atomic!Serve
<1>8. CASE req[p].op = "deleteUser"
  <2>1. answer[p] = "ok" /\ (Live(acct[p]) <=> lock[acct[p]] = p)
    BY <1>1, <1>3, <1>8 DEF AnswerOK, Answers
  <2>2. RemoveUser(p)
    BY <1>8, <2>1 DEF Commit, Writers
  <2>3. Atomic!deleteUser(req[p], answer[p])
    BY <1>2, <1>8, <2>1, <2>2, SameRows DEF RemoveUser, Atomic!deleteUser
  <2> QED
    BY <2>3 DEF Atomic!Serve
<1>9. CASE req[p].op = "addGym"
  <2>1. CASE answer[p] = "ok"
    <3>1. OpenGym(p) /\ gyms[req[p].gym] = {}
      BY <1>1, <1>9, <2>1 DEF Commit, Writers, AnswerOK
    <3>2. lock[acct[p]] = p /\ users[acct[p]].admin
      BY <1>1, <1>9, <2>1 DEF WorkerOK, WriterOK, Opening, Finished
    <3>3. Atomic!addGym(req[p], answer[p])
      BY <1>2, <1>3, <1>9, <2>1, <3>1, <3>2, SameRows DEF OpenGym, Atomic!addGym
    <3> QED
      BY <3>3 DEF Atomic!Serve
  <2>2. CASE answer[p] = "noAccess"
    <3>1. UNCHANGED tables /\ lock[acct[p]] = p /\ ~users[acct[p]].admin
      BY <1>1, <1>9, <2>2 DEF Commit, AnswerOK
    <3>2. Atomic!addGym(req[p], answer[p])
      BY <1>2, <1>3, <1>9, <2>2, <3>1, SameRows DEF Atomic!addGym, tables
    <3> QED
      BY <3>2 DEF Atomic!Serve
  <2> QED
    BY <1>1, <1>9, <2>1, <2>2 DEF AnswerOK, Answers
<1> QED
  BY <1>1, <1>4, <1>5, <1>6, <1>7, <1>8, <1>9 DEF AnswerOK, Sessions

LEMMA CommitServes ==
  ASSUME AInv, PromisesOK, NEW p \in Workers, Commit(p)
  PROVE  req[p] \in Requests /\ answer[p] \in Answers /\ Atomic!Serve(req[p], answer[p])
<1>1. req[p] \in Requests /\ answer[p] \in Answers
  BY DEF Commit, AInv, TypeOK, WorkerOK, StepOK, PromisesOK, PromiseOK, AnswerOK
<1>2. req[p].op \in Sessions \cup {"createAccount", "login"}
  BY <1>1, RequestFields, NoRequestFields
<1> QED
  BY <1>1, <1>2, RegistrationServes, LoginServes, SessionServes DEF Atomic!Serve

LEMMA AddAdminServes ==
  ASSUME AInv, NEW p \in Workers, addAdminToGym(p)
  PROVE  req[p] \in Requests /\ Atomic!Serve(req[p], "ok")
<1>1. /\ req[p] \in Requests /\ req[p].op = "addAdminToGym" /\ acct[p] = req[p].user
  BY DEF addAdminToGym, AInv, TypeOK, WorkerOK, StepOK, Sessions
<1>2. Atomic!addAdminToGym(req[p], "ok")
  BY <1>1 DEF addAdminToGym, Atomic!addAdminToGym
<1> QED
  BY <1>1, <1>2 DEF Atomic!Serve

(* What every request that ends has relied on until then.                  *)
ServeInv == AInv /\ HoldersOK /\ PromisesOK

LEMMA ServeInvariance == Spec => []ServeInv
<1>1. Init => HoldersOK /\ PromisesOK
  <2>1. ASSUME Init, NEW p \in Workers PROVE pc[p] = "idle" /\ req[p] = NoRequest
    BY <2>1 DEF Init
  <2>2. Init => PromisesOK
    BY <2>1, NoRequestFields DEF PromisesOK, PromiseOK, Opens, Finished
  <2> QED
    BY <2>2, WorkersAssumption DEF Init, HoldersOK, HolderOK
<1>2. ServeInv /\ [Next]_vars => ServeInv'
  BY NextAInv, NextHolders, NextPromises DEF ServeInv
<1> QED
  BY <1>1, <1>2, InitAInv, PTL DEF Spec, ServeInv

(* Whatever other workers do between its statements, a request ends as if  *)
(* it had run alone at its end, with that run's answer                     *)
(* (auth_routes.cpp:87-101, user_routes.cpp:20-31,                         *)
(* section_routes.cpp:29-37).                                              *)
THEOREM AtomicRequests == Spec => RequestsAreAtomic
<1>1. ServeInv /\ [Next]_vars =>
        [\A p \in Workers :
           /\ Commit(p) => Atomic!Serve(req[p], answer[p])
           /\ addAdminToGym(p) => Atomic!Serve(req[p], "ok")]_vars
  BY CommitServes, AddAdminServes DEF ServeInv
<1> QED
  BY <1>1, ServeInvariance, PTL DEF Spec, RequestsAreAtomic

(* Tables and tokens change as AtomicAccounts says: any number of workers, *)
(* with their waits, failures and rollbacks, act as if requests ran one    *)
(* after the other (database.hpp:52-67).                                   *)
THEOREM AccountsRefine == Spec => AtomicAccountsSpec
<1>1. Init => Atomic!InitTables
  <2>1. Atomic!Row = Row
    BY DEF Atomic!Row, Row, Atomic!Hours, Hours
  <2> QED
    BY <2>1, SameRows DEF Init, InitTables, Atomic!InitTables
<1>2. ServeInv /\ [Next]_vars => [Atomic!Next]_(Atomic!tables)
  <2> SUFFICES ASSUME ServeInv, [Next]_vars, tables' # tables PROVE Atomic!Next
    BY DEF Atomic!tables, tables
  <2>1. CASE Expire
    BY <2>1 DEF Expire, Atomic!Expire, Atomic!Next
  <2>2. CASE \E p \in Workers : Accept(p) \/ Advance(p) \/ Fail(p)
    <3>1. PICK p \in Workers : Accept(p) \/ Advance(p) \/ Fail(p)
      BY <2>2
    <3>2. Commit(p) \/ addAdminToGym(p)
      BY <3>1 DEF Accept, Fail, Unwind, Rollback, Advance, emailExists, lockFound, createUser,
           getPasswordByEmail, getUserIdByEmail, isAdmin, userExists, getUserHours, addUserHours,
           banUser, deleteUser, addGym, createGym
    <3>3. Requests = Atomic!Requests
      BY DEF Requests, AuthRequests, SessionRequests, Atomic!Requests, Atomic!AuthRequests,
             Atomic!SessionRequests
    <3>4. CASE addAdminToGym(p)
      BY <3>3, <3>4, AddAdminServes DEF ServeInv, Atomic!Next
    <3>5. CASE Commit(p)
      <4>1. req[p] \in Requests /\ Atomic!Serve(req[p], answer[p])
        BY <3>5, CommitServes DEF ServeInv
      <4>2. answer[p] = "ok"
        BY <3>5 DEF Commit, Writers
      <4> QED
        BY <3>3, <4>1, <4>2 DEF Atomic!Next
    <3> QED
      BY <3>2, <3>4, <3>5
  <2> QED
    BY <2>1, <2>2 DEF Next, vars
<1> QED
  BY <1>1, <1>2, ServeInvariance, PTL DEF Spec, AtomicAccountsSpec, Atomic!Spec
=============================================================================
