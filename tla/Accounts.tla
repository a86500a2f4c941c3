------------------------------- MODULE Accounts -------------------------------
(***************************************************************************)
(* Accounts, the tokens of their sessions, their hours, and the gyms their *)
(* administrators open (auth_routes.cpp, user_routes.cpp,                  *)
(* section_routes.cpp, jwt.cpp).  As in Booking a step is one statement    *)
(* that may wait, with what the handler does up to the next one; what a    *)
(* transaction writes is kept with its worker until it commits, and plain  *)
(* SELECTs see what is committed (READ COMMITTED).                         *)
(*                                                                         *)
(* An operator whose comment starts with "Bug:" is a faulty variant of the *)
(* one below it, which nothing uses (PROJECT.json, "mutants").             *)
(***************************************************************************)
EXTENDS AccountRows

CONSTANTS
  Workers,
  Nobody,       \* the holder of a free row
  NoAccount,    \* the empty string getUserIdByEmail returns
  NoValue       \* the empty string getPasswordByEmail returns

ASSUME WorkersAssumption == Nobody \notin Workers /\ NoAccount \notin Accounts
ASSUME ValuesAssumption == NoValue \notin Passwords /\ NoValue \notin Int

VARIABLES       \* the tables of AccountRows hold what is committed
  lock,         \* the transaction that holds each users row
  pc, req,      \* each worker's next statement, and the request it handles
  acct,         \* its local variable: the account it has found
  value,        \* its local variable: the password read, or the hours written
  answer,       \* the response built so far
  added,        \* history: the hours acknowledged to each account
  present       \* history: the accounts that existed since a reading request began

locals == << pc, req, acct, value, answer >>
history == << added, present >>
vars == << tables, lock, locals, history >>

Readers == {"login", "refresh", "getUserHours"}
NoRequest == [op |-> "none"]

Init ==
  /\ InitTables
  /\ lock = [a \in Accounts |-> Nobody]
  /\ pc = [p \in Workers |-> "idle"]
  /\ req = [p \in Workers |-> NoRequest]
  /\ acct = [p \in Workers |-> NoAccount]
  /\ value = [p \in Workers |-> NoValue]
  /\ answer = [p \in Workers |-> "none"]
  /\ added = [a \in Accounts |-> 0]
  /\ present = [p \in Workers |-> {}]

-----------------------------------------------------------------------------
Goto(p, step) ==
  /\ pc' = [pc EXCEPT ![p] = step]
  /\ UNCHANGED answer

Reply(p, a) ==
  /\ pc' = [pc EXCEPT ![p] = "commit"]
  /\ answer' = [answer EXCEPT ![p] = a]

(* Transactions that wrote what a UNIQUE index must wait for: an INSERT of *)
(* the same email or gym, or a DELETE of the row that has the email.       *)
Inserting(q, op, field, key) ==
  pc[q] = "commit" /\ req[q].op = op /\ answer[q] = "ok" /\ req[q][field] = key

Deleting(q, a) == pc[q] = "commit" /\ req[q].op = "deleteUser" /\ lock[a] = q

(* A row that is not there is neither found nor waited for.                *)
WaitsFor(p, q) ==
  /\ q # p
  /\ \/ pc[p] \in {"lock", "lockFound"} /\ Live(acct[p]) /\ lock[acct[p]] = q
     \/ /\ pc[p] = "insert"
        /\ \/ Inserting(q, "createAccount", "email", req[p].email)
           \/ \E a \in Named(req[p].email) : Deleting(q, a)
     \/ pc[p] = "createGym" /\ Inserting(q, "addGym", "gym", req[p].gym)

Waits(p) == \E q \in Workers : WaitsFor(p, q)

lockUser(p) ==
  /\ ~Waits(p)
  /\ lock' = IF Live(acct[p]) THEN [lock EXCEPT ![acct[p]] = p] ELSE lock

FirstStep(op) ==
  CASE op = "createAccount" -> "findEmail"
    [] op = "login"         -> "readPassword"
    [] op = "refresh"       -> "readAdmin"
    [] op = "getUserHours"  -> "userExists"
    [] op = "addAdminToGym" -> "addAdmin"
    [] OTHER                -> "lock"

(* AuthMiddleware::before_handle lets every request with an access token   *)
(* pass that has not expired; whose token it is plays no part.  The routes *)
(* under /v1/auth/ need none; refresh itself asks for a refresh token.     *)
Authorized(r) ==
  IF r \in AuthRequests
  THEN r.op = "refresh" => [sub |-> r.user, typ |-> "refresh"] \in tokens
  ELSE /\ \E t \in tokens : t.typ = "access"
       /\ users[r.user].st # "unborn"

(* Bound: an account is asked for while there are ids left for everyone    *)
(* who has asked.                                                          *)
IdsLeft ==
  Cardinality({p \in Workers : req[p].op = "createAccount"})
    < Cardinality({a \in Accounts : users[a].st = "unborn"})

Accept(p) ==
  \E r \in Requests :
    /\ pc[p] = "idle"
    /\ Authorized(r)
    /\ r.op = "createAccount" => IdsLeft
    /\ req' = [req EXCEPT ![p] = r]
    /\ acct' = [acct EXCEPT ![p] = IF r.op \in {"createAccount", "login"} THEN NoAccount ELSE r.user]
    /\ present' = [present EXCEPT ![p] = IF r.op \in Readers THEN Existing ELSE {}]
    /\ Goto(p, FirstStep(r.op))
    /\ UNCHANGED << tables, lock, value, added >>

-----------------------------------------------------------------------------
(* createAccount                                                           *)

(* emailExists, a SELECT ... FOR UPDATE: it locks the row of the account   *)
(* with this email, and nothing when there is none.                        *)
emailExists(p) ==
  /\ pc[p] = "findEmail"
  /\ \/ /\ Named(req[p].email) = {}
        /\ Goto(p, "insert")
        /\ UNCHANGED acct
     \/ \E a \in Named(req[p].email) :
          /\ acct' = [acct EXCEPT ![p] = a]
          /\ Goto(p, "lockFound")
  /\ UNCHANGED << tables, lock, req, value, history >>

(* Bug: the row that was found before the wait is still believed in.       *)
lockFoundUnasked(p) ==
  /\ pc[p] = "lockFound"
  /\ lockUser(p)
  /\ Reply(p, "invalid")
  /\ UNCHANGED << tables, req, acct, value, history >>

(* The row may be gone once its holder has finished.                       *)
lockFound(p) ==
  /\ pc[p] = "lockFound"
  /\ lockUser(p)
  /\ IF Live(acct[p]) THEN Reply(p, "invalid") ELSE Goto(p, "insert")
  /\ UNCHANGED << tables, req, acct, value, history >>

(* Bug: the column has no UNIQUE.                                          *)
createUserAnyway(p) ==
  LET claimed == {acct[q] : q \in {v \in Workers : pc[v] = "commit"}}
  IN  /\ pc[p] = "insert"
      /\ \E a \in Accounts \ claimed :
           /\ users[a].st = "unborn"
           /\ acct' = [acct EXCEPT ![p] = a]
           /\ Reply(p, "ok")
      /\ UNCHANGED << tables, lock, req, value, history >>

(* createUser, an INSERT, and getUserIdByEmail, which sees its row.        *)
createUser(p) ==
  LET e == req[p].email
      claimed == {acct[q] : q \in {v \in Workers : pc[v] = "commit"}}
  IN  /\ pc[p] = "insert"
      /\ ~Waits(p)
      /\ \/ Named(e) # {} /\ Goto(p, "unwind") /\ UNCHANGED acct
         \/ /\ Named(e) = {}
            /\ \E a \in Accounts \ claimed :
                 /\ users[a].st = "unborn"
                 /\ acct' = [acct EXCEPT ![p] = a]
                 /\ Reply(p, "ok")
      /\ UNCHANGED << tables, lock, req, value, history >>

-----------------------------------------------------------------------------
(* login and refresh: three SELECTs, each of which sees what is committed  *)
(* when it runs.                                                           *)

getPasswordByEmail(p) ==
  LET named == Named(req[p].email)
  IN  /\ pc[p] = "readPassword"
      /\ \/ named = {} /\ UNCHANGED value
         \/ \E a \in named : value' = [value EXCEPT ![p] = users[a].password]
      /\ Goto(p, "readId")
      /\ UNCHANGED << tables, lock, req, acct, history >>

(* Bug: any password that was found will do.                               *)
verifyPasswordFound(p) == value[p] # NoValue

verifyPassword(p) == value[p] = req[p].password

getUserIdByEmail(p) ==
  LET named == Named(req[p].email)
  IN  /\ pc[p] = "readId"
      /\ \/ named = {} /\ UNCHANGED acct
         \/ \E a \in named : acct' = [acct EXCEPT ![p] = a]
      /\ IF verifyPassword(p) THEN Goto(p, "readAdmin") ELSE Reply(p, "noAccess")
      /\ UNCHANGED << tables, lock, req, value, history >>

(* Bug: an account that is gone is no administrator.                       *)
isAdminOrGone(p) ==
  /\ pc[p] = "readAdmin"
  /\ \/ acct[p] # NoAccount /\ Reply(p, "ok")
     \/ acct[p] = NoAccount /\ Goto(p, "unwind")
  /\ UNCHANGED << tables, lock, req, acct, value, history >>

(* isAdmin throws for an account that is gone, and for the id "".          *)
isAdmin(p) ==
  /\ pc[p] = "readAdmin"
  /\ IF acct[p] \in Existing THEN Reply(p, "ok") ELSE Goto(p, "unwind")
  /\ UNCHANGED << tables, lock, req, acct, value, history >>

-----------------------------------------------------------------------------
(* Hours, bans and deletion                                                *)

(* Bug: the hours are read without asking.                                 *)
userExistsUnasked(p) ==
  /\ pc[p] = "userExists"
  /\ Goto(p, "readHours")
  /\ UNCHANGED << tables, lock, req, acct, value, history >>

(* userExists, in a transaction of its own.                                *)
userExists(p) ==
  /\ pc[p] = "userExists"
  /\ IF Live(acct[p]) THEN Goto(p, "readHours") ELSE Reply(p, "notFound")
  /\ UNCHANGED << tables, lock, req, acct, value, history >>

getUserHours(p) ==
  /\ pc[p] = "readHours"
  /\ IF Live(acct[p])
     THEN /\ value' = [value EXCEPT ![p] = users[acct[p]].hours]
          /\ Reply(p, "ok")
     ELSE Goto(p, "unwind") /\ UNCHANGED value
  /\ UNCHANGED << tables, lock, req, acct, history >>

(* Bug: the sum is kept in an int.                                         *)
fitsInt(h) == h \in Int

(* hours is a SMALLINT.                                                    *)
fits(h) == h \in Hours

(* Bug: the row is not locked.                                             *)
addUserHoursUnlocked(p) ==
  LET total == users[acct[p]].hours + req[p].amount
  IN  /\ pc[p] = "lock"
      /\ req[p].op = "addUserHours"
      /\ \/ ~Live(acct[p]) /\ Reply(p, "notFound") /\ UNCHANGED value
         \/ /\ Live(acct[p]) /\ ~(fits(req[p].amount) /\ fits(total))
            /\ Goto(p, "unwind") /\ UNCHANGED value
         \/ /\ Live(acct[p]) /\ fits(req[p].amount) /\ fits(total)
            /\ value' = [value EXCEPT ![p] = total]
            /\ Reply(p, "ok")
      /\ UNCHANGED << tables, lock, req, acct, history >>

(* The UPDATE fails when its parameter, or the sum, is no SMALLINT.         *)
addUserHours(p) ==
  LET total == users[acct[p]].hours + req[p].amount
  IN  /\ pc[p] = "lock"
      /\ req[p].op = "addUserHours"
      /\ lockUser(p)
      /\ \/ ~Live(acct[p]) /\ Reply(p, "notFound") /\ UNCHANGED value
         \/ /\ Live(acct[p]) /\ ~(fits(req[p].amount) /\ fits(total))
            /\ Goto(p, "unwind") /\ UNCHANGED value
         \/ /\ Live(acct[p]) /\ fits(req[p].amount) /\ fits(total)
            /\ value' = [value EXCEPT ![p] = total]
            /\ Reply(p, "ok")
      /\ UNCHANGED << tables, req, acct, history >>

(* unban_time is NULL for everyone, and so is NULL + x: nobody is banned.  *)
banUser(p) ==
  /\ pc[p] = "lock"
  /\ req[p].op = "banUser"
  /\ lockUser(p)
  /\ IF Live(acct[p]) THEN Reply(p, "ok") ELSE Reply(p, "notFound")
  /\ UNCHANGED << tables, req, acct, value, history >>

deleteUser(p) ==
  /\ pc[p] = "lock"
  /\ req[p].op = "deleteUser"
  /\ lockUser(p)
  /\ Reply(p, "ok")
  /\ UNCHANGED << tables, req, acct, value, history >>

-----------------------------------------------------------------------------
(* Gyms                                                                    *)

(* isAdmin with FOR UPDATE.                                                *)
addGym(p) ==
  /\ pc[p] = "lock"
  /\ req[p].op = "addGym"
  /\ lockUser(p)
  /\ \/ ~Live(acct[p]) /\ Goto(p, "unwind")
     \/ Live(acct[p]) /\ ~users[acct[p]].admin /\ Reply(p, "noAccess")
     \/ Live(acct[p]) /\ users[acct[p]].admin /\ Goto(p, "createGym")
  /\ UNCHANGED << tables, req, acct, value, history >>

(* The INSERT waits for one of the same name, and fails if it commits.     *)
createGym(p) ==
  /\ pc[p] = "createGym"
  /\ ~Waits(p)
  /\ IF gyms[req[p].gym] = {} THEN Reply(p, "ok") ELSE Goto(p, "unwind")
  /\ UNCHANGED << tables, lock, req, acct, value, history >>

-----------------------------------------------------------------------------
(* Bug: the rows stay locked.                                              *)
FinishHoldingRows(p) ==
  /\ pc' = [pc EXCEPT ![p] = "idle"]
  /\ req' = [req EXCEPT ![p] = NoRequest]
  /\ acct' = [acct EXCEPT ![p] = NoAccount]
  /\ value' = [value EXCEPT ![p] = NoValue]
  /\ answer' = [answer EXCEPT ![p] = "none"]
  /\ UNCHANGED lock

(* The end of a request frees its rows and its worker.                     *)
Finish(p) ==
  /\ lock' = [a \in Accounts |-> IF lock[a] = p THEN Nobody ELSE lock[a]]
  /\ pc' = [pc EXCEPT ![p] = "idle"]
  /\ req' = [req EXCEPT ![p] = NoRequest]
  /\ acct' = [acct EXCEPT ![p] = NoAccount]
  /\ value' = [value EXCEPT ![p] = NoValue]
  /\ answer' = [answer EXCEPT ![p] = "none"]

Register(p) ==
  /\ users' = [users EXCEPT ![acct[p]] = NewRow(req[p].email, req[p].password)]
  /\ tokens' = tokens \cup {make_access_token(acct[p]), make_refresh_token(acct[p])}
  /\ UNCHANGED << gyms, added >>

StartSession(p) ==
  /\ tokens' = tokens \cup {make_access_token(acct[p]), make_refresh_token(acct[p])}
  /\ UNCHANGED << users, gyms, added >>

RenewSession(p) ==
  /\ tokens' = tokens \cup {make_access_token(acct[p])}
  /\ UNCHANGED << users, gyms, added >>

WriteHours(p) ==
  /\ users' = [users EXCEPT ![acct[p]].hours = value[p]]
  /\ added' = [added EXCEPT ![acct[p]] = @ + req[p].amount]
  /\ UNCHANGED << gyms, tokens >>

(* Of a row that is gone only history asks for the email.                  *)
RemoveUser(p) ==
  /\ IF lock[acct[p]] = p
     THEN /\ users' = [users EXCEPT ![acct[p]] = [NewRow(@.email, @.password) EXCEPT !.st = "gone"]]
          /\ added' = [added EXCEPT ![acct[p]] = 0]
     ELSE UNCHANGED << users, added >>
  /\ UNCHANGED << gyms, tokens >>

OpenGym(p) ==
  /\ gyms' = [gyms EXCEPT ![req[p].gym] = {acct[p]}]
  /\ UNCHANGED << users, tokens, added >>

(* One UPDATE; whether there is such an account is not asked.              *)
addAdminToGym(p) ==
  /\ pc[p] = "addAdmin"
  /\ gyms' = [gyms EXCEPT ![req[p].gym] = IF @ = {} THEN @ ELSE @ \cup {acct[p]}]
  /\ Finish(p)
  /\ present' = [present EXCEPT ![p] = {}]
  /\ UNCHANGED << users, tokens, added >>

Writers == {"createAccount", "login", "refresh", "addUserHours", "deleteUser", "addGym"}

(* An account that is made is present for the requests under way.          *)
Witness(p) ==
  present' = [q \in Workers |->
                IF q = p \/ req[q].op \notin Readers THEN {}
                ELSE present[q] \cup {a \in Accounts : users'[a].st = "live"}]

Commit(p) ==
  LET op == req[p].op ok == answer[p] = "ok"
  IN  /\ pc[p] = "commit"
      /\ \/ op = "createAccount" /\ ok /\ Register(p)
         \/ op = "login" /\ ok /\ StartSession(p)
         \/ op = "refresh" /\ ok /\ RenewSession(p)
         \/ op = "addUserHours" /\ ok /\ WriteHours(p)
         \/ op = "deleteUser" /\ ok /\ RemoveUser(p)
         \/ op = "addGym" /\ ok /\ OpenGym(p)
         \/ (op \in Writers => ~ok) /\ UNCHANGED << tables, added >>
      /\ Witness(p)
      /\ Finish(p)

(* An exception leaves the handler, at any statement or at the COMMIT: its *)
(* writes are dropped and the client is answered 500 (by refresh, 401).    *)
Rollback(p) ==
  /\ Finish(p)
  /\ present' = [present EXCEPT ![p] = {}]
  /\ UNCHANGED << tables, added >>

Unwind(p) == pc[p] = "unwind" /\ Rollback(p)

Fail(p) == pc[p] # "idle" /\ Rollback(p)

(* The exp claim: 15 minutes for access, 7 days for refresh.               *)
Expire ==
  \E t \in tokens :
    /\ tokens' = tokens \ {t}
    /\ UNCHANGED << users, gyms, lock, locals, history >>

Advance(p) ==
  \/ emailExists(p) \/ lockFound(p) \/ createUser(p)
  \/ getPasswordByEmail(p) \/ getUserIdByEmail(p) \/ isAdmin(p)
  \/ userExists(p) \/ getUserHours(p)
  \/ addUserHours(p) \/ banUser(p) \/ deleteUser(p)
  \/ addGym(p) \/ createGym(p) \/ addAdminToGym(p)
  \/ Commit(p) \/ Unwind(p)

Next == (\E p \in Workers : Accept(p) \/ Advance(p) \/ Fail(p)) \/ Expire

Spec == Init /\ [][Next]_vars

(* What is committed, as AtomicAccounts sees it.                           *)
Atomic == INSTANCE AtomicAccounts
AtomicAccountsSpec == Atomic!Spec

-----------------------------------------------------------------------------
Steps == {"idle", "findEmail", "lockFound", "insert", "readPassword", "readId", "readAdmin",
          "userExists", "readHours", "lock", "createGym", "addAdmin", "commit", "unwind"}

TypeOK ==
  /\ users \in [Accounts -> Row]
  /\ gyms \in [Gyms -> SUBSET Accounts]
  /\ tokens \subseteq Token
  /\ lock \in [Accounts -> Workers \cup {Nobody}]
  /\ pc \in [Workers -> Steps]
  /\ req \in [Workers -> Requests \cup {NoRequest}]
  /\ acct \in [Workers -> Accounts \cup {NoAccount}]
  /\ value \in [Workers -> Passwords \cup Hours \cup {NoValue}]
  /\ answer \in [Workers -> Answers \cup {"none"}]
  /\ added \in [Accounts -> Int]
  /\ present \in [Workers -> SUBSET Accounts]

(* No two accounts have one email: createAccount's FOR UPDATE locks        *)
(* nothing when the email is new, and two of them meet at the INSERT       *)
(* (auth_routes.cpp:88-91).                                                *)
EmailsAreUnique ==
  \A a, b \in Existing : users[a].email = users[b].email => a = b

(* An account has the hours that were acknowledged, none lost to another   *)
(* addition or to a failure (user_routes.cpp:24-30, user_manager.cpp:5-8). *)
HoursAddUp == \A a \in Existing : users[a].hours = added[a]

(* Unless an account with the email is deleted during the login, the       *)
(* token's account is the one with this email and password, although they  *)
(* are read one after the other (auth_routes.cpp:114-129).                 *)
LoginsAreGenuine ==
  [][\A p \in Workers :
       /\ Commit(p)
       /\ req[p].op = "login" /\ answer[p] = "ok"
       /\ \A b \in present[p] : users[b].email = req[p].email => Live(b)
       => /\ users[acct[p]].email = req[p].email
          /\ users[acct[p]].password = req[p].password]_vars

(* A request gives out tokens only for an account that existed at some     *)
(* time since it began, so the sessions of a deleted account end with the  *)
(* tokens it has (auth_routes.cpp:151-157, user_manager.cpp:16-22).        *)
TokensNeedAnAccount ==
  [][\A p \in Workers : Commit(p) =>
       \A t \in tokens' \ tokens : t.sub \in present[p] \/ users'[t.sub].st = "live"]_vars

(* A login, or a question for the hours, fails on its own account only if  *)
(* the account was deleted between its statements (user_routes.cpp:7-10).  *)
ReadsFailForTheDeleted ==
  \A p \in Workers : pc[p] = "unwind" /\ req[p].op \in {"login", "getUserHours"} =>
    \E a \in present[p] :
      /\ ~Live(a)
      /\ IF req[p].op = "login" THEN users[a].email = req[p].email ELSE a = acct[p]

(* Requests never wait in a circle, nor for a worker that has no request:  *)
(* rows are locked before the names of gyms, and an email by nobody who    *)
(* waits for a row (auth_routes.cpp:88-91, section_routes.cpp:31-37).      *)
WaitsEnd ==
  \A p, q \in Workers : WaitsFor(p, q) =>
    /\ pc[q] # "idle"
    /\ \A r \in Workers : WaitsFor(q, r) => pc[r] # "idle" /\ ~Waits(r)

(* A request changes the tables at once, and is answered, as if it had run *)
(* alone when it ended: an email that was looked for before the INSERT     *)
(* waited, hours that were added under a lock, an administrator who was    *)
(* asked for before a gym's name was (auth_routes.cpp:87-101,              *)
(* user_routes.cpp:20-31, section_routes.cpp:29-37).                       *)
RequestsAreAtomic ==
  [][\A p \in Workers :
       /\ Commit(p) => Atomic!Serve(req[p], answer[p])
       /\ addAdminToGym(p) => Atomic!Serve(req[p], "ok")]_vars
=============================================================================
