---------------------------- MODULE AtomicAccounts ----------------------------
(***************************************************************************)
(* What the requests about accounts and gyms promise: each of them acts on *)
(* the tables in one step, as if it ran alone, and its answer is the one   *)
(* that step gives.  The requests that only read, and login, whose SELECTs *)
(* see different moments, promise less, as said at each.  Accounts         *)
(* implements this with transactions, row locks and UNIQUE indexes.        *)
(***************************************************************************)
EXTENDS AccountRows

(* Of the accounts that were ever made.                                    *)
Born(a) == users[a].st # "unborn"

NewSession(a) == tokens' = tokens \cup {make_access_token(a), make_refresh_token(a)}

-----------------------------------------------------------------------------
createAccount(r, ans) ==
  /\ r.op = "createAccount"
  /\ \/ Named(r.email) # {} /\ ans = "invalid" /\ UNCHANGED tables
     \/ /\ Named(r.email) = {}
        /\ \E a \in Accounts :
             /\ ~Born(a)
             /\ users' = [users EXCEPT ![a] = NewRow(r.email, r.password)]
             /\ NewSession(a)
        /\ ans = "ok"
        /\ UNCHANGED gyms

(* The password is read, then the id: an account has or had the email and  *)
(* that password, and the session's account has or had the email.          *)
login(r, ans) ==
  /\ r.op = "login"
  /\ \/ ans = "noAccess" /\ UNCHANGED tables
     \/ /\ \E a \in Accounts : Born(a) /\ users[a].email = r.email /\ users[a].password = r.password
        /\ \E a \in Accounts : Born(a) /\ users[a].email = r.email /\ NewSession(a)
        /\ ans = "ok"
        /\ UNCHANGED << users, gyms >>

refresh(r, ans) ==
  /\ r.op = "refresh"
  /\ Born(r.user)
  /\ tokens' = tokens \cup {make_access_token(r.user)}
  /\ ans = "ok"
  /\ UNCHANGED << users, gyms >>

getUserHours(r, ans) ==
  /\ r.op = "getUserHours"
  /\ ans = "notFound" => ~Live(r.user)
  /\ ans \in {"ok", "notFound"}
  /\ UNCHANGED tables

addUserHours(r, ans) ==
  LET total == users[r.user].hours + r.amount
  IN  /\ r.op = "addUserHours"
      /\ \/ ~Live(r.user) /\ ans = "notFound" /\ UNCHANGED users
         \/ /\ Live(r.user) /\ r.amount \in Hours /\ total \in Hours
            /\ users' = [users EXCEPT ![r.user].hours = total]
            /\ ans = "ok"
      /\ UNCHANGED << gyms, tokens >>

banUser(r, ans) ==
  /\ r.op = "banUser"
  /\ ans = IF Live(r.user) THEN "ok" ELSE "notFound"
  /\ UNCHANGED tables

(* The account's tokens, and the gyms that name it, stay.                  *)
deleteUser(r, ans) ==
  /\ r.op = "deleteUser"
  /\ users' = IF Live(r.user)
              THEN [users EXCEPT ![r.user] = [NewRow(@.email, @.password) EXCEPT !.st = "gone"]]
              ELSE users
  /\ ans = "ok"
  /\ UNCHANGED << gyms, tokens >>

addGym(r, ans) ==
  /\ r.op = "addGym"
  /\ Live(r.user)
  /\ \/ ~users[r.user].admin /\ ans = "noAccess" /\ UNCHANGED gyms
     \/ /\ users[r.user].admin /\ gyms[r.gym] = {}
        /\ gyms' = [gyms EXCEPT ![r.gym] = {r.user}]
        /\ ans = "ok"
  /\ UNCHANGED << users, tokens >>

addAdminToGym(r, ans) ==
  /\ r.op = "addAdminToGym"
  /\ gyms' = [gyms EXCEPT ![r.gym] = IF @ = {} THEN @ ELSE @ \cup {r.user}]
  /\ ans = "ok"
  /\ UNCHANGED << users, tokens >>

Serve(r, ans) ==
  \/ createAccount(r, ans) \/ login(r, ans) \/ refresh(r, ans)
  \/ getUserHours(r, ans) \/ addUserHours(r, ans)
  \/ banUser(r, ans) \/ deleteUser(r, ans)
  \/ addGym(r, ans) \/ addAdminToGym(r, ans)

Expire ==
  \E t \in tokens : tokens' = tokens \ {t} /\ UNCHANGED << users, gyms >>

(* Any other answer leaves the tables as they are.                         *)
Next == (\E r \in Requests : Serve(r, "ok")) \/ Expire

Spec == InitTables /\ [][Next]_tables
=============================================================================
