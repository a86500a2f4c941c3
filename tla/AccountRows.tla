----------------------------- MODULE AccountRows -----------------------------
(***************************************************************************)
(* The tables users and gyms as the requests about accounts see them, the  *)
(* tokens, and those requests.  AtomicAccounts and Accounts share them.    *)
(***************************************************************************)
EXTENDS Integers, FiniteSets

CONSTANTS
  Accounts,     \* ids of users rows (UUIDs, never reused)
  Emails, Passwords,
  Gyms,         \* names of gyms; there is one gym of a name
  Amounts,      \* the hours administrators add to an account
  MaxHours      \* the largest SMALLINT

ASSUME HoursAssumption == Amounts \subseteq Int /\ MaxHours \in Nat

VARIABLES
  users,        \* the rows of the table users
  gyms,         \* the gyms, with their administrators
  tokens        \* the tokens that were given out and have not expired

tables == << users, gyms, tokens >>

Hours == (-MaxHours - 1)..MaxHours
Row == [st : {"unborn", "live", "gone"}, email : Emails, password : Passwords,
        hours : Hours, admin : BOOLEAN]
Token == [sub : Accounts, typ : {"access", "refresh"}]

AuthRequests ==
  [op : {"createAccount", "login"}, email : Emails, password : Passwords]
    \cup [op : {"refresh"}, user : Accounts]

SessionRequests ==
  [op : {"getUserHours", "banUser", "deleteUser"}, user : Accounts]
    \cup [op : {"addUserHours"}, user : Accounts, amount : Amounts]
    \cup [op : {"addGym", "addAdminToGym"}, user : Accounts, gym : Gyms]

Requests == AuthRequests \cup SessionRequests
Answers == {"ok", "invalid", "noAccess", "notFound"}

Live(a) == users[a].st = "live"
Existing == {a \in Accounts : Live(a)}
Named(e) == {a \in Existing : users[a].email = e}

NewRow(e, p) == [st |-> "live", email |-> e, password |-> p, hours |-> 0, admin |-> FALSE]

make_access_token(a) == [sub |-> a, typ |-> "access"]
make_refresh_token(a) == [sub |-> a, typ |-> "refresh"]

(* Administrators are made by hand, in the database.                       *)
InitTables ==
  /\ users \in [Accounts -> {r \in Row : /\ r.st \in {"unborn", "live"}
                                         /\ r.hours = 0
                                         /\ r.admin <=> r.st = "live"}]
  /\ \A e \in Emails : \A a, b \in Named(e) : a = b
  /\ gyms = [g \in Gyms |-> {}]
  /\ tokens = {}
=============================================================================
