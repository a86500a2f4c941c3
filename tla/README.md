# Truten: specifications

Truten is a booking service for the training slots of a university's gyms: a
C++ server (Crow threads over PostgreSQL) and a Qt client. This directory holds
TLA+ modules for the parts of it whose correctness depends on the order of
things: who gets a seat, who waits for which row, which thread has which
connection, what the two jobs of the scheduler do while requests go on, whose
account a token is for, and what a client shows when replies come in any order. All paths below are relative to `src/`.

Run `tlc -config <run>.cfg <module>.tla` to model-check and `tlapm <module>.tla`
to check proofs. `PROJECT.json` lists the runs, maps every definition to the
lines it models, and lists the findings and the hazards.

## 1. The system

| Component | State | Operations | Talks to |
|---|---|---|---|
| Booking requests (`server/src/routes/slot_routes.cpp`, `queue_routes.cpp`, `user_routes.cpp`, `dbmanagers/`) | table `slots` (arrays `enrolled_users`, `queue`, `capacity`), table `users` (arrays `enrolled_slots`, `queued_slots`) | book, cancel, join and leave the queue; create, change, delete a slot; delete an account | a transaction each |
| Transactions (`server/include/database.hpp`, `server/src/transaction_guard.cpp`) | open writes and row locks, in PostgreSQL; the thread-local `current_txn` | `executeInTransaction`, `execute`, `lockSlot`, `lockUser` | pool |
| Connection pool (`server/src/database.cpp`) | `m_conn_pool`, `m_cond_var` | `acquireConnection`, the deleter of what it returns | every thread |
| Scheduler (`server/src/scheduler.cpp:15-45`) | the local variable `last_reset` | `resetWeekly` | tables, beside the requests |
| Notifier and mailer (`scheduler.cpp:47-126`, `mailer.cpp`) | the process's environment | a pass over the slots that start soon | tables, msmtp |
| Accounts (`auth_routes.cpp`, `user_routes.cpp`, `dbmanagers/auth_manager.cpp`) | the other columns of `users`, with a UNIQUE `email` | register, log in, refresh, hours, ban, delete | tables |
| Gyms (`section_routes.cpp`) | table `gyms` | create a gym, list, add an administrator | tables |
| Authorization (`jwt.cpp`) | none | issue and verify tokens | every route |
| Client view model (`client/src/GymModelView.cpp`) | pending counters, the selected gym, lists on the screen | requests out, replies in | client requests |
| Client requests (`client/src/*Model.cpp`) | base URL, tokens | dispatch of replies to signals | server |

What must hold, and why it is hard:

* **Booking.** A booking is stored twice, in the slot's arrays and in the
  user's lists, and the routes decide by one copy and promote by the other. A
  handler is eight to ten statements on two or three rows. The two copies must
  agree, seats must go to the user who waited longest, and none of it may depend
  on what another worker does in between. READ COMMITTED gives no help beyond the
  row locks the handlers take.
* **Transactions.** Statements fail in the middle, waits for rows can be
  circular, a value read before a wait (`is_full`) is used after it.
* **Pool.** Twelve connections, more threads; guards nest; `BEGIN` may throw;
  the wait is on a condition variable with one notification per release.
* **Scheduler.** Its two statements commit one by one among the requests, it
  may fail between them, and what it has done is in memory only.
* **Notifier.** A pass is as long as its mails take and may fail at any of them;
  slots are moved, deleted and left meanwhile; passes repeat within the window and
  nothing records what was sent; what a mail says goes through the environment.
* **Accounts.** `FOR UPDATE` locks nothing when the email is new, a login is
  three SELECTs that see three different moments, hours are added by one UPDATE
  that a SMALLINT may refuse, after a test of the account, and accounts go while their
  tokens and requests live on.
* **Client.** Replies arrive in any order, after another gym was selected or
  after the logout; an error is not tied to the request it belongs to.

`PROJECT.json` "hazards" gives each of these at its line, with the properties
that cover it or the reason why none does yet.

## 2. The modules

```
BookingRows              the tables' rows and the single-row statements
  AtomicBooking          each request in one step: what booking promises
    WeeklyReset          the scheduler beside the requests
    Notifier             the notifier and its mailer beside the requests
  Booking                worker threads, row locks, failures  --implements-->  AtomicBooking
AccountRows              accounts, gyms and tokens, and the requests about them
  AtomicAccounts         each of these requests in one step, with its answer
  Accounts               the same in worker threads, with locks  --implements-->  AtomicAccounts
ConnectionPool           connections, threads, nested guards
ClientView               the client's requests in flight and what it shows
MC<Module>               the same for TLC: kinds of request, symmetry
<Module>Proofs           theorems
```

### BookingRows and AtomicBooking

`BookingRows` has one operator per method of `SlotManager` and `UserManager`,
with the method's name, from a table to the table after the statement. It is
shared, so the abstract and the detailed specification cannot differ in what a
statement does, only in when it happens. `AtomicBooking` has one action per
route, parameterised by the request and its answer; the early returns are the
disjuncts.

Data that no property tells apart is left out: start and end times, titles and
names. A user's own lists are sets, because the code only asks whether an id is
in them; the slot's arrays are sequences, because their order decides who is
promoted. A NULL array reads as the empty one, as in the code (a `COALESCE` or
an `is_null` test). Slot ids are fresh UUIDs, so a slot goes from `unborn` to
`live` to `gone` once. A request other than `createSlot` names a slot some client has
seen. The set of accounts is fixed and accounts can only go; registration is
in `Accounts`.

### Booking

The same requests in worker threads, a step per statement that may wait for a
row. Everything a handler does on rows it has locked is one step: nobody else
can write those rows, and the tests it makes are on locked rows or on the
worker's own variables. `dbSlots`/`dbUsers` are what is committed; `slots`/`users`
are the same tables with the open writes; a free row must be equal in both
(`FreeRowsAreCommitted`). `slotLock`/`userLock` are the row locks, of
`SELECT ... FOR UPDATE` and of `UPDATE` and `DELETE` alike. A statement that
meets no row neither locks nor waits. `deleteSlot` visits the rows of its users
in any order (the query plan's), one lock at a time, in two statements.

Any statement and the `COMMIT` may fail (`Fail`): the guard's destructor rolls
back. A server that is killed is the same thing for all workers at once, in any
order. A `COMMIT` whose answer is lost is a `Commit`: the tables cannot tell the
difference. `DeadlockVictim` is PostgreSQL's detector.

`AtomicSpec` is `AtomicBooking!Spec` with the committed tables in place of the
tables: every commit is a step of it, everything else stutters.
`CommitsAreAtomic` says more: the commit is the step of *that* request with *that*
answer, which the refinement alone, where the answer is hidden, does not.

### ConnectionPool

A section under `m_mutex` is one step. The return from `m_cond_var.wait` is a
step of its own, after a notification or without one. `enterGuard` is the
constructor of `TransactionGuard` with `acquireConnection`; `beginTransaction`
and `beginFails` are `BEGIN`; `endTransaction` is the outermost guard's end on
every path, commit or exception; `releaseConnection` is the deleter. Guards inside
another share its transaction and do nothing at their end. The transaction's
statements are `Booking`'s business.

### WeeklyReset

Extends `AtomicBooking` with the scheduler: a clock that knows weeks and whether
it is Monday before 11:00, and the two statements of `resetWeekly`, each one
step, as `execute` commits each. `last_reset` is a local variable, so `Restart`
sets it back to the epoch. `shifts` is a history variable: how often slots were moved in
this week. The 30-second sleep is the absence of any obligation to be quick.

### Notifier

Extends `AtomicBooking` with the clock, the column `start_time` (set by the two
requests that carry one) and the thread of `runNotifications`. A pass is the code's
own three stages, and each statement or mail is a step: `selectSlots` takes the
live slots that start within the window, `readEnrolled` reads the array of one,
each in its own transaction, `send` tries the next mail, `sleep` ends the pass.
Requests and the clock go on between any two. `rows` and `notifications` are the
local variables of those names. `env` stands for the three variables that
`Mailer::send` sets with `setenv(name, value, 0)`: once set they stay. A mail may
fail (`send`'s last disjunct), in the script or already at the read of its
address, an account may be gone, a statement may throw (`passFails`, which drops
what was gathered) and the server may restart (the environment with it).

A tick is half of the window or less, so the sleep of 30 seconds lasts one tick at
most; a pass lasts as long as it takes. `ticks` counts them since the pass or the
sleep began. `accounted` is a history variable: the slots in the window that some
pass selected, and those of which the thread cannot be blamed, because
a fault, a pass longer than a tick, or a start moved into the window left it less
than the window to see them. `mailed` is what was sent for slots that are still
in the window. `waited` counts for each mail the ticks for which it has been owed:
its user takes part in a slot in the window, and it was not sent. The count begins
anew when that very mail fails, when a pass is lost or lasts longer than a tick, and
when the slot is moved or the user comes back.

### Accounts

Registration, login, refresh, hours, bans, deletion and gyms in worker threads, in
the style of `Booking`: a step is a statement that may wait, with what the handler
does up to the next one. A transaction's writes are applied at `Commit`; until
then they are implied by its worker's `pc`, `req`, `acct` and `value`, and
the statements that must wait for them do: `WaitsFor` says who waits for whom, for
a row, or for the UNIQUE index of the emails or of the gyms' names.
Plain SELECTs see committed rows. `emailExists` finds the row of the email and then
waits for it, or finds none and locks nothing. `login` keeps the password in one
variable and the id in another, from two statements. `Unwind` is the exception a
handler raises itself (`isAdmin` of an account that is gone, an amount or a sum that
is no SMALLINT, a duplicate key); `Fail` is the same from the outside, at any statement.

`AtomicAccounts` says what these requests promise: each acts on the tables in one
step, and gives the answer of that step. `login` promises less, since its
SELECTs see different moments: an account has or had the email with that password,
and the session's account has or had the email. `refresh` and `getUserHours`
only read, and may answer for an account that has gone meanwhile. Any answer but "ok" leaves
the tables as they are, so its `Next` has the others only as stuttering.
`AtomicAccountsSpec` is this specification of the committed tables.
`RequestsAreAtomic` says more, as `CommitsAreAtomic` does for `Booking`: each commit
is the step of *that* request with *that* answer. `addAdminToGym`, one UPDATE without
a transaction, is such a step by itself.

A password and its hash are one value, a token is its subject and its type;
signatures are a library's. Tokens expire at any moment. `Authorized` is
`AuthMiddleware`: outside `/v1/auth/` any access token will do, whosever it is.
Administrators are made by hand in the database, so only accounts of the initial
state are. `added` is the history of acknowledged hours, `present` what accounts
there were at some time since a request that reads them began.

### ClientView

The view model and the two request models below it. A handler runs to its end in
the client's one thread, so each call of a screen and each reply is one step.
`flight` is a bag of requests: the same request is often sent twice
(`onQueueJoined` asks for the booked slots up to three times), and replies are
delivered in any order, since Qt uses several connections and the server several
threads. `counters` are the two counters and the flag of
`GymModelView.cpp:75-104`. Of what is shown the model keeps, for the gym's slots
and for the two lists of the user's slots, whose it is (`of`: the gym, or the
login) and which `version` of the server's data it was read from. The server is
reduced to that version, the number of changes it has made for this client.
Hours, statistics and gyms are requests that count but carry no version.

A reply does what its slot in the code does: it replaces what is shown, whatever
it is the reply to, and after a write it sends the follow-up reads, for the gym
and the user of *that* moment. `onApiError` may meet any request, before the
server has acted or after. `clearUserState` is the logout; it leaves the counters
and the user's id alone. Refused calls (`isAdmin()`, "already booked", no gym
selected) change nothing: an error that follows `beginActionRequest` at once takes
back what that did. `excused` is a history variable, the views that an error or an
overtaken reply spoilt and that no later reply has set right.

### Operators whose comment starts with "Bug:"

Each is a faulty variant of the definition below it and is used nowhere in a
specification. Put in that definition's place it must make the named property
fail; `PROJECT.json` "mutants" lists the pairs. They show that the properties
are able to fail.

## 3. The runs

| Run | Instance | Shows |
|---|---|---|
| `atomic_all` | 2 slots, 2 users, capacities 1 and 2, all eight requests | The two copies agree (`RowsAgree`); only a promotion overfills a slot (`OnlyPromotionOverfills`); an account without a place is in no array when it goes (`EmptyAccountsLeaveCleanly`) |
| `atomic_seats` | 2 slots, 3 users, capacities 0 to 2, no `patchSlot`, no `deleteUser` | No seat is free beside a queue, nobody has two places, nobody overtakes |
| `booking_all` | 2 workers, 2 slots, 2 users, one seat, all eight requests, failures, deadlocks | Commits are atomic requests; Booking implements AtomicBooking; free rows are committed; the committed copies agree (`CommittedRowsAgree`); only handlers that lock several users rows are ever in a circle of waits |
| `booking_live` | the same without `deleteSlot`, `patchSlot`, `deleteUser`, under fairness | Every accepted request ends; what is committed leaves no seat free beside a queue and nobody two places (`CommittedSeats`) |
| `pool_all` | 5 threads, 3 connections, 3 guards deep, under fairness | No connection lost, shared or dirty; no lost wakeup; no hold-and-wait; a free connection is taken |
| `reset_all` | 1 slot, 2 users, 3 weeks, two failures, one restart, under fairness | A due reset is made; it is repeated once per fault at most; after it the users' lists show only what the slots hold |
| `notifier_all` | 1 slot, 2 users, a window of 4 ticks, times 0 to 5, two faults | No slot passes through the window unselected (`NothingMissed`); no mail is owed for four ticks, so that a participant who is unmailed when the slot leaves the window has a failure of his mail, a lost or a slow pass, or a late booking or move behind him (`RemindersAreMade`) |
| `accounts_all` | 2 workers, 2 accounts, an email, 2 passwords, a gym, hours up to 3 | Commits are atomic requests (`RequestsAreAtomic`); Accounts implements AtomicAccounts; one account per email; no hours lost; tokens are for the right account; reads fail only on deleted accounts; waits end (`WaitsEnd`) |
| `client_all` | 2 gyms; a booking, a leave, a new gym; three logins and changes of the server between them, a call while at most one request is in flight | The loading flag is on exactly while a request is in flight; errors are shown as an action's only while one is; when all is quiet each view no error or late reply spoilt is current |

Runs that end in a violation, each a disagreement between the code and what the
repository says of it (`PROJECT.json` "findings" quotes both):

| Run | Property | What happens |
|---|---|---|
| `atomic_overbooked` | `NeverOverbooked` | A cancellation by someone without a seat still promotes the head of the queue, into a full slot (`slot_routes.cpp:97`) |
| `booking_deadlock` | `NoWaitCycle` | Two cancellations on two slots promote each other's users: the order "slot, user" has a second user in it |
| `notifier_recipient` | `MailsReachTheirUser` | `setenv` without overwrite: the second mail of a process goes to the first recipient with the first text (`mailer.cpp:11`) |

What else the models show of the code, without a run of its own:

* A restart after Monday 11:00 resets the week again, since `last_reset` is a local
  variable (`RepeatsNeedFaults` bounds how often). A booking between the two
  statements of the reset stays in the slot's array and is gone from the user's
  list, so that the copies disagree (`ListsAreHonoured` states the half that holds).
* `patchSlot` raises a capacity without promoting, so a queued user can book a seat,
  stay queued and be promoted into a second one. This is why `OnePlaceEach` is
  checked and proved without `patchSlot`.
* A deleted account stays in the slots' arrays and the list of the gym's slots
  then answers 500 (`getGymSlotsAnswers`). An account that has left
  its slots first leaves cleanly.
* The slots of another gym stay on the screen when those of the newly
  selected one fail to arrive or are overtaken (`GymModelView.cpp:248`);
  `QuietViewIsCurrent` says when a view is right.
* Every pass within the window mails everybody again: the column `notified`
  is never read. `NothingMissed` and `RemindersAreMade` are about too few mails only.
* If an account is deleted and its email registered again between the two
  SELECTs of a login, the password of the one is checked and a token for the other
  given out. `LoginsAreGenuine` says that this is the only way.
* `unban_time` is NULL for everyone and stays so when seconds are added: no ban is
  ever stored. The client never uses its refresh token, so a session ends after
  15 minutes.

**Bounds.** Two slots and two users are what a circle of waits, a promotion of
somebody else and a booking in each of two slots need; capacity 1 makes a slot
full after one booking and the queue non-empty after the next; a third user and
capacities 0 and 2 are in `atomic_seats`, where overtaking needs a queue of two
and a newcomer. Two workers are what a wait and a circle of waits need; circles
of any size, and the refinement for any number of workers, slots and users, are
covered by proof (`CirclesOfManyUsers`, `Refines`). `MaxPlaces` bounds the
arrays: only ids of deleted accounts can be entered repeatedly (their own lists
read as empty), so without it the arrays grow for ever; in `booking_all` it also
keeps a slot to a seat and a queue of one. In `pool_all` two threads can sleep
while three release, so that several are woken at once. Three weeks, two failures
and a restart are enough for a reset to be late, early, repeated, or made up for
in the next week; nothing in the scheduler relates two slots, so it has one.
`notifier_all` has one slot as well: passes treat slots one by one, and mails of two
users are what a failing mail in the middle and a reused environment need. Of the
code's window, 55 to 65 minutes, twenty passes long, four ticks are kept: the
shortest in which `RemindersAreMade` says something of a slot that passes through it.
A mail can be owed for three ticks (one while the pass that came too early goes on, one
while the thread sleeps, one in the pass that sends it), so the bound is the least.
Times 0 to 5 let a slot enter the window, be moved and pass through it whole.
`NothingIsMissed` is proved for any window of two ticks, `RemindersArePrompt` for the same.
`accounts_all` has two workers, as every race in these handlers is between two, and
two accounts that can have the email one after the other; with two emails the same
properties hold in 3.4 million states, and nothing new happens. Hours overflow
at the second addition of 2 to a largest value of 3. `IdsLeft` refuses to register
more accounts than there are ids.
In `client_all` two calls may overlap with each other's replies, follow-up reads
and errors: `MaxInFlight` bounds what is in flight when a *call* is made, replies
add up to four more requests, a login five. `MaxEvents` is two changes of the
server and a login, one and two, or none and three. A join sends what a booking
and a leave send; the writes left out of the run send what a leave or nothing
does.

**Deadlock checking** is on in every run: the specifications have no state
without a step, a circle of waits included, since the detector or a failure
ends it.

**Symmetry** is used in safety runs only, over sets whose members no definition
distinguishes.

**Fairness.** `Booking`: strong fairness of each worker's next step, because a
transaction waiting for a row is in PostgreSQL's queue for that row and gets it if the
row becomes free again and again; weak fairness of `DeadlockVictim`
(`deadlock_timeout`). Nothing is assumed of clients or failures.
`ConnectionPool`: a woken thread gets the mutex, `BEGIN` returns, transactions
end (that is `EveryRequestEnds` of `Booking`) and deleters run. That each
*single* thread gets a connection is not promised: `notify_one` and mutexes are not
fair, and a thread can be overtaken for ever. `WeeklyReset`: the scheduler thread
goes on; nothing is assumed of clock, requests or faults, which are bounded.
`Notifier` states no fairness: what it promises is bounded by ticks, and that its thread
keeps up with them is the guard of `Tick` (a sleep lasts one tick at most) and the excuse of a
slow pass. `Accounts` and `ClientView` state none either: `WaitsEnd` is that every chain of waits
ends in a request that waits for nobody.

## 4. The proofs

| Theorem | Says, for every value of the constants |
|---|---|
| `AtomicBookingProofs!Agreement` | types and the agreement of the two copies, under all requests |
| `AtomicBookingProofs!QueuesAndPlaces` | without `patchSlot` and `deleteUser`: a slot with a queue is full, nobody has two places of a slot |
| `AtomicBookingProofs!NoOvertaking` | under the same requests a seat goes to the head of the queue |
| `AtomicBookingProofs!PromotionsOverfill` | under all requests only promotions overfill |
| `AtomicBookingProofs!EmptyAccountsLeave` | under all requests an account without a place leaves nothing behind |
| `BookingProofs!TypeCorrect` | types of the detailed specification |
| `BookingProofs!CirclesOfManyUsers` | whoever is in a circle of waits is a cancellation or a slot deletion, for any number of workers |
| `BookingProofs!FreeRows` | a row nobody holds is as committed |
| `BookingProofs!AtomicCommits` | each commit does, and answers, what its whole request does alone on the committed tables |
| `BookingProofs!Refines` | `Booking` implements `AtomicBooking` |
| `BookingProofs!CommittedCopies` | what is committed agrees on every booking, for any number of workers |
| `BookingProofs!SeatsBehindLocks`, `TurnsBehindLocks` | without `patchSlot` and `deleteUser`: what is committed has no seat free beside a queue and nobody twice, and a seat goes to the head of the queue |
| `ConnectionPoolProofs!Conservation` | types; each connection is in the pool once or owned by one thread, and idle in the pool |
| `ConnectionPoolProofs!NoHoldAndWait` | a waiting thread holds nothing |
| `ConnectionPoolProofs!WakeupsAreKept` | while a thread sleeps, each pooled connection has a woken thread |
| `ConnectionPoolProofs!OneConnection` | a transaction stays on its connection |
| `WeeklyResetProofs!ResetTypeCorrect`, `ListsHonoured`, `NoIdleRepeats` | types; after the week's reset users' lists show only what slots hold; each repetition has a fault behind it |
| `NotifierProofs!NotifierTypeCorrect`, `NothingIsMissed` | types; no slot passes through the window unselected |
| `NotifierProofs!RemindersArePrompt` | nobody who takes part in a slot in the window waits four ticks for his mail, unless that mail fails or a pass is lost or slow |
| `AccountsProofs!AccountsTypeCorrect` | types |
| `AccountsProofs!EmailsUnique`, `HoursKept` | one account per email; acknowledged hours are there |
| `AccountsProofs!GenuineLogins`, `TokensForAccounts` | whose token a login, a registration and a refresh give out |
| `AccountsProofs!OnlyDeletionFailsReads`, `OnlyAdminsOpenGyms` | reads fail for deleted accounts only; administrators open gyms (a property of `AtomicAccounts` already, no run checks it apart) |
| `AccountsProofs!NoCircularWait` | no circle of waits for rows, emails and names of gyms, for any number of workers |
| `AccountsProofs!AtomicRequests` | each commit does, and answers, what its whole request does alone on the committed tables |
| `AccountsProofs!AccountsRefine` | `Accounts` implements `AtomicAccounts` |
| `ClientViewProofs!Types` | types |
| `ClientViewProofs!CountersAreExact` | counters and loading flag agree with the requests in flight, however many |
| `ClientViewProofs!QuietViews` | when all replies are in, each view nothing has spoilt is current |

*Agreement.* `RowsAgree` is not inductive alone. A pair of statements may miss
the slot row (it is gone) and still change the user's list; the copies go on
agreeing only because an absent row holds nothing. The invariant is
`Consistent`: types, absent rows are empty, and agreement. `BookingRowsProofs`
has a lemma for each pair of statements (`EnrolAgrees`, `PromoteAgrees`,
`StrikeAgrees`, ...), which rest on what `RemoveAll` and `Append` do to the members
of a sequence (`RemoveAllMembers`, by the least index at which it could be
wrong). `AtomicBookingProofs` puts them together, one case per route.

*Seats.* That a queue means a full slot and that nobody has two places need each
other: a user who is queued is refused a seat by his own list, which says so only
while the copies agree; a newcomer is refused because the slot is full. `SeatsOK`
is the conjunction of `Consistent`, that all accounts are live, and `RowOK` of each
slot (no user twice in either array, none in both, full while somebody waits), and it is
inductive under `Steady`, an assumption on `Ops` that leaves out the two requests
which break it (section 3). Overtaking, overfilling and clean departures are
action properties, argued per route from `SeatsOK` or from `Consistent` alone.

*Booking.* `TypeInv` adds to the types that absent rows are empty and what each
program counter says of the worker's request (`StepOK`). `HoldOK` adds the lock
discipline: a worker at its first statement holds nothing, one at its users row
holds its slot row at most. A member of a circle holds a row that another member
waits for. It is not waiting for a slot row, as it would hold nothing. It is not
waiting for the first users row of its handler, as it would hold a slot row only
and the member that waits for that would hold nothing. So it waits for a further
users row, in a promotion or in `deleteSlot`.

*Booking implements AtomicBooking.* `RefInv` adds to these three parts.
`LocksOK`: free rows are as committed, a worker locks no slot but its request's,
and a locked row is live, or new and its inserter's. `NamesOK`: requests name slots that exist or
existed, and two inserted slots differ. `WorkOK(p)`: what the transaction of
`p` has done so far, seen on the committed tables with only the rows `p` holds replaced by its own (`SlotsOf`,
`UsersOf`). Before its writes it has read rows that are still so, after
some of them it has done that part of its request (`SeatFreed`, `StruckSome`), and
at its commit it has done all of it (`Result`) and holds every live row the result
depends on (`Concerned`): for a cancellation the slot, the user and the head of
the queue, for `deleteSlot` everybody in the arrays. The step needs two
arguments. A step of another worker changes only rows that this one does not
hold, or which are absent and stay so; a statement on equal rows of two tables
does the same to both (the lemmas `Replay...`), so the work done stays the work
due (`ResultStays`, `OthersKeep`). The worker's own step does the next part
(the lemmas `...Keeps`, one per action). A commit then makes the committed
tables what `p` sees, which is `Result`, hence a step of `AtomicBooking!Serve` with the
request and the answer of `p`; no other step touches them.
On the instance of `booking_all` TLC finds `RefInv` true too.

*What booking promises, behind the locks.* `Refines` brings the theorems of
`AtomicBookingProofs` to the server with its threads: `Alone` is that module, proofs
included, with the committed tables for its tables. The lemmas `AloneSlotStatements` and
`AloneUserStatements` say that its statements are those of `Atomic`, so `AtomicSpec`
implies its specification and `Agreement`, `QueuesAndPlaces` and `NoOvertaking` follow for
what is committed. `SteadyOps` is the assumption of the last two, on `Ops` again.

*ConnectionPool.* `IInv` says what a thread owns at each program counter, that
connections are conserved and idle in the pool, and the count of woken threads.
The step that needs care is a return from the wait: it lowers the woken threads
by one and the pool by one, or the pool was empty.

*WeeklyReset.* A request that falls between the two statements of the reset, or a
failure of the second, leaves the copies in disagreement. One half of their
agreement, that what a list shows the slot holds, is kept by every request once
it is true (`Kept`, for each pair of statements), and the second statement makes it
true by emptying the lists. `WInv` is that half, or that `last_reset` is older than
the week that is due. Repetitions are bounded by counting: `shifts` exceeds one only by `faults`.

*Notifier.* `NInv` adds to the types that a slot in the window which is not yet
`accounted` has entered it since the pass or the sleep began, so that it is no
further from the far end than the ticks since (`UnseenAreNew`). A longer pass is
accounted for, a sleep lasts one tick at most, and the window has two: it cannot leave
before the next `selectSlots`. `RInv` adds how long a mail can have been owed
(`WaitIsShort`): during the sleep for the ticks of the sleep and one before it, so for
two when the next pass selects its slot; from then on it is in `rows` or `notifications`
(`Pending`) until it is tried, and the pass adds one tick. A mail that is not pending
during a pass became owed since it began, and has waited no longer than the pass lasts.

*Accounts.* `AInv` has a conjunct for what each worker knows between statements
(`WorkerOK`), and it must survive every other worker's commit: a row locked is
as it was read (`WriterOK`), an email being inserted is nobody's (`ClaimsOK` and
the waits of `createUser`), what was read without a lock was so of an account in
`present` (`ReaderOK`, `LoginOK`), of which a deleted row keeps email and password for
the argument's sake. Locks are on live rows (`LocksOK`). `HoldersOK` adds that who
holds a row is past the only statement of its handler that waits for one. So a
holder waits for the name of a gym at most, and who has inserted that, or an email,
is at its commit: a chain of waits has two links, whatever the number of workers, of
which the run has two only.

*Accounts implements AtomicAccounts.* A handler settles its answer before its
commit, so `PromisesOK` says what each answer claims of the tables until then:
"the email is taken" and "no administrator" rest on a row the worker has locked;
"not found" on an account that is gone, which it stays; a ban on a locked row; a new gym
on a name nobody has, and two that are being opened have different names, by
the UNIQUE index. The step of a worker leaves the rows others have locked, and
the names others open, alone (`OthersKept`), so their answers stay true
(`OtherPromiseOK`); each action makes its own worker's answer true when it settles
it. With `AInv` and `HoldersOK` this is inductive (`ServeInv`; TLC finds it true on
the instance of `accounts_all` too), and at the commit it gives the guard of the
atomic request, while `WriterOK` gives what it writes (`RegistrationServes`,
`LoginServes`, `SessionServes`).

*ClientView.* `CountersInv` says that every request in flight has a known kind and
a count of one or more, that `pending` is the number of requests in flight,
the flag says whether that is zero, and `actions` is not above the number of
actions in flight. An error may be booked on an action while the request that
failed was none: the count of actions then falls below the number in flight, never
above it. The lemmas `CountUnion`, `CountWithout` and `CountOne` say how
the number of requests of some kinds changes when some are sent or one is taken out; the
model counts pairs of a request and a number up to its copies (`Copies`), because
the library's `BagCardinality` is a recursive sum, about which nothing can be proved here.
`ViewsInv` adds what each view is owed: it is current, or excused, or something
in flight promises to put it right (`Promises`: a read of it that was not served yet or
was served with the newest version, for the right user or gym; or a write the server has
made, whose reply will send such reads). Whatever makes views out of date brings its
own promise: a change on the server is a write that is then served and in flight,
a selection of a gym or a login sends the reads it owes.

Assumptions, all named in the modules and checked by TLC in every run:
`NoUser` and `Nobody` are outside the sets they stand beside, capacities are
integers, threads and connections are finite sets, bounds are natural numbers.

**Model-checked only:** all liveness (`EveryRequestEnds`, `FreeConnectionIsTaken`,
`ResetHappens`), which is out of the prover's reach. Every invariant
and every action property of a passing run is a theorem.

## 5. What is not modelled

Formatting and parsing of requests and answers (`request_handler`,
`response_builder`), the schema and start-up code, the layout of the QML screens, and
`server/jwt/jwt.cpp`, which is not built. Reads that touch no state and no
property: the lists of gyms, of administrators and of users, statistics, and
`getUnbanTime`, which always answers 0. The mailer's script and its dialogue with
the mail server are one outcome, sent or failed. In
`ClientView`, changes other clients make (a promotion, an administrator), and a
request the client has given up on that the server performs later, do not count
as changes: the client learns of them at its next read only, and nothing in it
promises more. `~Database` waits for no
thread, and is never run before the process ends. `std::thread` creation and
signal handling are Crow's. PostgreSQL is modelled by what the code relies on:
row locks, READ COMMITTED, atomic commit, deadlock detection.

## 6. What is left

1. The row locks of `resetWeekly` in `Booking`, with the scheduler as one more
   worker: circles of waits with handlers, in table order.
