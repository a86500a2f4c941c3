------------------------------- MODULE Booking -------------------------------
(***************************************************************************)
(* The booking requests as the server runs them: worker threads of the     *)
(* Crow application, each inside one PostgreSQL transaction (READ          *)
(* COMMITTED) opened by Database::executeInTransaction, with the row locks *)
(* taken by SELECT ... FOR UPDATE and by UPDATE and DELETE.  A step is one *)
(* statement that may wait for a row lock, with everything the handler     *)
(* then does on rows it has locked, up to the next such statement.         *)
(***************************************************************************)
EXTENDS BookingRows

CONSTANTS
  Workers,      \* the worker threads of the server
  Nobody,       \* the holder of a free row
  MaxPlaces     \* bound: joinQueue is sent while a slot's arrays hold fewer ids

ASSUME NobodyAssumption == Nobody \notin Workers
ASSUME MaxPlacesAssumption == MaxPlaces \in Nat

VARIABLES
  dbSlots, dbUsers,     \* the committed tables
  slots, users,         \* the tables with the writes of the open transactions
  slotLock, userLock,   \* the transaction that holds each row
  pc,                   \* the statement each worker is about to execute
  req,                  \* the request it handles
  full,                 \* the handlers' local variable is_full
  next,                 \* the user whose row the next statement locks
  todo,                 \* the users a statement of deleteSlot has yet to visit
  answer                \* the response built so far

tables == << slots, users >>
committed == << dbSlots, dbUsers >>
locks == << slotLock, userLock >>
scan == << next, todo >>
vars == << committed, tables, locks, pc, req, full, scan, answer >>

Steps == {"idle", "slot", "user", "next", "strikeEnrolled", "strikeQueued",
          "insert", "commit", "unwind"}

NoRequest == [op |-> "none"]

FirstStep(op) ==
  CASE op = "createSlot" -> "insert"
    [] op = "deleteUser" -> "user"
    [] OTHER             -> "slot"

Init ==
  /\ dbSlots \in InitSlots
  /\ dbUsers = InitUsers
  /\ slots = dbSlots
  /\ users = dbUsers
  /\ slotLock = [s \in Slots |-> Nobody]
  /\ userLock = [u \in Users |-> Nobody]
  /\ pc = [p \in Workers |-> "idle"]
  /\ req = [p \in Workers |-> NoRequest]
  /\ full = [p \in Workers |-> FALSE]
  /\ next = [p \in Workers |-> NoUser]
  /\ todo = [p \in Workers |-> {}]
  /\ answer = [p \in Workers |-> "none"]

-----------------------------------------------------------------------------
(* Row locks.  A statement finds the rows that are committed and waits for *)
(* their holder; a row that is not there is neither found nor waited for.  *)

lockSlot(p, s) ==
  /\ Live(dbSlots[s]) => slotLock[s] \in {Nobody, p}
  /\ slotLock' = IF Live(dbSlots[s]) THEN [slotLock EXCEPT ![s] = p] ELSE slotLock

lockUser(p, u) ==
  /\ Live(dbUsers[u]) => userLock[u] \in {Nobody, p}
  /\ userLock' = IF Live(dbUsers[u]) THEN [userLock EXCEPT ![u] = p] ELSE userLock

Reply(p, a) ==
  /\ answer' = [answer EXCEPT ![p] = a]
  /\ pc' = [pc EXCEPT ![p] = "commit"]

Goto(p, step) ==
  /\ pc' = [pc EXCEPT ![p] = step]
  /\ UNCHANGED answer

-----------------------------------------------------------------------------
(* A worker takes a request and opens its transaction.  The id of a new    *)
(* slot is a fresh UUID.                                                   *)
Accept(p) ==
  \E r \in Requests :
    /\ pc[p] = "idle"
    /\ Nameable(dbSlots, r)
    /\ r.op = "createSlot" =>
         \A q \in Workers : req[q].op = "createSlot" => req[q].slot # r.slot
    /\ r.op = "joinQueue" =>
         Len(dbSlots[r.slot].enrolled) + Len(dbSlots[r.slot].queue) < MaxPlaces
    /\ req' = [req EXCEPT ![p] = r]
    /\ Goto(p, FirstStep(r.op))
    /\ UNCHANGED << committed, tables, locks, full, scan >>

(* lockSlot, and isAtCapacity in the two handlers that call it: it throws  *)
(* when there is no such slot.                                             *)
LockSlot(p) ==
  LET s == req[p].slot
      seeks == req[p].op \in {"addUserEntry", "joinQueue"}
  IN  /\ pc[p] = "slot"
      /\ req[p].op \in SeatOps
      /\ lockSlot(p, s)
      /\ \/ /\ seeks /\ ~Live(slots[s])
            /\ Goto(p, "unwind")
            /\ UNCHANGED full
         \/ /\ ~seeks \/ Live(slots[s])
            /\ full' = [full EXCEPT ![p] = seeks /\ isAtCapacity(slots, s)]
            /\ Goto(p, "user")
      /\ UNCHANGED << committed, tables, userLock, req, scan >>

addUserEntry(p) ==
  LET u == req[p].user s == req[p].slot
  IN  /\ pc[p] = "user"
      /\ req[p].op = "addUserEntry"
      /\ lockUser(p, u)
      /\ \/ /\ s \in getUserEnrollments(users, u)
            /\ Reply(p, "alreadyEnrolled")
            /\ UNCHANGED tables
         \/ /\ s \notin getUserEnrollments(users, u)
            /\ full[p]
            /\ Reply(p, "full")
            /\ UNCHANGED tables
         \/ /\ s \notin getUserEnrollments(users, u)
            /\ ~full[p]
            /\ slots' = addEntry(slots, u, s)
            /\ users' = addEnrollment(users, u, s)
            /\ Reply(p, "ok")
      /\ UNCHANGED << committed, slotLock, req, full, scan >>

(* Up to the lock on the row of the queue's head.                          *)
deleteUserEntry(p) ==
  LET u == req[p].user s == req[p].slot
      first == getFirstInQueue(removeEntry(slots, u, s), s)
  IN  /\ pc[p] = "user"
      /\ req[p].op = "deleteUserEntry"
      /\ lockUser(p, u)
      /\ slots' = removeEntry(slots, u, s)
      /\ users' = removeEnrollment(users, u, s)
      /\ next' = [next EXCEPT ![p] = first]
      /\ IF first = NoUser THEN Reply(p, "ok") ELSE Goto(p, "next")
      /\ UNCHANGED << committed, slotLock, req, full, todo >>

promote(p) ==
  LET s == req[p].slot
  IN  /\ pc[p] = "next"
      /\ lockUser(p, next[p])
      /\ slots' = promoteSlots(slots, next[p], s)
      /\ users' = promoteUsers(users, next[p], s)
      /\ Reply(p, "ok")
      /\ UNCHANGED << committed, slotLock, req, full, scan >>

(* Bug: the user's enrollments are not looked at.                          *)
joinQueueUnchecked(p) ==
  LET u == req[p].user s == req[p].slot
  IN  /\ pc[p] = "user"
      /\ req[p].op = "joinQueue"
      /\ lockUser(p, u)
      /\ \/ /\ s \in getUserQueuedSlots(users, u)
            /\ Reply(p, "alreadyQueued")
            /\ UNCHANGED tables
         \/ /\ s \notin getUserQueuedSlots(users, u)
            /\ ~full[p]
            /\ slots' = addEntry(slots, u, s)
            /\ users' = addEnrollment(users, u, s)
            /\ Reply(p, "enrolled")
         \/ /\ s \notin getUserQueuedSlots(users, u)
            /\ full[p]
            /\ slots' = addToQueue(slots, u, s)
            /\ users' = addQueuedSlot(users, u, s)
            /\ Reply(p, "queued")
      /\ UNCHANGED << committed, slotLock, req, full, scan >>

joinQueue(p) ==
  LET u == req[p].user s == req[p].slot
  IN  /\ pc[p] = "user"
      /\ req[p].op = "joinQueue"
      /\ lockUser(p, u)
      /\ \/ /\ s \in getUserEnrollments(users, u)
            /\ Reply(p, "alreadyEnrolled")
            /\ UNCHANGED tables
         \/ /\ s \notin getUserEnrollments(users, u)
            /\ s \in getUserQueuedSlots(users, u)
            /\ Reply(p, "alreadyQueued")
            /\ UNCHANGED tables
         \/ /\ s \notin getUserEnrollments(users, u) \cup getUserQueuedSlots(users, u)
            /\ ~full[p]
            /\ slots' = addEntry(slots, u, s)
            /\ users' = addEnrollment(users, u, s)
            /\ Reply(p, "enrolled")
         \/ /\ s \notin getUserEnrollments(users, u) \cup getUserQueuedSlots(users, u)
            /\ full[p]
            /\ slots' = addToQueue(slots, u, s)
            /\ users' = addQueuedSlot(users, u, s)
            /\ Reply(p, "queued")
      /\ UNCHANGED << committed, slotLock, req, full, scan >>

leaveQueue(p) ==
  LET u == req[p].user s == req[p].slot
  IN  /\ pc[p] = "user"
      /\ req[p].op = "leaveQueue"
      /\ lockUser(p, u)
      /\ \/ /\ s \notin getUserQueuedSlots(users, u)
            /\ Reply(p, "notQueued")
            /\ UNCHANGED tables
         \/ /\ s \in getUserQueuedSlots(users, u)
            /\ slots' = removeFromQueue(slots, u, s)
            /\ users' = removeQueuedSlot(users, u, s)
            /\ Reply(p, "ok")
      /\ UNCHANGED << committed, slotLock, req, full, scan >>

-----------------------------------------------------------------------------
createSlot(p) ==
  LET s == req[p].slot
  IN  /\ pc[p] = "insert"
      /\ slots' = insertSlot(slots, s, req[p].cap)
      /\ slotLock' = [slotLock EXCEPT ![s] = p]
      /\ Reply(p, "ok")
      /\ UNCHANGED << committed, users, userLock, req, full, scan >>

patchSlot(p) ==
  LET s == req[p].slot
  IN  /\ pc[p] = "slot"
      /\ req[p].op = "patchSlot"
      /\ lockSlot(p, s)
      /\ slots' = changeSlotInfo(slots, s, req[p].cap)
      /\ Reply(p, "ok")
      /\ UNCHANGED << committed, users, userLock, req, full, scan >>

deleteUser(p) ==
  LET u == req[p].user
  IN  /\ pc[p] = "user"
      /\ req[p].op = "deleteUser"
      /\ lockUser(p, u)
      /\ users' = deleteUserRow(users, u)
      /\ Reply(p, "ok")
      /\ UNCHANGED << committed, slots, slotLock, req, full, scan >>

(* SlotManager::deleteSlot is three statements.  The first two visit the   *)
(* rows of the users an array of the slot names, in an order the query     *)
(* plan chooses, and lock each.                                            *)
Visit(p, us) ==
  \/ us = {} /\ next' = [next EXCEPT ![p] = NoUser] /\ todo' = [todo EXCEPT ![p] = {}]
  \/ \E u \in us :
       next' = [next EXCEPT ![p] = u] /\ todo' = [todo EXCEPT ![p] = us \ {u}]

deleteSlot(p) ==
  LET s == req[p].slot
  IN  /\ pc[p] = "slot"
      /\ req[p].op = "deleteSlot"
      /\ lockSlot(p, s)
      /\ Visit(p, Members(slots[s].enrolled))
      /\ Goto(p, "strikeEnrolled")
      /\ UNCHANGED << committed, tables, userLock, req, full >>

strikeEnrolled(p) ==
  /\ pc[p] = "strikeEnrolled"
  /\ next[p] # NoUser
  /\ lockUser(p, next[p])
  /\ users' = removeEnrollment(users, next[p], req[p].slot)
  /\ Visit(p, todo[p])
  /\ UNCHANGED << committed, slots, slotLock, pc, req, full, answer >>

(* Bug: the second statement reads the same array as the first.            *)
deleteSlotQueueOfEnrolled(p) ==
  /\ pc[p] = "strikeEnrolled"
  /\ next[p] = NoUser
  /\ Visit(p, Members(slots[req[p].slot].enrolled))
  /\ Goto(p, "strikeQueued")
  /\ UNCHANGED << committed, tables, locks, req, full >>

deleteSlotQueue(p) ==
  /\ pc[p] = "strikeEnrolled"
  /\ next[p] = NoUser
  /\ Visit(p, Members(slots[req[p].slot].queue))
  /\ Goto(p, "strikeQueued")
  /\ UNCHANGED << committed, tables, locks, req, full >>

strikeQueued(p) ==
  /\ pc[p] = "strikeQueued"
  /\ next[p] # NoUser
  /\ lockUser(p, next[p])
  /\ users' = removeQueuedSlot(users, next[p], req[p].slot)
  /\ Visit(p, todo[p])
  /\ UNCHANGED << committed, slots, slotLock, pc, req, full, answer >>

deleteSlotRowStep(p) ==
  /\ pc[p] = "strikeQueued"
  /\ next[p] = NoUser
  /\ slots' = deleteSlotRow(slots, req[p].slot)
  /\ Reply(p, "ok")
  /\ UNCHANGED << committed, users, locks, req, full, scan >>

-----------------------------------------------------------------------------
(* Bug: the rows of the users stay locked.                                 *)
FinishHoldingUsers(p) ==
  /\ slotLock' = [s \in Slots |-> IF slotLock[s] = p THEN Nobody ELSE slotLock[s]]
  /\ pc' = [pc EXCEPT ![p] = "idle"]
  /\ req' = [req EXCEPT ![p] = NoRequest]
  /\ full' = [full EXCEPT ![p] = FALSE]
  /\ next' = [next EXCEPT ![p] = NoUser]
  /\ todo' = [todo EXCEPT ![p] = {}]
  /\ answer' = [answer EXCEPT ![p] = "none"]
  /\ UNCHANGED userLock

(* The end of a transaction frees its rows and its worker.                 *)
Finish(p) ==
  /\ slotLock' = [s \in Slots |-> IF slotLock[s] = p THEN Nobody ELSE slotLock[s]]
  /\ userLock' = [u \in Users |-> IF userLock[u] = p THEN Nobody ELSE userLock[u]]
  /\ pc' = [pc EXCEPT ![p] = "idle"]
  /\ req' = [req EXCEPT ![p] = NoRequest]
  /\ full' = [full EXCEPT ![p] = FALSE]
  /\ next' = [next EXCEPT ![p] = NoUser]
  /\ todo' = [todo EXCEPT ![p] = {}]
  /\ answer' = [answer EXCEPT ![p] = "none"]

(* TransactionGuard::commit.                                               *)
Commit(p) ==
  /\ pc[p] = "commit"
  /\ dbSlots' = [s \in Slots |-> IF slotLock[s] = p THEN slots[s] ELSE dbSlots[s]]
  /\ dbUsers' = [u \in Users |-> IF userLock[u] = p THEN users[u] ELSE dbUsers[u]]
  /\ Finish(p)
  /\ UNCHANGED tables

(* Bug: what the transaction wrote to the users rows survives it.          *)
RollbackSlotsOnly(p) ==
  /\ slots' = [s \in Slots |-> IF slotLock[s] = p THEN dbSlots[s] ELSE slots[s]]
  /\ Finish(p)
  /\ UNCHANGED << committed, users >>

(* The destructor of an unfinished DBTransaction, when an exception leaves *)
(* the handler; the client is answered 500.                                *)
Rollback(p) ==
  /\ slots' = [s \in Slots |-> IF slotLock[s] = p THEN dbSlots[s] ELSE slots[s]]
  /\ users' = [u \in Users |-> IF userLock[u] = p THEN dbUsers[u] ELSE users[u]]
  /\ Finish(p)
  /\ UNCHANGED committed

Unwind(p) == pc[p] = "unwind" /\ Rollback(p)

(* A statement or the COMMIT itself fails: connection lost, value out of   *)
(* range, server killed.                                                   *)
Fail(p) == pc[p] # "idle" /\ Rollback(p)

(* p waits for a row that q holds.                                         *)
BlockedBy(p, q) ==
  /\ p # q
  /\ \/ /\ pc[p] = "slot"
        /\ Live(dbSlots[req[p].slot])
        /\ slotLock[req[p].slot] = q
     \/ /\ pc[p] = "user"
        /\ Live(dbUsers[req[p].user])
        /\ userLock[req[p].user] = q
     \/ /\ pc[p] \in {"next", "strikeEnrolled", "strikeQueued"}
        /\ next[p] # NoUser
        /\ Live(dbUsers[next[p]])
        /\ userLock[next[p]] = q

WaitCycle(Q) ==
  /\ Q # {}
  /\ \A p \in Q : (\E q \in Q : BlockedBy(p, q)) /\ (\E q \in Q : BlockedBy(q, p))

(* The deadlock detector of PostgreSQL aborts a transaction of the cycle.  *)
DeadlockVictim(p) ==
  /\ \E Q \in SUBSET Workers : p \in Q /\ WaitCycle(Q)
  /\ Rollback(p)

Advance(p) ==
  \/ LockSlot(p)
  \/ addUserEntry(p) \/ deleteUserEntry(p) \/ promote(p)
  \/ joinQueue(p) \/ leaveQueue(p)
  \/ createSlot(p) \/ patchSlot(p) \/ deleteUser(p)
  \/ deleteSlot(p) \/ strikeEnrolled(p) \/ deleteSlotQueue(p)
  \/ strikeQueued(p) \/ deleteSlotRowStep(p)
  \/ Commit(p) \/ Unwind(p)

Next ==
  \E p \in Workers : Accept(p) \/ Advance(p) \/ Fail(p) \/ DeadlockVictim(p)

Spec == Init /\ [][Next]_vars

(* A worker that can run does run; a transaction that waits for a row is   *)
(* in the lock's queue and gets it if it becomes free again and again; the *)
(* deadlock detector runs after deadlock_timeout.  Nothing is assumed of   *)
(* Accept and Fail.                                                        *)
Fairness ==
  \A p \in Workers : SF_vars(Advance(p)) /\ WF_vars(DeadlockVictim(p))

FairSpec == Spec /\ Fairness

-----------------------------------------------------------------------------
Atomic == INSTANCE AtomicBooking WITH slots <- dbSlots, users <- dbUsers

AtomicSpec == Atomic!Spec

TypeOK ==
  /\ slots \in [Slots -> SlotRow] /\ dbSlots \in [Slots -> SlotRow]
  /\ users \in [Users -> UserRow] /\ dbUsers \in [Users -> UserRow]
  /\ slotLock \in [Slots -> Workers \cup {Nobody}]
  /\ userLock \in [Users -> Workers \cup {Nobody}]
  /\ pc \in [Workers -> Steps]
  /\ req \in [Workers -> Requests \cup {NoRequest}]
  /\ full \in [Workers -> BOOLEAN]
  /\ next \in [Workers -> Users \cup {NoUser}]
  /\ todo \in [Workers -> SUBSET Users]
  /\ answer \in [Workers -> Answers \cup {"none"}]

(* Only a row's holder has changed it: what the other transactions read of *)
(* a free row is what is committed (no dirty read, no lost update).        *)
FreeRowsAreCommitted ==
  /\ \A s \in Slots : slotLock[s] = Nobody => slots[s] = dbSlots[s]
  /\ \A u \in Users : userLock[u] = Nobody => users[u] = dbUsers[u]

(* Every committed request changed the tables, and is answered, as if it   *)
(* had run alone at its commit (executeInTransaction, database.hpp:62-67,  *)
(* with the lock order of slot_routes.cpp:64-67 and 90-99).                *)
CommitsAreAtomic ==
  [][\A p \in Workers : Commit(p) => Atomic!Serve(req[p], answer[p])]_vars

(* However the statements of the workers interleave, fail and are undone,  *)
(* what is committed holds the two copies of each booking in agreement     *)
(* (slot_routes.cpp:63-78, queue_routes.cpp:14-44).                        *)
CommittedRowsAgree == Atomic!RowsAgree

(* The test for a free seat is made a wait for a users row before it is    *)
(* used, and cancellations come between: even so no committed seat is free *)
(* beside a queue, and nobody has two places of a slot, while capacities   *)
(* stay and accounts are not deleted (slot_routes.cpp:65-76,               *)
(* queue_routes.cpp:16-41).                                                *)
CommittedSeats == Atomic!QueueOnlyWhenFull /\ Atomic!OnePlaceEach

(* slot_routes.cpp:90, queue_routes.cpp:15: rows are locked in the order   *)
(* slot, user, so that no set of transactions waits in a circle.           *)
NoWaitCycle == ~\E Q \in SUBSET Workers : WaitCycle(Q)

(* What the lock order does give: only the handlers that lock the rows of  *)
(* several users, a promotion (slot_routes.cpp:99) and deleteSlot          *)
(* (slot_manager.cpp:132-136), ever are part of a circle of waits.         *)
OnlyManyUsersDeadlock ==
  \A Q \in SUBSET Workers : WaitCycle(Q) =>
    \A p \in Q : req[p].op \in {"deleteUserEntry", "deleteSlot"}

(* Every accepted request is answered: waits end, by the lock or by the    *)
(* deadlock detector.                                                      *)
EveryRequestEnds == \A p \in Workers : pc[p] # "idle" ~> pc[p] = "idle"
=============================================================================
