---------------------------- MODULE BookingProofs ----------------------------
(***************************************************************************)
(* For any number of workers, slots and users: types, the discipline of    *)
(* the row locks, and that Booking implements AtomicBooking.               *)
(*                                                                         *)
(* The invariant of the refinement, RefInv, says of each worker what its   *)
(* transaction has done so far when only the rows it holds are taken from  *)
(* the tables and all others from the committed ones (SlotsOf, UsersOf):   *)
(* at its last step that is the result of its whole request (Result).      *)
(* A step of another worker changes only rows this one does not hold, and  *)
(* a statement does to equal rows of two tables the same (the lemmas named *)
(* Replay...), so the work of a worker stays right (OthersKeep); its own   *)
(* step does the next part of it (the lemmas named ...Keeps).              *)
(*                                                                         *)
(* The theorems of AtomicBookingProofs then hold of what is committed      *)
(* (Alone, at the end).                                                    *)
(***************************************************************************)
EXTENDS Booking, BookingRowsProofs

(* Which requests can be at which step.                                    *)
StepOK ==
  \A p \in Workers :
    /\ pc[p] = "slot" => req[p].op \in SeatOps \cup {"patchSlot", "deleteSlot"}
    /\ pc[p] = "user" => req[p].op \in SeatOps \cup {"deleteUser"}
    /\ pc[p] = "next" => req[p].op = "deleteUserEntry" /\ next[p] \in Users
    /\ pc[p] \in {"strikeEnrolled", "strikeQueued"} => req[p].op = "deleteSlot"
    /\ pc[p] = "insert" => req[p].op = "createSlot"

TablesOK == SlotsOK(slots) /\ SlotsOK(dbSlots) /\ UsersOK(users) /\ UsersOK(dbUsers)

TypeInv == TypeOK /\ TablesOK /\ StepOK

LEMMA RequestFields ==
  ASSUME NEW r \in Requests \cup {NoRequest}
  PROVE  /\ r.op \in SeatOps => r.user \in Users /\ r.slot \in Slots
         /\ r.op \in {"createSlot", "patchSlot"} => r.slot \in Slots /\ r.cap \in Capacities
         /\ r.op = "deleteSlot" => r.slot \in Slots
         /\ r.op = "deleteUser" => r.user \in Users
         /\ r \in Requests => r.op \in AllOps
BY DEF Requests, NoRequest, SeatOps, AllOps

LEMMA InitType == Init => TypeInv
<1> SUFFICES ASSUME Init PROVE TypeInv
  OBVIOUS
<1>1. TablesOK
  BY InitAgrees DEF Init, TablesOK, Consistent
<1>2. TypeOK
  BY <1>1 DEF Init, TypeOK, TablesOK, SlotsOK, UsersOK, Steps
<1>3. StepOK
  BY DEF Init, StepOK
<1> QED
  BY <1>1, <1>2, <1>3 DEF TypeInv

LEMMA AcceptType ==
  ASSUME TypeInv, NEW p \in Workers, Accept(p) PROVE TypeInv'
<1>1. PICK r \in Requests : /\ pc[p] = "idle"
                            /\ req' = [req EXCEPT ![p] = r]
                            /\ Goto(p, FirstStep(r.op))
                            /\ UNCHANGED << committed, tables, locks, full, scan >>
  BY DEF Accept
<1>2. r.op \in AllOps
  BY RequestFields
<1>3. /\ FirstStep(r.op) \in {"slot", "user", "insert"}
      /\ FirstStep(r.op) = "slot" => r.op \in SeatOps \cup {"patchSlot", "deleteSlot"}
      /\ FirstStep(r.op) = "user" => r.op = "deleteUser"
      /\ FirstStep(r.op) = "insert" => r.op = "createSlot"
  BY <1>2 DEF FirstStep, AllOps, SeatOps
<1>4. TypeOK'
  BY <1>1, <1>3 DEF TypeInv, TypeOK, Goto, Steps, committed, tables, locks, scan
<1>5. TablesOK'
  BY <1>1 DEF TypeInv, TablesOK, committed, tables
<1>6. StepOK'
  BY <1>1, <1>3 DEF TypeInv, TypeOK, StepOK, Goto, scan
<1> QED
  BY <1>4, <1>5, <1>6 DEF TypeInv

(* The frame of the steps that write tables, take a lock and go on.        *)
LEMMA StepType ==
  ASSUME TypeInv, NEW p \in Workers, NEW to \in Steps \ {"idle"},
         SlotsOK(slots'), UsersOK(users'),
         slotLock' \in [Slots -> Workers \cup {Nobody}],
         userLock' \in [Users -> Workers \cup {Nobody}],
         pc' = [pc EXCEPT ![p] = to],
         full' \in [Workers -> BOOLEAN],
         next' \in [Workers -> Users \cup {NoUser}],
         \A q \in Workers \ {p} : next'[q] = next[q],
         todo' \in [Workers -> SUBSET Users],
         answer' \in [Workers -> Answers \cup {"none"}],
         UNCHANGED << committed, req >>,
         to = "slot" => req[p].op \in SeatOps \cup {"patchSlot", "deleteSlot"},
         to = "user" => req[p].op \in SeatOps \cup {"deleteUser"},
         to = "next" => req[p].op = "deleteUserEntry" /\ next'[p] \in Users,
         to \in {"strikeEnrolled", "strikeQueued"} => req[p].op = "deleteSlot",
         to = "insert" => req[p].op = "createSlot"
  PROVE  TypeInv'
<1>1. TypeOK'
  BY DEF TypeInv, TypeOK, SlotsOK, UsersOK, committed
<1>2. TablesOK'
  BY DEF TypeInv, TablesOK, committed
<1>3. StepOK'
  <2> SUFFICES ASSUME NEW q \in Workers
               PROVE  /\ pc'[q] = "slot" => req'[q].op \in SeatOps \cup {"patchSlot", "deleteSlot"}
                      /\ pc'[q] = "user" => req'[q].op \in SeatOps \cup {"deleteUser"}
                      /\ pc'[q] = "next" => req'[q].op = "deleteUserEntry" /\ next'[q] \in Users
                      /\ pc'[q] \in {"strikeEnrolled", "strikeQueued"} => req'[q].op = "deleteSlot"
                      /\ pc'[q] = "insert" => req'[q].op = "createSlot"
    BY DEF StepOK
  <2>1. CASE q = p
    BY <2>1 DEF TypeInv, TypeOK
  <2>2. CASE q # p
    BY <2>2 DEF TypeInv, TypeOK, StepOK
  <2> QED
    BY <2>1, <2>2
<1> QED
  BY <1>1, <1>2, <1>3 DEF TypeInv

LEMMA LockTypes ==
  ASSUME TypeInv, NEW p \in Workers
  PROVE  /\ \A s \in Slots : lockSlot(p, s) => slotLock' \in [Slots -> Workers \cup {Nobody}]
         /\ \A u \in Users : lockUser(p, u) => userLock' \in [Users -> Workers \cup {Nobody}]
         /\ \A s \in Slots : [slotLock EXCEPT ![s] = p] \in [Slots -> Workers \cup {Nobody}]
         /\ slotLock \in [Slots -> Workers \cup {Nobody}]
         /\ userLock \in [Users -> Workers \cup {Nobody}]
BY DEF TypeInv, TypeOK, lockSlot, lockUser

LEMMA LocalTypes ==
  ASSUME TypeInv, NEW p \in Workers
  PROVE  /\ SlotsOK(slots) /\ UsersOK(users)
         /\ full \in [Workers -> BOOLEAN]
         /\ next \in [Workers -> Users \cup {NoUser}]
         /\ todo \in [Workers -> SUBSET Users]
         /\ answer \in [Workers -> Answers \cup {"none"}]
         /\ \A a \in Answers : [answer EXCEPT ![p] = a] \in [Workers -> Answers \cup {"none"}]
         /\ \A us \in SUBSET Users : Visit(p, us) =>
              /\ next' \in [Workers -> Users \cup {NoUser}]
              /\ todo' \in [Workers -> SUBSET Users]
              /\ \A q \in Workers \ {p} : next'[q] = next[q]
         /\ \A s \in Slots : /\ Members(slots[s].enrolled) \subseteq Users
                             /\ Members(slots[s].queue) \subseteq Users
<1>1. SlotsOK(slots) /\ UsersOK(users)
  BY DEF TypeInv, TablesOK
<1>2. \A s \in Slots : /\ Members(slots[s].enrolled) \subseteq Users
                       /\ Members(slots[s].queue) \subseteq Users
  <2> SUFFICES ASSUME NEW s \in Slots
               PROVE  /\ Members(slots[s].enrolled) \subseteq Users
                      /\ Members(slots[s].queue) \subseteq Users
    OBVIOUS
  <2>1. slots[s].enrolled \in Seq(Users) /\ slots[s].queue \in Seq(Users)
    BY <1>1, SlotFields
  <2> QED
    BY <2>1 DEF Members
<1>3. \A us \in SUBSET Users : Visit(p, us) =>
        /\ next' \in [Workers -> Users \cup {NoUser}]
        /\ todo' \in [Workers -> SUBSET Users]
        /\ \A q \in Workers \ {p} : next'[q] = next[q]
  BY DEF TypeInv, TypeOK, Visit
<1> QED
  BY <1>1, <1>2, <1>3 DEF TypeInv, TypeOK

LEMMA FinishType ==
  ASSUME TypeInv, NEW p \in Workers, Commit(p) \/ Rollback(p) PROVE TypeInv'
<1>1. Finish(p)
  BY DEF Commit, Rollback
<1>2. /\ slots' \in [Slots -> SlotRow] /\ dbSlots' \in [Slots -> SlotRow]
      /\ users' \in [Users -> UserRow] /\ dbUsers' \in [Users -> UserRow]
      /\ \A s \in Slots : slots'[s] \in {slots[s], dbSlots[s]} /\ dbSlots'[s] \in {slots[s], dbSlots[s]}
      /\ \A u \in Users : users'[u] \in {users[u], dbUsers[u]} /\ dbUsers'[u] \in {users[u], dbUsers[u]}
  BY DEF Commit, Rollback, TypeInv, TypeOK, tables, committed
<1>3. TablesOK'
  BY <1>2 DEF TypeInv, TablesOK, SlotsOK, UsersOK
<1>4. TypeOK'
  BY <1>1, <1>2 DEF TypeInv, TypeOK, Finish, Steps
<1>5. StepOK'
  BY <1>1 DEF TypeInv, TypeOK, StepOK, Finish
<1> QED
  BY <1>3, <1>4, <1>5 DEF TypeInv

LEMMA AdvanceType ==
  ASSUME TypeInv, NEW p \in Workers, Advance(p) PROVE TypeInv'
<1> DEFINE u == req[p].user
           s == req[p].slot
<1> USE DEF Reply, Goto, Steps, Answers, tables, committed, locks, scan
<1>0. /\ req[p] \in Requests \cup {NoRequest}
      /\ req[p].op \in SeatOps => u \in Users /\ s \in Slots
      /\ req[p].op \in {"createSlot", "patchSlot"} => s \in Slots /\ req[p].cap \in Capacities
      /\ req[p].op = "deleteSlot" => s \in Slots
      /\ req[p].op = "deleteUser" => u \in Users
  BY RequestFields DEF TypeInv, TypeOK
<1>1. CASE LockSlot(p)
  <2>1. s \in Slots /\ slotLock' \in [Slots -> Workers \cup {Nobody}]
    BY <1>0, <1>1, LockTypes DEF LockSlot
  <2>2. full' \in [Workers -> BOOLEAN]
    BY <1>1, LocalTypes DEF LockSlot, isAtCapacity
  <2>3. PICK to \in {"unwind", "user"} : pc' = [pc EXCEPT ![p] = to]
    BY <1>1 DEF LockSlot
  <2>4. /\ req[p].op \in SeatOps
        /\ UNCHANGED << dbSlots, dbUsers, slots, users, userLock, req, next, todo, answer >>
    BY <1>1 DEF LockSlot
  <2> QED
    BY <2>1, <2>2, <2>3, <2>4, StepType, LocalTypes, LockTypes
<1>2. CASE addUserEntry(p)
  <2>1. u \in Users /\ s \in Slots /\ userLock' \in [Users -> Workers \cup {Nobody}]
    BY <1>0, <1>2, LockTypes DEF addUserEntry, SeatOps
  <2>2. SlotsOK(slots') /\ UsersOK(users')
    BY <1>2, <2>1, LocalTypes, AddEntry, UserStatements DEF addUserEntry
  <2>3. PICK a \in Answers : Reply(p, a)
    BY <1>2 DEF addUserEntry
  <2>4. UNCHANGED << committed, slotLock, req, full, scan >>
    BY <1>2 DEF addUserEntry
  <2> QED
    BY <2>1, <2>2, <2>3, <2>4, StepType, LocalTypes, LockTypes
<1>3. CASE deleteUserEntry(p)
  <2>1. u \in Users /\ s \in Slots /\ userLock' \in [Users -> Workers \cup {Nobody}]
    BY <1>0, <1>3, LockTypes DEF deleteUserEntry, SeatOps
  <2> DEFINE left == removeEntry(slots, u, s)
             first == getFirstInQueue(left, s)
  <2>2. SlotsOK(left) /\ UsersOK(users')
    BY <1>3, <2>1, LocalTypes, RemoveEntry, UserStatements DEF deleteUserEntry
  <2>3. first # NoUser => first \in Users
    <3> HIDE DEF left
    <3> QED
      BY <2>1, <2>2, FirstInQueue
  <2>4. /\ slots' = left /\ next' = [next EXCEPT ![p] = first]
        /\ IF first = NoUser THEN Reply(p, "ok") ELSE Goto(p, "next")
        /\ req[p].op = "deleteUserEntry"
        /\ UNCHANGED << committed, slotLock, req, full, todo >>
    BY <1>3 DEF deleteUserEntry
  <2> HIDE DEF left, first
  <2>5. /\ next' \in [Workers -> Users \cup {NoUser}]
        /\ \A q \in Workers \ {p} : next'[q] = next[q]
        /\ next'[p] = first
    BY <2>3, <2>4, LocalTypes
  <2> QED
    BY <2>1, <2>2, <2>3, <2>4, <2>5, StepType, LocalTypes, LockTypes
<1>4. CASE promote(p)
  <2>1. next[p] \in Users /\ req[p].op = "deleteUserEntry" /\ s \in Slots
    BY <1>0, <1>4 DEF promote, TypeInv, StepOK, SeatOps
  <2>2. userLock' \in [Users -> Workers \cup {Nobody}]
    BY <1>4, <2>1, LockTypes DEF promote
  <2>3. SlotsOK(slots') /\ UsersOK(users')
    BY <1>4, <2>1, LocalTypes, RemoveFromQueue, AddEntry, UserStatements
       DEF promote, promoteSlots, promoteUsers
  <2> QED
    BY <1>4, <2>1, <2>2, <2>3, StepType, LocalTypes, LockTypes DEF promote
<1>5. CASE joinQueue(p)
  <2>1. u \in Users /\ s \in Slots /\ userLock' \in [Users -> Workers \cup {Nobody}]
    BY <1>0, <1>5, LockTypes DEF joinQueue, SeatOps
  <2>2. SlotsOK(slots') /\ UsersOK(users')
    BY <1>5, <2>1, LocalTypes, AddEntry, AddToQueue, UserStatements DEF joinQueue
  <2>3. PICK a \in Answers : Reply(p, a)
    BY <1>5 DEF joinQueue
  <2>4. UNCHANGED << committed, slotLock, req, full, scan >>
    BY <1>5 DEF joinQueue
  <2> QED
    BY <2>1, <2>2, <2>3, <2>4, StepType, LocalTypes, LockTypes
<1>6. CASE leaveQueue(p)
  <2>1. u \in Users /\ s \in Slots /\ userLock' \in [Users -> Workers \cup {Nobody}]
    BY <1>0, <1>6, LockTypes DEF leaveQueue, SeatOps
  <2>2. SlotsOK(slots') /\ UsersOK(users')
    BY <1>6, <2>1, LocalTypes, RemoveFromQueue, UserStatements DEF leaveQueue
  <2>3. PICK a \in Answers : Reply(p, a)
    BY <1>6 DEF leaveQueue
  <2>4. UNCHANGED << committed, slotLock, req, full, scan >>
    BY <1>6 DEF leaveQueue
  <2> QED
    BY <2>1, <2>2, <2>3, <2>4, StepType, LocalTypes, LockTypes
<1>7. CASE createSlot(p)
  <2>1. s \in Slots /\ req[p].cap \in Capacities
    BY <1>0, <1>7 DEF createSlot, TypeInv, StepOK
  <2>2. SlotsOK(slots')
    BY <1>7, <2>1, LocalTypes, InsertSlot DEF createSlot
  <2> QED
    BY <1>7, <2>1, <2>2, StepType, LocalTypes, LockTypes DEF createSlot
<1>8. CASE patchSlot(p)
  <2>1. s \in Slots /\ req[p].cap \in Capacities
    BY <1>0, <1>8 DEF patchSlot
  <2>2. SlotsOK(slots') /\ slotLock' \in [Slots -> Workers \cup {Nobody}]
    BY <1>8, <2>1, LocalTypes, ChangeSlotInfo, LockTypes DEF patchSlot
  <2> QED
    BY <1>8, <2>1, <2>2, StepType, LocalTypes, LockTypes DEF patchSlot
<1>9. CASE deleteUser(p)
  <2>1. u \in Users /\ userLock' \in [Users -> Workers \cup {Nobody}]
    BY <1>0, <1>9, LockTypes DEF deleteUser
  <2>2. UsersOK(users')
    BY <1>9, <2>1, LocalTypes, DeleteUserRow DEF deleteUser
  <2> QED
    BY <1>9, <2>1, <2>2, StepType, LocalTypes, LockTypes DEF deleteUser
<1>10. CASE deleteSlot(p)
  <2>1. s \in Slots /\ slotLock' \in [Slots -> Workers \cup {Nobody}]
    BY <1>0, <1>10, LockTypes DEF deleteSlot
  <2> QED
    BY <1>10, <2>1, StepType, LocalTypes, LockTypes DEF deleteSlot
<1>11. CASE strikeEnrolled(p)
  <2>1. next[p] \in Users /\ s \in Slots /\ todo[p] \subseteq Users
    BY <1>0, <1>11 DEF strikeEnrolled, TypeInv, TypeOK, StepOK
  <2>2. UsersOK(users') /\ userLock' \in [Users -> Workers \cup {Nobody}]
    BY <1>11, <2>1, LocalTypes, LockTypes, UserStatements DEF strikeEnrolled
  <2>3. pc' = [pc EXCEPT ![p] = "strikeEnrolled"] /\ req[p].op = "deleteSlot"
    BY <1>11 DEF strikeEnrolled, TypeInv, TypeOK, StepOK
  <2> QED
    BY <1>11, <2>1, <2>2, <2>3, StepType, LocalTypes, LockTypes DEF strikeEnrolled
<1>12. CASE deleteSlotQueue(p)
  <2>1. s \in Slots /\ req[p].op = "deleteSlot"
    BY <1>0, <1>12 DEF deleteSlotQueue, TypeInv, StepOK
  <2> QED
    BY <1>12, <2>1, StepType, LocalTypes, LockTypes DEF deleteSlotQueue
<1>13. CASE strikeQueued(p)
  <2>1. next[p] \in Users /\ s \in Slots /\ todo[p] \subseteq Users
    BY <1>0, <1>13 DEF strikeQueued, TypeInv, TypeOK, StepOK
  <2>2. UsersOK(users') /\ userLock' \in [Users -> Workers \cup {Nobody}]
    BY <1>13, <2>1, LocalTypes, LockTypes, UserStatements DEF strikeQueued
  <2>3. pc' = [pc EXCEPT ![p] = "strikeQueued"] /\ req[p].op = "deleteSlot"
    BY <1>13 DEF strikeQueued, TypeInv, TypeOK, StepOK
  <2> QED
    BY <1>13, <2>1, <2>2, <2>3, StepType, LocalTypes, LockTypes DEF strikeQueued
<1>14. CASE deleteSlotRowStep(p)
  <2>1. s \in Slots /\ req[p].op = "deleteSlot"
    BY <1>0, <1>14 DEF deleteSlotRowStep, TypeInv, StepOK
  <2>2. SlotsOK(slots')
    BY <1>14, <2>1, LocalTypes, DeleteSlotRow DEF deleteSlotRowStep
  <2> QED
    BY <1>14, <2>1, <2>2, StepType, LocalTypes, LockTypes DEF deleteSlotRowStep
<1>15. CASE Commit(p) \/ Unwind(p)
  BY <1>15, FinishType DEF Unwind
<1> QED
  BY <1>1, <1>2, <1>3, <1>4, <1>5, <1>6, <1>7, <1>8, <1>9, <1>10, <1>11, <1>12,
     <1>13, <1>14, <1>15 DEF Advance

-----------------------------------------------------------------------------
(* The locks a worker can hold at each step.                               *)
HoldOK ==
  \A p \in Workers :
    /\ pc[p] \in {"idle", "slot", "insert"} =>
         (\A s \in Slots : slotLock[s] # p) /\ (\A u \in Users : userLock[u] # p)
    /\ pc[p] = "user" => \A u \in Users : userLock[u] # p

LEMMA HoldFrame ==
  ASSUME TypeInv, HoldOK, NEW p \in Workers,
         \A q \in Workers \ {p} : pc'[q] = pc[q],
         \A s \in Slots : slotLock'[s] \in {slotLock[s], p, Nobody},
         \A u \in Users : userLock'[u] \in {userLock[u], p, Nobody},
         pc'[p] \in {"idle", "slot", "insert"} =>
           (\A s \in Slots : slotLock'[s] # p) /\ (\A u \in Users : userLock'[u] # p),
         pc'[p] = "user" => \A u \in Users : userLock'[u] # p
  PROVE  HoldOK'
<1> SUFFICES ASSUME NEW q \in Workers
             PROVE  /\ pc'[q] \in {"idle", "slot", "insert"} =>
                         (\A s \in Slots : slotLock'[s] # q) /\ (\A u \in Users : userLock'[u] # q)
                    /\ pc'[q] = "user" => \A u \in Users : userLock'[u] # q
  BY DEF HoldOK
<1>1. q # Nobody
  BY NobodyAssumption
<1>2. CASE q = p
  BY <1>2
<1>3. CASE q # p
  BY <1>1, <1>3 DEF HoldOK
<1> QED
  BY <1>2, <1>3

LEMMA HoldStep ==
  ASSUME TypeInv, HoldOK, [Next]_vars PROVE HoldOK'
<1>1. ASSUME NEW p \in Workers, Accept(p) PROVE HoldOK'
  <2>1. PICK r \in Requests : /\ pc[p] = "idle" /\ Goto(p, FirstStep(r.op))
                              /\ UNCHANGED << committed, tables, locks, full, scan >>
    BY <1>1 DEF Accept
  <2> QED
    BY <2>1, HoldFrame DEF TypeInv, TypeOK, Goto, locks, HoldOK
<1>2. ASSUME NEW p \in Workers, Commit(p) \/ Rollback(p) PROVE HoldOK'
  <2>1. Finish(p)
    BY <1>2 DEF Commit, Rollback
  <2>2. p # Nobody
    BY NobodyAssumption
  <2> QED
    BY <2>1, <2>2, HoldFrame DEF TypeInv, TypeOK, Finish
<1>3. ASSUME NEW p \in Workers, LockSlot(p) PROVE HoldOK'
  BY <1>3, HoldFrame DEF TypeInv, TypeOK, HoldOK, LockSlot, lockSlot, Goto
<1>4. ASSUME NEW p \in Workers, Advance(p), ~LockSlot(p), ~Commit(p), ~Unwind(p)
      PROVE  HoldOK'
  <2>1. \E to \in {"commit", "next", "strikeEnrolled", "strikeQueued"} :
           pc' = [pc EXCEPT ![p] = to]
    BY <1>4 DEF Advance, addUserEntry, deleteUserEntry, promote, joinQueue, leaveQueue,
          createSlot, patchSlot, deleteUser, deleteSlot, strikeEnrolled, deleteSlotQueue,
          strikeQueued, deleteSlotRowStep, Reply, Goto, TypeInv, TypeOK
  <2>2. /\ \A s \in Slots : slotLock'[s] \in {slotLock[s], p, Nobody}
        /\ \A u \in Users : userLock'[u] \in {userLock[u], p, Nobody}
    BY <1>4 DEF Advance, addUserEntry, deleteUserEntry, promote, joinQueue, leaveQueue,
          createSlot, patchSlot, deleteUser, deleteSlot, strikeEnrolled, deleteSlotQueue,
          strikeQueued, deleteSlotRowStep, lockSlot, lockUser, TypeInv, TypeOK, locks
  <2> QED
    BY <2>1, <2>2, HoldFrame DEF TypeInv, TypeOK
<1>5. CASE UNCHANGED vars
  BY <1>5 DEF vars, locks, HoldOK
<1> QED
  BY <1>1, <1>2, <1>3, <1>4, <1>5 DEF Next, Fail, DeadlockVictim, Unwind

LEMMA TypeStep ==
  TypeInv /\ [Next]_vars => TypeInv'
<1> SUFFICES ASSUME TypeInv, [Next]_vars PROVE TypeInv'
  OBVIOUS
<1>1. ASSUME NEW p \in Workers, Accept(p) \/ Advance(p) \/ Fail(p) \/ DeadlockVictim(p)
      PROVE  TypeInv'
  BY <1>1, AcceptType, AdvanceType, FinishType DEF Fail, DeadlockVictim
<1>2. CASE UNCHANGED vars
  BY <1>2 DEF vars, committed, tables, locks, scan, TypeInv, TypeOK, TablesOK, StepOK
<1> QED
  BY <1>1, <1>2 DEF Next

LEMMA HoldInit == Init => HoldOK
BY NobodyAssumption DEF Init, HoldOK

(* A transaction that is in a circle of waits both holds a row somebody    *)
(* waits for and waits for one.  It does not wait for a slot row, since it *)
(* would hold none; nor for the first users row of its handler, since it   *)
(* would hold its slot row only, and who waits for that holds nothing and  *)
(* is in no circle.  So it waits for a further users row.                  *)
THEOREM CirclesOfManyUsers == Spec => []OnlyManyUsersDeadlock
<1>1. ASSUME TypeInv, HoldOK PROVE OnlyManyUsersDeadlock
  <2> SUFFICES ASSUME NEW Q \in SUBSET Workers, WaitCycle(Q), NEW p \in Q
               PROVE  req[p].op \in {"deleteUserEntry", "deleteSlot"}
    BY DEF OnlyManyUsersDeadlock
  <2>1. \A q \in Q : (\E r \in Q : BlockedBy(q, r)) /\ (\E r \in Q : BlockedBy(r, q))
    BY DEF WaitCycle
  <2>2. ASSUME NEW q \in Q, NEW r \in Q, BlockedBy(q, r)
        PROVE  /\ pc[q] \in {"slot", "user", "next", "strikeEnrolled", "strikeQueued"}
               /\ \/ pc[q] = "slot" /\ \E s \in Slots : slotLock[s] = r
                  \/ \E u \in Users : userLock[u] = r
    <3>1. /\ pc[q] = "slot" => req[q].slot \in Slots
          /\ pc[q] = "user" => req[q].user \in Users
          /\ next[q] # NoUser => next[q] \in Users
      BY <1>1, RequestFields DEF TypeInv, TypeOK, StepOK, SeatOps
    <3> QED
      BY <2>2, <3>1 DEF BlockedBy
  <2>3. ASSUME NEW q \in Q PROVE pc[q] # "slot"
    <3>1. PICK r \in Q : BlockedBy(r, q)
      BY <2>1
    <3>2. (\E s \in Slots : slotLock[s] = q) \/ (\E u \in Users : userLock[u] = q)
      BY <2>2, <3>1
    <3> QED
      BY <1>1, <3>2 DEF HoldOK
  <2>4. PICK q \in Q, r \in Q : BlockedBy(p, q) /\ BlockedBy(r, p)
    BY <2>1
  <2>5. pc[p] # "user"
    BY <1>1, <2>2, <2>3, <2>4 DEF HoldOK
  <2>6. pc[p] \in {"next", "strikeEnrolled", "strikeQueued"}
    BY <2>2, <2>3, <2>4, <2>5
  <2> QED
    BY <1>1, <2>6 DEF TypeInv, StepOK
<1> QED
  BY <1>1, InitType, TypeStep, HoldInit, HoldStep, PTL DEF Spec

(* Every row, lock and local variable keeps its type.                      *)
THEOREM TypeCorrect == Spec => []TypeOK
<1>1. TypeInv => TypeOK
  BY DEF TypeInv
<1> QED
  BY <1>1, InitType, TypeStep, PTL DEF Spec

-----------------------------------------------------------------------------
(* Row s of tl becomes that of tl2 as row s of sl becomes that of sl2, and *)
(* no other row of tl changes.                                             *)
SameSlotChange(sl, sl2, tl, tl2, s) ==
  /\ tl[s] = sl[s] /\ tl2[s] = sl2[s]
  /\ \A t \in Slots \ {s} : tl2[t] = tl[t]

SameUserChange(us, us2, ts, ts2, u) ==
  /\ ts[u] = us[u] /\ ts2[u] = us2[u]
  /\ \A v \in Users \ {u} : ts2[v] = ts[v]

LEMMA ReplayOnSlot ==
  ASSUME NEW sl, NEW tl, NEW tl2, NEW s \in Slots, NEW row,
         DOMAIN sl = Slots, tl = [t \in Slots |-> tl[t]], tl2 = [t \in Slots |-> tl2[t]],
         SameSlotChange(sl, OnSlot(sl, s, row), tl, tl2, s)
  PROVE  tl2 = OnSlot(tl, s, row)
<1>1. CASE Live(sl[s])
  <2>1. OnSlot(sl, s, row) = [sl EXCEPT ![s] = row] /\ OnSlot(tl, s, row) = [tl EXCEPT ![s] = row]
    BY <1>1 DEF OnSlot, SameSlotChange
  <2>2. [sl EXCEPT ![s] = row][s] = row
    OBVIOUS
  <2> QED
    BY <2>1, <2>2 DEF SameSlotChange
<1>2. CASE ~Live(sl[s])
  <2>1. OnSlot(sl, s, row) = sl /\ OnSlot(tl, s, row) = tl
    BY <1>2 DEF OnSlot, SameSlotChange
  <2> QED
    BY <2>1 DEF SameSlotChange
<1> QED
  BY <1>1, <1>2

LEMMA ReplayOnUser ==
  ASSUME NEW us, NEW ts, NEW ts2, NEW u \in Users, NEW row,
         DOMAIN us = Users, ts = [v \in Users |-> ts[v]], ts2 = [v \in Users |-> ts2[v]],
         SameUserChange(us, OnUser(us, u, row), ts, ts2, u)
  PROVE  ts2 = OnUser(ts, u, row)
<1>1. CASE Live(us[u])
  <2>1. OnUser(us, u, row) = [us EXCEPT ![u] = row] /\ OnUser(ts, u, row) = [ts EXCEPT ![u] = row]
    BY <1>1 DEF OnUser, SameUserChange
  <2>2. [us EXCEPT ![u] = row][u] = row
    OBVIOUS
  <2> QED
    BY <2>1, <2>2 DEF SameUserChange
<1>2. CASE ~Live(us[u])
  <2>1. OnUser(us, u, row) = us /\ OnUser(ts, u, row) = ts
    BY <1>2 DEF OnUser, SameUserChange
  <2> QED
    BY <2>1 DEF SameUserChange
<1> QED
  BY <1>1, <1>2

(* Each statement does to a row of one table what it does to an equal row  *)
(* of another.                                                             *)
LEMMA ReplaySeat ==
  ASSUME NEW sl, SlotsOK(sl), NEW tl, SlotsOK(tl), NEW tl2, SlotsOK(tl2),
         NEW s \in Slots, NEW u \in Users,
         SameSlotChange(sl, addEntry(sl, u, s), tl, tl2, s)
  PROVE  tl2 = addEntry(tl, u, s)
<1>1. /\ DOMAIN sl = Slots
      /\ tl = [t \in Slots |-> tl[t]] /\ tl2 = [t \in Slots |-> tl2[t]]
      /\ tl[s] = sl[s]
  BY DEF SlotsOK, SameSlotChange
<1> QED
  BY <1>1, ReplayOnSlot DEF addEntry

LEMMA ReplayUnseat ==
  ASSUME NEW sl, SlotsOK(sl), NEW tl, SlotsOK(tl), NEW tl2, SlotsOK(tl2),
         NEW s \in Slots, NEW u \in Users,
         SameSlotChange(sl, removeEntry(sl, u, s), tl, tl2, s)
  PROVE  tl2 = removeEntry(tl, u, s)
<1>1. /\ DOMAIN sl = Slots
      /\ tl = [t \in Slots |-> tl[t]] /\ tl2 = [t \in Slots |-> tl2[t]]
      /\ tl[s] = sl[s]
  BY DEF SlotsOK, SameSlotChange
<1> QED
  BY <1>1, ReplayOnSlot DEF removeEntry

LEMMA ReplayQueue ==
  ASSUME NEW sl, SlotsOK(sl), NEW tl, SlotsOK(tl), NEW tl2, SlotsOK(tl2),
         NEW s \in Slots, NEW u \in Users,
         SameSlotChange(sl, addToQueue(sl, u, s), tl, tl2, s)
  PROVE  tl2 = addToQueue(tl, u, s)
<1>1. /\ DOMAIN sl = Slots
      /\ tl = [t \in Slots |-> tl[t]] /\ tl2 = [t \in Slots |-> tl2[t]]
      /\ tl[s] = sl[s]
  BY DEF SlotsOK, SameSlotChange
<1> QED
  BY <1>1, ReplayOnSlot DEF addToQueue

LEMMA ReplayUnqueue ==
  ASSUME NEW sl, SlotsOK(sl), NEW tl, SlotsOK(tl), NEW tl2, SlotsOK(tl2),
         NEW s \in Slots, NEW u \in Users,
         SameSlotChange(sl, removeFromQueue(sl, u, s), tl, tl2, s)
  PROVE  tl2 = removeFromQueue(tl, u, s)
<1>1. /\ DOMAIN sl = Slots
      /\ tl = [t \in Slots |-> tl[t]] /\ tl2 = [t \in Slots |-> tl2[t]]
      /\ tl[s] = sl[s]
  BY DEF SlotsOK, SameSlotChange
<1> QED
  BY <1>1, ReplayOnSlot DEF removeFromQueue

LEMMA ReplayInsert ==
  ASSUME NEW sl, SlotsOK(sl), NEW sl2, NEW tl, SlotsOK(tl), NEW tl2, SlotsOK(tl2),
         NEW s \in Slots, NEW c \in Capacities,
         SameSlotChange(sl, sl2, tl, tl2, s)
  PROVE  /\ sl2 = changeSlotInfo(sl, s, c) => tl2 = changeSlotInfo(tl, s, c)
         /\ sl2 = deleteSlotRow(sl, s) => tl2 = deleteSlotRow(tl, s)
         /\ sl2 = insertSlot(sl, s, c) => tl2 = insertSlot(tl, s, c)
<1>1. /\ DOMAIN sl = Slots
      /\ tl = [t \in Slots |-> tl[t]] /\ tl2 = [t \in Slots |-> tl2[t]]
      /\ tl[s] = sl[s]
  BY DEF SlotsOK, SameSlotChange
<1>2. ASSUME NEW row, sl2 = OnSlot(sl, s, row) PROVE tl2 = OnSlot(tl, s, row)
  BY <1>1, <1>2, ReplayOnSlot
<1>8. sl2 = changeSlotInfo(sl, s, c) => tl2 = changeSlotInfo(tl, s, c)
  BY <1>1, <1>2 DEF changeSlotInfo
<1>9. sl2 = deleteSlotRow(sl, s) => tl2 = deleteSlotRow(tl, s)
  BY <1>1, <1>2 DEF deleteSlotRow
<1>10. sl2 = insertSlot(sl, s, c) => tl2 = insertSlot(tl, s, c)
  <2> SUFFICES ASSUME sl2 = [sl EXCEPT ![s] = EmptySlot("live", c)]
               PROVE  tl2 = [tl EXCEPT ![s] = EmptySlot("live", c)]
    BY DEF insertSlot
  <2> QED
    BY <1>1 DEF SameSlotChange
<1> QED
  BY <1>8, <1>9, <1>10

LEMMA ReplayUsers ==
  ASSUME NEW us, UsersOK(us), NEW us2, NEW ts, UsersOK(ts), NEW ts2, UsersOK(ts2),
         NEW s \in Slots, NEW u \in Users,
         SameUserChange(us, us2, ts, ts2, u)
  PROVE  /\ us2 = addEnrollment(us, u, s) => ts2 = addEnrollment(ts, u, s)
         /\ us2 = removeEnrollment(us, u, s) => ts2 = removeEnrollment(ts, u, s)
         /\ us2 = addQueuedSlot(us, u, s) => ts2 = addQueuedSlot(ts, u, s)
         /\ us2 = removeQueuedSlot(us, u, s) => ts2 = removeQueuedSlot(ts, u, s)
<1>1. /\ DOMAIN us = Users
      /\ ts = [v \in Users |-> ts[v]] /\ ts2 = [v \in Users |-> ts2[v]]
      /\ ts[u] = us[u]
  BY DEF UsersOK, SameUserChange
<1>2. ASSUME NEW row, us2 = OnUser(us, u, row) PROVE ts2 = OnUser(ts, u, row)
  BY <1>1, <1>2, ReplayOnUser
<1>3. us2 = addEnrollment(us, u, s) => ts2 = addEnrollment(ts, u, s)
  BY <1>1, <1>2 DEF addEnrollment
<1>4. us2 = removeEnrollment(us, u, s) => ts2 = removeEnrollment(ts, u, s)
  BY <1>1, <1>2 DEF removeEnrollment
<1>5. us2 = addQueuedSlot(us, u, s) => ts2 = addQueuedSlot(ts, u, s)
  BY <1>1, <1>2 DEF addQueuedSlot
<1>6. us2 = removeQueuedSlot(us, u, s) => ts2 = removeQueuedSlot(ts, u, s)
  BY <1>1, <1>2 DEF removeQueuedSlot
<1> QED
  BY <1>3, <1>4, <1>5, <1>6

LEMMA ReplayDeleteUser ==
  ASSUME NEW us, UsersOK(us), NEW us2, NEW ts, UsersOK(ts), NEW ts2, UsersOK(ts2),
         NEW u \in Users, SameUserChange(us, us2, ts, ts2, u),
         us2 = deleteUserRow(us, u)
  PROVE  ts2 = deleteUserRow(ts, u)
<1>1. /\ DOMAIN us = Users
      /\ ts = [v \in Users |-> ts[v]] /\ ts2 = [v \in Users |-> ts2[v]]
      /\ ts[u] = us[u]
  BY DEF UsersOK, SameUserChange
<1> QED
  BY <1>1, ReplayOnUser DEF deleteUserRow

LEMMA ReplayOnOther ==
  ASSUME NEW sl, SlotsOK(sl), NEW sl2, SlotsOK(sl2), NEW tl, SlotsOK(tl), NEW s \in Slots,
         tl[s] = sl[s]
  PROVE  \E tl2 : SlotsOK(tl2) /\ SameSlotChange(sl, sl2, tl, tl2, s)
<1> DEFINE tl2 == [t \in Slots |-> IF t = s THEN sl2[s] ELSE tl[t]]
<1>1. SlotsOK(tl2)
  BY DEF SlotsOK
<1>2. SameSlotChange(sl, sl2, tl, tl2, s)
  BY DEF SameSlotChange
<1> QED
  BY <1>1, <1>2

LEMMA ReplayPromotion ==
  ASSUME NEW sl, SlotsOK(sl), NEW tl, SlotsOK(tl), NEW tl2, SlotsOK(tl2),
         NEW s \in Slots, NEW v \in Users,
         SameSlotChange(sl, promoteSlots(sl, v, s), tl, tl2, s)
  PROVE  tl2 = promoteSlots(tl, v, s)
<1> DEFINE mid == removeFromQueue(sl, v, s)
<1>0. tl[s] = sl[s] /\ tl2[s] = promoteSlots(sl, v, s)[s] /\ \A t \in Slots \ {s} : tl2[t] = tl[t]
  BY DEF SameSlotChange
<1>1. SlotsOK(mid)
  BY RemoveFromQueue
<1>6. promoteSlots(sl, v, s) = addEntry(mid, v, s)
  BY DEF promoteSlots
<1>8. mid = removeFromQueue(sl, v, s)
  OBVIOUS
<1> HIDE DEF mid
<1>2. PICK tmid : SlotsOK(tmid) /\ SameSlotChange(sl, mid, tl, tmid, s)
  BY <1>0, <1>1, ReplayOnOther
<1>4. tmid = removeFromQueue(tl, v, s)
  BY <1>1, <1>2, <1>8, ReplayUnqueue
<1>5. SameSlotChange(mid, promoteSlots(sl, v, s), tmid, tl2, s)
  BY <1>0, <1>2 DEF SameSlotChange
<1>7. tl2 = addEntry(tmid, v, s)
  BY <1>1, <1>2, <1>5, <1>6, ReplaySeat
<1> QED
  BY <1>4, <1>7 DEF promoteSlots

LEMMA ReplayCancel ==
  ASSUME NEW sl, SlotsOK(sl), NEW sl2, NEW tl, SlotsOK(tl), NEW tl2, SlotsOK(tl2),
         NEW s \in Slots, NEW u \in Users,
         SameSlotChange(sl, sl2, tl, tl2, s)
  PROVE  LET left == removeEntry(sl, u, s) tleft == removeEntry(tl, u, s)
         IN  /\ getFirstInQueue(tleft, s) = getFirstInQueue(left, s)
             /\ sl2 = left => tl2 = tleft
             /\ \A v \in Users : sl2 = promoteSlots(left, v, s) => tl2 = promoteSlots(tleft, v, s)
<1> DEFINE left == removeEntry(sl, u, s)
           tleft == removeEntry(tl, u, s)
<1>0. tl[s] = sl[s] /\ tl2[s] = sl2[s] /\ \A t \in Slots \ {s} : tl2[t] = tl[t]
  BY DEF SameSlotChange
<1>1. SlotsOK(left) /\ SlotsOK(tleft)
  BY RemoveEntry
<1>8. left = removeEntry(sl, u, s) /\ tleft = removeEntry(tl, u, s)
  OBVIOUS
<1> HIDE DEF left, tleft
<1>2. PICK tx : SlotsOK(tx) /\ SameSlotChange(sl, left, tl, tx, s)
  BY <1>0, <1>1, ReplayOnOther
<1>4. tx = tleft
  BY <1>1, <1>2, <1>8, ReplayUnseat
<1>5. ASSUME sl2 = left PROVE tl2 = tleft
  <2>1. sl2 = removeEntry(sl, u, s)
    BY <1>5, <1>8
  <2> QED
    BY <1>8, <2>1, ReplayUnseat
<1>6. getFirstInQueue(tleft, s) = getFirstInQueue(left, s)
  BY <1>2, <1>4 DEF SameSlotChange, getFirstInQueue
<1>7. ASSUME NEW v \in Users, sl2 = promoteSlots(left, v, s)
      PROVE  tl2 = promoteSlots(tleft, v, s)
  <2>1. SameSlotChange(left, promoteSlots(left, v, s), tleft, tl2, s)
    BY <1>0, <1>2, <1>4, <1>7 DEF SameSlotChange
  <2> QED
    BY <1>1, <2>1, ReplayPromotion
<1> QED
  BY <1>5, <1>6, <1>7 DEF left, tleft

(* The rows of V become in ts2 what they become in us2; of the others,     *)
(* some do and some are left alone.                                        *)
SameUserChanges(us, us2, ts, ts2, V) ==
  \A v \in Users : (ts[v] = us[v] /\ ts2[v] = us2[v]) \/ (v \notin V /\ ts2[v] = ts[v])

LEMMA OneOfThem ==
  ASSUME NEW us, NEW us2, NEW ts, NEW ts2, NEW V, NEW u \in Users, u \in V,
         SameUserChanges(us, us2, ts, ts2, V),
         \A v \in Users \ {u} : us2[v] = us[v]
  PROVE  SameUserChange(us, us2, ts, ts2, u)
BY DEF SameUserChanges, SameUserChange

LEMMA NoneOfThem ==
  ASSUME NEW us, NEW us2, NEW ts, NEW ts2, NEW V, UsersOK(ts), UsersOK(ts2),
         SameUserChanges(us, us2, ts, ts2, V), us2 = us
  PROVE  ts2 = ts
<1>1. \A v \in Users : ts2[v] = ts[v]
  BY DEF SameUserChanges
<1> QED
  BY <1>1 DEF UsersOK

LEMMA ReplayOnOtherUsers ==
  ASSUME NEW us, UsersOK(us), NEW us2, UsersOK(us2), NEW ts, UsersOK(ts), NEW u \in Users,
         ts[u] = us[u]
  PROVE  \E ts2 : UsersOK(ts2) /\ SameUserChange(us, us2, ts, ts2, u)
<1> DEFINE ts2 == [v \in Users |-> IF v = u THEN us2[u] ELSE ts[v]]
<1>1. UsersOK(ts2)
  BY DEF UsersOK
<1>2. SameUserChange(us, us2, ts, ts2, u)
  BY DEF SameUserChange
<1> QED
  BY <1>1, <1>2

LEMMA ReplayUsersPromotion ==
  ASSUME NEW us, UsersOK(us), NEW ts, UsersOK(ts), NEW ts2, UsersOK(ts2),
         NEW s \in Slots, NEW v \in Users,
         SameUserChange(us, promoteUsers(us, v, s), ts, ts2, v)
  PROVE  ts2 = promoteUsers(ts, v, s)
<1> DEFINE mid == removeQueuedSlot(us, v, s)
<1>0. ts[v] = us[v] /\ ts2[v] = promoteUsers(us, v, s)[v] /\ \A w \in Users \ {v} : ts2[w] = ts[w]
  BY DEF SameUserChange
<1>1. UsersOK(mid)
  BY UserStatements
<1>2. PICK tmid : UsersOK(tmid) /\ SameUserChange(us, mid, ts, tmid, v)
  BY <1>0, <1>1, ReplayOnOtherUsers
<1>4. tmid = removeQueuedSlot(ts, v, s)
  BY <1>2, <1>1, ReplayUsers
<1>5. SameUserChange(mid, promoteUsers(us, v, s), tmid, ts2, v)
  BY <1>0, <1>2 DEF SameUserChange
<1>6. promoteUsers(us, v, s) = addEnrollment(mid, v, s)
  BY DEF promoteUsers
<1> HIDE DEF mid
<1>7. ts2 = addEnrollment(tmid, v, s)
  BY <1>1, <1>2, <1>5, <1>6, ReplayUsers
<1> QED
  BY <1>4, <1>7 DEF promoteUsers

LEMMA ReplayUsersCancel ==
  ASSUME NEW us, UsersOK(us), NEW us2, NEW ts, UsersOK(ts), NEW ts2, UsersOK(ts2),
         NEW s \in Slots, NEW u \in Users, NEW v \in Users, NEW V, u \in V, v \in V,
         SameUserChanges(us, us2, ts, ts2, V),
         us2 = promoteUsers(removeEnrollment(us, u, s), v, s)
  PROVE  ts2 = promoteUsers(removeEnrollment(ts, u, s), v, s)
<1> DEFINE freed == removeEnrollment(us, u, s)
           tfreed == removeEnrollment(ts, u, s)
<1>1. UsersOK(freed) /\ UsersOK(tfreed)
  BY UserStatements
<1>2. ts[u] = us[u]
  BY DEF SameUserChanges
<1>3. PICK tx : UsersOK(tx) /\ SameUserChange(us, freed, ts, tx, u)
  BY <1>1, <1>2, ReplayOnOtherUsers
<1>4. tx = tfreed
  BY <1>3, ReplayUsers
<1>5. \A w \in Users \ {u} : freed[w] = us[w]
  BY OneUserWritten DEF OneUserRow
<1>6. \A w \in Users \ {v} : promoteUsers(freed, v, s)[w] = freed[w]
  BY <1>1, OneUserWritten DEF OneUserRow
<1> HIDE DEF freed, tfreed
<1>7. us2 = promoteUsers(freed, v, s)
  BY DEF freed
<1>8. SameUserChange(freed, us2, tfreed, ts2, v)
  BY <1>3, <1>4, <1>5, <1>6, <1>7 DEF SameUserChange, SameUserChanges
<1>9. ts2 = promoteUsers(tfreed, v, s)
  BY <1>1, <1>7, <1>8, ReplayUsersPromotion
<1> QED
  BY <1>9 DEF tfreed

-----------------------------------------------------------------------------
(* What each request makes of the tables sl and us when it runs alone: the *)
(* tables sl2 and us2, and the answer a.                                   *)
Enrolled(u, s, sl, us, sl2, us2) == sl2 = addEntry(sl, u, s) /\ us2 = addEnrollment(us, u, s)
Queued(u, s, sl, us, sl2, us2) == sl2 = addToQueue(sl, u, s) /\ us2 = addQueuedSlot(us, u, s)
Same(sl, us, sl2, us2) == sl2 = sl /\ us2 = us

BookResult(u, s, a, sl, us, sl2, us2) ==
  /\ Live(sl[s])
  /\ \/ s \in us[u].enrolled /\ Same(sl, us, sl2, us2) /\ a = "alreadyEnrolled"
     \/ s \notin us[u].enrolled /\ isAtCapacity(sl, s) /\ Same(sl, us, sl2, us2) /\ a = "full"
     \/ s \notin us[u].enrolled /\ ~isAtCapacity(sl, s) /\ Enrolled(u, s, sl, us, sl2, us2) /\ a = "ok"

JoinResult(u, s, a, sl, us, sl2, us2) ==
  /\ Live(sl[s])
  /\ \/ s \in us[u].enrolled /\ Same(sl, us, sl2, us2) /\ a = "alreadyEnrolled"
     \/ /\ s \notin us[u].enrolled /\ s \in us[u].queued
        /\ Same(sl, us, sl2, us2) /\ a = "alreadyQueued"
     \/ /\ s \notin us[u].enrolled \cup us[u].queued /\ ~isAtCapacity(sl, s)
        /\ Enrolled(u, s, sl, us, sl2, us2) /\ a = "enrolled"
     \/ /\ s \notin us[u].enrolled \cup us[u].queued /\ isAtCapacity(sl, s)
        /\ Queued(u, s, sl, us, sl2, us2) /\ a = "queued"

LeaveResult(u, s, a, sl, us, sl2, us2) ==
  \/ s \notin us[u].queued /\ Same(sl, us, sl2, us2) /\ a = "notQueued"
  \/ /\ s \in us[u].queued /\ a = "ok"
     /\ sl2 = removeFromQueue(sl, u, s) /\ us2 = removeQueuedSlot(us, u, s)

CancelResult(u, s, a, sl, us, sl2, us2) ==
  LET left == removeEntry(sl, u, s)
      freed == removeEnrollment(us, u, s)
      first == getFirstInQueue(left, s)
  IN  /\ a = "ok"
      /\ \/ first = NoUser /\ sl2 = left /\ us2 = freed
         \/ first # NoUser /\ sl2 = promoteSlots(left, first, s) /\ us2 = promoteUsers(freed, first, s)

Result(r, a, sl, us, sl2, us2) ==
  /\ r.op = "addUserEntry" => BookResult(r.user, r.slot, a, sl, us, sl2, us2)
  /\ r.op = "deleteUserEntry" => CancelResult(r.user, r.slot, a, sl, us, sl2, us2)
  /\ r.op = "joinQueue" => JoinResult(r.user, r.slot, a, sl, us, sl2, us2)
  /\ r.op = "leaveQueue" => LeaveResult(r.user, r.slot, a, sl, us, sl2, us2)
  /\ r.op = "createSlot" => a = "ok" /\ sl2 = insertSlot(sl, r.slot, r.cap) /\ us2 = us
  /\ r.op = "patchSlot" => a = "ok" /\ sl2 = changeSlotInfo(sl, r.slot, r.cap) /\ us2 = us
  /\ r.op = "deleteSlot" => a = "ok" /\ sl2 = deleteSlotRow(sl, r.slot) /\ us2 = strike(sl, us, r.slot)
  /\ r.op = "deleteUser" => a = "ok" /\ sl2 = sl /\ us2 = deleteUserRow(us, r.user)

(* The users whose rows it is about.                                       *)
Concerned(r, sl) ==
  {u \in Users :
     \/ r.op \in SeatOps \cup {"deleteUser"} /\ u = r.user
     \/ r.op = "deleteUserEntry" /\ u = getFirstInQueue(removeEntry(sl, r.user, r.slot), r.slot)
     \/ r.op = "deleteSlot" /\ u \in Members(sl[r.slot].enrolled) \cup Members(sl[r.slot].queue)}

(* A users row from which slot s is struck, from one list or from both.    *)
StruckRow(new, old, seated, waiting, s) ==
  /\ new.st = old.st
  /\ new.enrolled = IF seated THEN old.enrolled \ {s} ELSE old.enrolled
  /\ new.queued = IF waiting THEN old.queued \ {s} ELSE old.queued

StruckAt(sl, us, us2, s, v) ==
  StruckRow(us2[v], us[v], v \in Members(sl[s].enrolled), v \in Members(sl[s].queue), s)

LEMMA StrikeRows ==
  ASSUME NEW sl, NEW us, UsersOK(us), NEW s \in Slots, NEW v \in Users
  PROVE  strike(sl, us, s)[v] \in UserRow /\ StruckAt(sl, us, strike(sl, us, s), s, v)
BY DEF UsersOK, UserRow, strike, StruckAt, StruckRow

LEMMA StruckRowIsOne ==
  ASSUME NEW old, NEW r1 \in UserRow, NEW r2 \in UserRow, NEW e, NEW q, NEW s,
         StruckRow(r1, old, e, q, s), StruckRow(r2, old, e, q, s)
  PROVE  r1 = r2
BY DEF UserRow, StruckRow

LEMMA IsStrike ==
  ASSUME NEW sl, NEW us, UsersOK(us), NEW us2, UsersOK(us2), NEW s \in Slots,
         \A v \in Users : StruckAt(sl, us, us2, s, v)
  PROVE  us2 = strike(sl, us, s)
<1> DEFINE new == strike(sl, us, s)
<1>1. new = [v \in Users |-> new[v]]
  BY DEF strike
<1>2. \A v \in Users : new[v] \in UserRow /\ StruckAt(sl, us, new, s, v)
  BY StrikeRows
<1>3. us2 = [v \in Users |-> us2[v]] /\ \A v \in Users : us2[v] \in UserRow
  BY DEF UsersOK
<1> HIDE DEF new
<1>4. ASSUME NEW v \in Users PROVE us2[v] = new[v]
  <2>1. /\ us2[v] \in UserRow /\ new[v] \in UserRow
        /\ StruckAt(sl, us, us2, s, v) /\ StruckAt(sl, us, new, s, v)
    BY <1>2, <1>3
  <2> QED
    BY <2>1, StruckRowIsOne DEF StruckAt
<1>5. us2 = new
  BY <1>1, <1>3, <1>4
<1> QED
  BY <1>5 DEF new

LEMMA ReplayStrike ==
  ASSUME NEW sl, NEW tl, NEW us, UsersOK(us), NEW us2, NEW ts, UsersOK(ts), NEW ts2, UsersOK(ts2),
         NEW s \in Slots, tl[s] = sl[s],
         SameUserChanges(us, us2, ts, ts2, Members(sl[s].enrolled) \cup Members(sl[s].queue)),
         us2 = strike(sl, us, s)
  PROVE  ts2 = strike(tl, ts, s)
<1>1. \A v \in Users : StruckAt(sl, us, us2, s, v)
  BY StrikeRows
<1>2. ASSUME NEW v \in Users PROVE StruckAt(tl, ts, ts2, s, v)
  <2>1. StruckAt(sl, us, us2, s, v)
    BY <1>1
  <2>2. CASE ts[v] = us[v] /\ ts2[v] = us2[v]
    BY <2>1, <2>2 DEF StruckAt
  <2>3. CASE v \notin Members(sl[s].enrolled) \cup Members(sl[s].queue) /\ ts2[v] = ts[v]
    BY <2>3 DEF StruckAt, StruckRow
  <2> QED
    BY <2>2, <2>3 DEF SameUserChanges
<1> QED
  BY <1>2, IsStrike

(* The fields a request of each kind has.                                  *)
LEMMA FieldsOf ==
  ASSUME NEW r \in Requests
  PROVE  /\ r.op \in AllOps
         /\ r.op \in SeatOps => r.user \in Users /\ r.slot \in Slots
         /\ r.op \in {"createSlot", "patchSlot"} => r.slot \in Slots /\ r.cap \in Capacities
         /\ r.op = "deleteSlot" => r.slot \in Slots
         /\ r.op = "deleteUser" => r.user \in Users
BY RequestFields

(* A result is still the request's result when other rows have changed.    *)
LEMMA ResultStays ==
  ASSUME NEW r \in Requests, NEW a,
         NEW sl, SlotsOK(sl), NEW sl2, SlotsOK(sl2), NEW tl, SlotsOK(tl), NEW tl2, SlotsOK(tl2),
         NEW us, UsersOK(us), NEW us2, UsersOK(us2), NEW ts, UsersOK(ts), NEW ts2, UsersOK(ts2),
         r.op # "deleteUser" => SameSlotChange(sl, sl2, tl, tl2, r.slot),
         r.op = "deleteUser" => tl2 = tl,
         SameUserChanges(us, us2, ts, ts2, Concerned(r, sl)),
         Result(r, a, sl, us, sl2, us2)
  PROVE  Result(r, a, tl, ts, tl2, ts2)
<1> DEFINE u == r.user
           s == r.slot
           C == Concerned(r, sl)
<1>1. PICK c \in Capacities : TRUE
  BY CapacitiesAssumption
<1>2. us2 = us => ts2 = ts
  BY NoneOfThem
<1>3. ASSUME r.op \in SeatOps \ {"deleteUserEntry"}
      PROVE  /\ u \in Users /\ s \in Slots /\ tl[s] = sl[s] /\ ts[u] = us[u]
             /\ Live(sl[s]) <=> Live(tl[s])
             /\ isAtCapacity(sl, s) <=> isAtCapacity(tl, s)
             /\ Same(sl, us, sl2, us2) => Same(tl, ts, tl2, ts2)
             /\ Enrolled(u, s, sl, us, sl2, us2) => Enrolled(u, s, tl, ts, tl2, ts2)
             /\ Queued(u, s, sl, us, sl2, us2) => Queued(u, s, tl, ts, tl2, ts2)
             /\ (sl2 = removeFromQueue(sl, u, s) /\ us2 = removeQueuedSlot(us, u, s))
                  => (tl2 = removeFromQueue(tl, u, s) /\ ts2 = removeQueuedSlot(ts, u, s))
  <2>1. u \in Users /\ s \in Slots /\ r.op # "deleteUser"
    BY <1>3, FieldsOf DEF SeatOps
  <2>2. u \in C
    BY <1>3, <2>1 DEF Concerned
  <2>3. tl[s] = sl[s] /\ ts[u] = us[u] /\ SameSlotChange(sl, sl2, tl, tl2, s)
    BY <2>1, <2>2 DEF SameSlotChange, SameUserChanges
  <2> HIDE DEF u, s, C
  <2>4. /\ sl2 = sl => tl2 = tl
        /\ sl2 = addEntry(sl, u, s) => tl2 = addEntry(tl, u, s)
        /\ sl2 = addToQueue(sl, u, s) => tl2 = addToQueue(tl, u, s)
        /\ sl2 = removeFromQueue(sl, u, s) => tl2 = removeFromQueue(tl, u, s)
    <3>1. ASSUME sl2 = sl PROVE tl2 = tl
      BY <2>1, <2>3, <3>1 DEF SlotsOK, SameSlotChange
    <3>2. ASSUME sl2 = addEntry(sl, u, s) PROVE tl2 = addEntry(tl, u, s)
      BY <2>1, <2>3, <3>2, ReplaySeat
    <3>3. ASSUME sl2 = addToQueue(sl, u, s) PROVE tl2 = addToQueue(tl, u, s)
      BY <2>1, <2>3, <3>3, ReplayQueue
    <3>4. ASSUME sl2 = removeFromQueue(sl, u, s) PROVE tl2 = removeFromQueue(tl, u, s)
      BY <2>1, <2>3, <3>4, ReplayUnqueue
    <3> QED
      BY <3>1, <3>2, <3>3, <3>4
  <2>5. ASSUME \A v \in Users \ {u} : us2[v] = us[v] PROVE SameUserChange(us, us2, ts, ts2, u)
    BY <2>1, <2>2, <2>5, OneOfThem DEF C
  <2>6. ASSUME us2 \in {addEnrollment(us, u, s), addQueuedSlot(us, u, s), removeQueuedSlot(us, u, s)}
        PROVE  SameUserChange(us, us2, ts, ts2, u)
    BY <2>1, <2>5, <2>6, OneUserWritten DEF OneUserRow
  <2>7. /\ us2 = addEnrollment(us, u, s) => ts2 = addEnrollment(ts, u, s)
        /\ us2 = addQueuedSlot(us, u, s) => ts2 = addQueuedSlot(ts, u, s)
        /\ us2 = removeQueuedSlot(us, u, s) => ts2 = removeQueuedSlot(ts, u, s)
    BY <2>1, <2>6, ReplayUsers
  <2> QED
    BY <1>2, <2>1, <2>3, <2>4, <2>7 DEF Same, Enrolled, Queued, isAtCapacity
<1>4. r.op = "addUserEntry" => BookResult(u, s, a, tl, ts, tl2, ts2)
  BY <1>3 DEF Result, BookResult, SeatOps
<1>5. r.op = "joinQueue" => JoinResult(u, s, a, tl, ts, tl2, ts2)
  BY <1>3 DEF Result, JoinResult, SeatOps
<1>6. r.op = "leaveQueue" => LeaveResult(u, s, a, tl, ts, tl2, ts2)
  BY <1>3 DEF Result, LeaveResult, SeatOps
<1>7. ASSUME r.op = "deleteUserEntry" PROVE CancelResult(u, s, a, tl, ts, tl2, ts2)
  <2>1. u \in Users /\ s \in Slots
    BY <1>7, FieldsOf DEF SeatOps
  <2> DEFINE left == removeEntry(sl, u, s)
             tleft == removeEntry(tl, u, s)
             first == getFirstInQueue(left, s)
  <2>2. CancelResult(u, s, a, sl, us, sl2, us2)
    BY <1>7 DEF Result
  <2>3. u \in C /\ (first \in Users => first \in C)
    BY <1>7, <2>1 DEF Concerned, SeatOps
  <2>4. /\ getFirstInQueue(tleft, s) = first
        /\ sl2 = left => tl2 = tleft
        /\ \A v \in Users : sl2 = promoteSlots(left, v, s) => tl2 = promoteSlots(tleft, v, s)
    <3>1. SameSlotChange(sl, sl2, tl, tl2, s)
      BY <1>7
    <3> QED
      BY ONLY SlotsOK(sl), SlotsOK(tl), SlotsOK(tl2), <2>1, <3>1, ReplayCancel
  <2>5. SlotsOK(left)
    BY <2>1, RemoveEntry
  <2>6. first # NoUser => first \in Users
    <3> HIDE DEF left
    <3> QED
      BY <2>1, <2>5, FirstInQueue
  <2>7. us2 = removeEnrollment(us, u, s) => ts2 = removeEnrollment(ts, u, s)
    <3> SUFFICES ASSUME us2 = removeEnrollment(us, u, s) PROVE ts2 = removeEnrollment(ts, u, s)
      OBVIOUS
    <3>1. \A v \in Users \ {u} : us2[v] = us[v]
      BY <2>1, OneUserWritten DEF OneUserRow
    <3>2. SameUserChange(us, us2, ts, ts2, u)
      BY <2>1, <2>3, <3>1, OneOfThem
    <3> QED
      BY ONLY UsersOK(us), UsersOK(ts), UsersOK(ts2), us2 = removeEnrollment(us, u, s),
              <2>1, <3>2, ReplayUsers
  <2>8. ASSUME NEW v \in Users, v \in C, us2 = promoteUsers(removeEnrollment(us, u, s), v, s)
        PROVE  ts2 = promoteUsers(removeEnrollment(ts, u, s), v, s)
    BY <2>1, <2>3, <2>8, ReplayUsersCancel
  <2>9. /\ a = "ok"
        /\ \/ first = NoUser /\ sl2 = left /\ us2 = removeEnrollment(us, u, s)
           \/ /\ first # NoUser /\ sl2 = promoteSlots(left, first, s)
              /\ us2 = promoteUsers(removeEnrollment(us, u, s), first, s)
    BY <2>2 DEF CancelResult
  <2> HIDE DEF first, left, tleft, C
  <2>10. \/ first = NoUser /\ tl2 = tleft /\ ts2 = removeEnrollment(ts, u, s)
         \/ /\ first # NoUser /\ tl2 = promoteSlots(tleft, first, s)
            /\ ts2 = promoteUsers(removeEnrollment(ts, u, s), first, s)
    BY <2>3, <2>4, <2>6, <2>7, <2>8, <2>9
  <2> QED
    BY <2>4, <2>9, <2>10 DEF CancelResult, tleft
<1>8. r.op = "createSlot" => a = "ok" /\ tl2 = insertSlot(tl, s, r.cap) /\ ts2 = ts
  <2> SUFFICES ASSUME r.op = "createSlot" PROVE a = "ok" /\ tl2 = insertSlot(tl, s, r.cap) /\ ts2 = ts
    OBVIOUS
  <2>1. s \in Slots /\ r.cap \in Capacities /\ SameSlotChange(sl, sl2, tl, tl2, s)
    BY FieldsOf
  <2>2. a = "ok" /\ sl2 = insertSlot(sl, s, r.cap) /\ us2 = us
    BY DEF Result
  <2> QED
    BY <1>2, <2>1, <2>2, ReplayInsert
<1>9. r.op = "patchSlot" => a = "ok" /\ tl2 = changeSlotInfo(tl, s, r.cap) /\ ts2 = ts
  <2> SUFFICES ASSUME r.op = "patchSlot" PROVE a = "ok" /\ tl2 = changeSlotInfo(tl, s, r.cap) /\ ts2 = ts
    OBVIOUS
  <2>1. s \in Slots /\ r.cap \in Capacities /\ SameSlotChange(sl, sl2, tl, tl2, s)
    BY FieldsOf
  <2>2. a = "ok" /\ sl2 = changeSlotInfo(sl, s, r.cap) /\ us2 = us
    BY DEF Result
  <2> QED
    BY <1>2, <2>1, <2>2, ReplayInsert
<1>10. r.op = "deleteSlot" => a = "ok" /\ tl2 = deleteSlotRow(tl, s) /\ ts2 = strike(tl, ts, s)
  <2> SUFFICES ASSUME r.op = "deleteSlot" PROVE a = "ok" /\ tl2 = deleteSlotRow(tl, s) /\ ts2 = strike(tl, ts, s)
    OBVIOUS
  <2>1. s \in Slots /\ SameSlotChange(sl, sl2, tl, tl2, s) /\ tl[s] = sl[s]
    BY FieldsOf DEF SameSlotChange
  <2>2. a = "ok" /\ sl2 = deleteSlotRow(sl, s) /\ us2 = strike(sl, us, s)
    BY DEF Result
  <2>3. SameUserChanges(us, us2, ts, ts2, Members(sl[s].enrolled) \cup Members(sl[s].queue))
    BY DEF SameUserChanges, Concerned
  <2>4. ts2 = strike(tl, ts, s)
    BY <2>1, <2>2, <2>3, ReplayStrike
  <2> QED
    BY <1>1, <2>1, <2>2, <2>4, ReplayInsert
<1>11. r.op = "deleteUser" => a = "ok" /\ tl2 = tl /\ ts2 = deleteUserRow(ts, u)
  <2> SUFFICES ASSUME r.op = "deleteUser" PROVE a = "ok" /\ tl2 = tl /\ ts2 = deleteUserRow(ts, u)
    OBVIOUS
  <2>1. u \in Users /\ u \in C
    BY FieldsOf DEF Concerned
  <2>2. a = "ok" /\ us2 = deleteUserRow(us, u)
    BY DEF Result
  <2>3. \A v \in Users \ {u} : us2[v] = us[v]
    BY <2>1, <2>2 DEF deleteUserRow, OnUser, UsersOK
  <2>4. SameUserChange(us, us2, ts, ts2, u)
    BY <2>1, <2>3, OneOfThem
  <2> QED
    BY <2>1, <2>2, <2>4, ReplayDeleteUser
<1> QED
  BY <1>4, <1>5, <1>6, <1>7, <1>8, <1>9, <1>10, <1>11 DEF Result

-----------------------------------------------------------------------------
(* What a handler has read and written at the steps before its last.       *)
SeatRead(r, f, sl, us, sl2, us2) ==
  /\ Same(sl, us, sl2, us2)
  /\ r.op \in {"addUserEntry", "joinQueue"} => Live(sl[r.slot]) /\ (f <=> isAtCapacity(sl, r.slot))

SeatFreed(r, n, sl, us, sl2, us2) ==
  /\ sl2 = removeEntry(sl, r.user, r.slot)
  /\ us2 = removeEnrollment(us, r.user, r.slot)
  /\ n = getFirstInQueue(removeEntry(sl, r.user, r.slot), r.slot)
  /\ n # NoUser

(* The users whose lists deleteSlot has visited, L being left to visit.    *)
StruckEnrolled(step, s, L, sl) ==
  {v \in Users : v \in Members(sl[s].enrolled) /\ (step = "strikeEnrolled" => v \notin L)}
StruckQueued(step, s, L, sl) ==
  {v \in Users : step = "strikeQueued" /\ v \in Members(sl[s].queue) /\ v \notin L}

StruckSome(step, r, L, sl, us, sl2, us2) ==
  /\ sl2 = sl
  /\ step = "strikeEnrolled" => L \subseteq Members(sl[r.slot].enrolled)
  /\ step = "strikeQueued" => L \subseteq Members(sl[r.slot].queue)
  /\ \A v \in Users : StruckRow(us2[v], us[v], v \in StruckEnrolled(step, r.slot, L, sl),
                                v \in StruckQueued(step, r.slot, L, sl), r.slot)

LEMMA ConcernedStays ==
  ASSUME NEW r \in Requests, NEW sl, SlotsOK(sl), NEW tl, SlotsOK(tl),
         r.op # "deleteUser" => tl[r.slot] = sl[r.slot]
  PROVE  Concerned(r, tl) = Concerned(r, sl)
<1>1. CASE r.op = "deleteUserEntry"
  <2>1. r.user \in Users /\ r.slot \in Slots /\ SameSlotChange(sl, sl, tl, tl, r.slot)
    BY <1>1, FieldsOf DEF SeatOps, SameSlotChange
  <2>2. getFirstInQueue(removeEntry(tl, r.user, r.slot), r.slot)
          = getFirstInQueue(removeEntry(sl, r.user, r.slot), r.slot)
    BY <2>1, ReplayCancel
  <2> QED
    BY <1>1, <2>2 DEF Concerned
<1>2. CASE r.op # "deleteUserEntry"
  BY <1>2 DEF Concerned
<1> QED
  BY <1>1, <1>2

LEMMA SameSlotsStay ==
  ASSUME NEW r \in Requests, NEW sl, SlotsOK(sl),
         NEW tl, SlotsOK(tl), NEW tl2, SlotsOK(tl2),
         r.op # "deleteUser" => SameSlotChange(sl, sl, tl, tl2, r.slot),
         r.op = "deleteUser" => tl2 = tl
  PROVE  tl2 = tl
<1>1. CASE r.op # "deleteUser"
  <2>1. \A t \in Slots : tl2[t] = tl[t]
    BY <1>1 DEF SameSlotChange
  <2> QED
    BY <2>1 DEF SlotsOK
<1> QED
  BY <1>1

LEMMA SeatReadStays ==
  ASSUME NEW r \in Requests, NEW f,
         NEW sl, SlotsOK(sl), NEW sl2, SlotsOK(sl2), NEW tl, SlotsOK(tl), NEW tl2, SlotsOK(tl2),
         NEW us, UsersOK(us), NEW us2, UsersOK(us2), NEW ts, UsersOK(ts), NEW ts2, UsersOK(ts2),
         r.op # "deleteUser" => SameSlotChange(sl, sl2, tl, tl2, r.slot),
         r.op = "deleteUser" => tl2 = tl,
         NEW V, SameUserChanges(us, us2, ts, ts2, V),
         SeatRead(r, f, sl, us, sl2, us2)
  PROVE  SeatRead(r, f, tl, ts, tl2, ts2)
<1>1. sl2 = sl /\ us2 = us
  BY DEF SeatRead, Same
<1>2. ts2 = ts
  BY <1>1, NoneOfThem
<1>3. tl2 = tl
  BY <1>1, SameSlotsStay
<1>4. r.op \in {"addUserEntry", "joinQueue"} => tl[r.slot] = sl[r.slot]
  BY DEF SameSlotChange
<1> QED
  BY <1>2, <1>3, <1>4 DEF SeatRead, Same, isAtCapacity

LEMMA SeatFreedStays ==
  ASSUME NEW r \in Requests, NEW n, r.op = "deleteUserEntry",
         NEW sl, SlotsOK(sl), NEW sl2, SlotsOK(sl2), NEW tl, SlotsOK(tl), NEW tl2, SlotsOK(tl2),
         NEW us, UsersOK(us), NEW us2, UsersOK(us2), NEW ts, UsersOK(ts), NEW ts2, UsersOK(ts2),
         SameSlotChange(sl, sl2, tl, tl2, r.slot),
         NEW V, r.user \in V, SameUserChanges(us, us2, ts, ts2, V),
         SeatFreed(r, n, sl, us, sl2, us2)
  PROVE  SeatFreed(r, n, tl, ts, tl2, ts2)
<1>1. r.user \in Users /\ r.slot \in Slots
  BY FieldsOf DEF SeatOps
<1>2. /\ sl2 = removeEntry(sl, r.user, r.slot)
      /\ us2 = removeEnrollment(us, r.user, r.slot)
      /\ n = getFirstInQueue(removeEntry(sl, r.user, r.slot), r.slot) /\ n # NoUser
  BY DEF SeatFreed
<1>3. tl2 = removeEntry(tl, r.user, r.slot)
  BY <1>1, <1>2, ReplayUnseat
<1>4. getFirstInQueue(removeEntry(tl, r.user, r.slot), r.slot) = n
  <2>1. getFirstInQueue(removeEntry(tl, r.user, r.slot), r.slot)
          = getFirstInQueue(removeEntry(sl, r.user, r.slot), r.slot)
    BY ONLY SlotsOK(sl), SlotsOK(tl), SlotsOK(tl2), SameSlotChange(sl, sl2, tl, tl2, r.slot),
            <1>1, ReplayCancel
  <2> QED
    BY <1>2, <2>1
<1>5. SameUserChange(us, us2, ts, ts2, r.user)
  <2>1. \A v \in Users \ {r.user} : us2[v] = us[v]
    BY <1>1, <1>2, OneUserWritten DEF OneUserRow
  <2> QED
    BY <1>1, <2>1, OneOfThem
<1>6. ts2 = removeEnrollment(ts, r.user, r.slot)
  BY ONLY UsersOK(us), UsersOK(us2), UsersOK(ts), UsersOK(ts2), <1>1, <1>2, <1>5, ReplayUsers
<1> QED
  BY <1>2, <1>3, <1>4, <1>6 DEF SeatFreed

LEMMA StruckSomeStays ==
  ASSUME NEW step, NEW r \in Requests, NEW L, r.op = "deleteSlot",
         NEW sl, SlotsOK(sl), NEW sl2, SlotsOK(sl2), NEW tl, SlotsOK(tl), NEW tl2, SlotsOK(tl2),
         NEW us, NEW us2, NEW ts, NEW ts2,
         SameSlotChange(sl, sl2, tl, tl2, r.slot),
         NEW V, StruckEnrolled(step, r.slot, L, sl) \subseteq V,
         StruckQueued(step, r.slot, L, sl) \subseteq V,
         SameUserChanges(us, us2, ts, ts2, V),
         StruckSome(step, r, L, sl, us, sl2, us2)
  PROVE  StruckSome(step, r, L, tl, ts, tl2, ts2)
<1> DEFINE s == r.slot
           E == StruckEnrolled(step, s, L, sl)
           Q == StruckQueued(step, s, L, sl)
<1>1. s \in Slots /\ tl[s] = sl[s]
  BY FieldsOf DEF SameSlotChange
<1>2. sl2 = sl
  BY DEF StruckSome
<1>3. tl2 = tl
  BY <1>2, SameSlotsStay
<1>4. StruckEnrolled(step, s, L, tl) = E /\ StruckQueued(step, s, L, tl) = Q
  BY <1>1 DEF StruckEnrolled, StruckQueued
<1>5. \A v \in Users : StruckRow(us2[v], us[v], v \in E, v \in Q, s)
  BY DEF StruckSome
<1> HIDE DEF E, Q
<1>6. ASSUME NEW v \in Users PROVE StruckRow(ts2[v], ts[v], v \in E, v \in Q, s)
  <2>1. CASE ts[v] = us[v] /\ ts2[v] = us2[v]
    BY <1>5, <2>1
  <2>2. CASE v \notin V /\ ts2[v] = ts[v]
    BY <2>2 DEF StruckRow, E, Q
  <2> QED
    BY <2>1, <2>2 DEF SameUserChanges
<1> QED
  BY <1>1, <1>3, <1>4, <1>6 DEF StruckSome

(* The tables as transaction p reads them back: its own writes, and what   *)
(* is committed elsewhere.                                                 *)
SlotsOf(p, lock, sl, db) == [s \in Slots |-> IF lock[s] = p THEN sl[s] ELSE db[s]]
UsersOf(p, lock, us, db) == [u \in Users |-> IF lock[u] = p THEN us[u] ELSE db[u]]

SlotHeld(p, s) == Live(dbSlots[s]) => slotLock[s] = p
UserHeld(p, u) == Live(dbUsers[u]) => userLock[u] = p

(* A worker locks its request's slot only, and only rows that are there,   *)
(* or are new and its own.                                                 *)
LocksOK ==
  /\ FreeRowsAreCommitted
  /\ \A p \in Workers, s \in Slots : slotLock[s] = p =>
       /\ req[p].op # "deleteUser" /\ req[p].slot = s
       /\ slots[s].st # "unborn"
       /\ Live(dbSlots[s]) \/ (dbSlots[s].st = "unborn" /\ req[p].op = "createSlot")
  /\ \A u \in Users : userLock[u] # Nobody => Live(dbUsers[u])

NamesOK ==
  /\ \A p \in Workers : pc[p] # "idle" => req[p] \in Requests /\ Nameable(dbSlots, req[p])
  /\ \A p \in Workers : pc[p] = "idle" => req[p] = NoRequest
  /\ \A p, q \in Workers :
       p # q /\ req[p].op = "createSlot" /\ req[q].op = "createSlot" => req[p].slot # req[q].slot

Left(p) == todo[p] \cup ({next[p]} \ {NoUser})

WorkOK(p) ==
  LET r == req[p]
      sl2 == SlotsOf(p, slotLock, slots, dbSlots)
      us2 == UsersOf(p, userLock, users, dbUsers)
  IN  /\ pc[p] \in {"user", "next", "strikeEnrolled", "strikeQueued", "commit"} /\ r.op # "deleteUser" =>
           SlotHeld(p, r.slot)
      /\ pc[p] = "user" => SeatRead(r, full[p], dbSlots, dbUsers, sl2, us2)
      /\ pc[p] = "next" =>
           UserHeld(p, r.user) /\ SeatFreed(r, next[p], dbSlots, dbUsers, sl2, us2)
      /\ pc[p] \in {"strikeEnrolled", "strikeQueued"} =>
           /\ next[p] = NoUser => todo[p] = {}
           /\ next[p] \notin todo[p]
           /\ \A v \in StruckEnrolled(pc[p], r.slot, Left(p), dbSlots) : UserHeld(p, v)
           /\ \A v \in StruckQueued(pc[p], r.slot, Left(p), dbSlots) : UserHeld(p, v)
           /\ StruckSome(pc[p], r, Left(p), dbSlots, dbUsers, sl2, us2)
      /\ pc[p] = "commit" =>
           /\ \A v \in Concerned(r, dbSlots) : UserHeld(p, v)
           /\ Result(r, answer[p], dbSlots, dbUsers, sl2, us2)

LockInv == TypeInv /\ HoldOK /\ LocksOK /\ NamesOK

RefInv == LockInv /\ \A p \in Workers : WorkOK(p)

-----------------------------------------------------------------------------
(* What a step of worker p leaves alone: the rows other workers hold, and  *)
(* their local variables.                                                  *)
StepOf(p) ==
  /\ \A s \in Slots :
       /\ slotLock[s] \notin {p, Nobody} => slotLock'[s] = slotLock[s] /\ slots'[s] = slots[s]
       /\ slotLock[s] \in {p, Nobody} => slotLock'[s] \in {p, Nobody}
       /\ slotLock[s] # p => dbSlots'[s] = dbSlots[s]
  /\ \A u \in Users :
       /\ userLock[u] \notin {p, Nobody} => userLock'[u] = userLock[u] /\ users'[u] = users[u]
       /\ userLock[u] \in {p, Nobody} => userLock'[u] \in {p, Nobody}
       /\ userLock[u] # p => dbUsers'[u] = dbUsers[u]
  /\ \A q \in Workers \ {p} :
       /\ pc'[q] = pc[q] /\ req'[q] = req[q] /\ full'[q] = full[q]
       /\ next'[q] = next[q] /\ todo'[q] = todo[q] /\ answer'[q] = answer[q]

LEMMA ViewsOK ==
  ASSUME NEW p, NEW sl, SlotsOK(sl), NEW db, SlotsOK(db), NEW lock,
         NEW us, UsersOK(us), NEW dbu, UsersOK(dbu), NEW ulock
  PROVE  SlotsOK(SlotsOf(p, lock, sl, db)) /\ UsersOK(UsersOf(p, ulock, us, dbu))
BY DEF SlotsOK, UsersOK, SlotsOf, UsersOf

(* The row of q's request, once q has settled it.                          *)
LEMMA SettledSlot ==
  ASSUME LockInv, NEW p \in Workers, StepOf(p), NEW q \in Workers \ {p},
         pc[q] # "idle", req[q].op # "deleteUser", req[q].slot \in Slots, SlotHeld(q, req[q].slot)
  PROVE  LET s == req[q].slot IN
         /\ dbSlots'[s] = dbSlots[s]
         /\ slotLock'[s] = q <=> slotLock[s] = q
         /\ slotLock[s] = q => slots'[s] = slots[s]
<1> DEFINE s == req[q].slot
<1>0. q # Nobody
  BY NobodyAssumption
<1>1. CASE slotLock[s] = q
  BY <1>0, <1>1 DEF StepOf
<1>2. CASE slotLock[s] # q
  <2>1. ~Live(dbSlots[s])
    BY <1>2 DEF SlotHeld
  <2>2. slotLock[s] # p
    <3> SUFFICES ASSUME slotLock[s] = p PROVE FALSE
      OBVIOUS
    <3>1. req[p].slot = s /\ dbSlots[s].st = "unborn" /\ req[p].op = "createSlot"
      BY <2>1 DEF LockInv, LocksOK
    <3>2. Nameable(dbSlots, req[q])
      BY DEF LockInv, NamesOK
    <3>3. req[q].op = "createSlot"
      BY <3>1, <3>2 DEF Nameable
    <3> QED
      BY <3>1, <3>3 DEF LockInv, NamesOK
  <2>3. slotLock'[s] # q
    BY <1>0, <1>2 DEF StepOf
  <2> QED
    BY <1>2, <2>2, <2>3 DEF StepOf
<1> QED
  BY <1>1, <1>2

LEMMA SettledUser ==
  ASSUME LockInv, NEW p \in Workers, StepOf(p), NEW q \in Workers \ {p},
         NEW u \in Users, UserHeld(q, u)
  PROVE  /\ dbUsers'[u] = dbUsers[u]
         /\ userLock'[u] = q <=> userLock[u] = q
         /\ userLock[u] = q => users'[u] = users[u]
<1>0. q # Nobody
  BY NobodyAssumption
<1>1. CASE userLock[u] = q
  BY <1>0, <1>1 DEF StepOf
<1>2. CASE userLock[u] # q
  <2>1. userLock[u] = Nobody
    BY <1>2 DEF UserHeld, LockInv, LocksOK
  <2>2. p # Nobody
    BY NobodyAssumption
  <2>3. userLock'[u] # q
    BY <1>0, <1>2 DEF StepOf
  <2> QED
    BY <1>2, <2>1, <2>2, <2>3 DEF StepOf
<1> QED
  BY <1>1, <1>2

(* How the views of q change when p steps.                                 *)
LEMMA OthersSee ==
  ASSUME LockInv, NEW p \in Workers, StepOf(p), SlotsOK(dbSlots'), NEW q \in Workers \ {p}, pc[q] # "idle",
         req[q].op # "deleteUser" => req[q].slot \in Slots /\ SlotHeld(q, req[q].slot)
  PROVE  LET sl2 == SlotsOf(q, slotLock, slots, dbSlots)
             us2 == UsersOf(q, userLock, users, dbUsers)
             tl2 == SlotsOf(q, slotLock', slots', dbSlots')
             ts2 == UsersOf(q, userLock', users', dbUsers')
         IN  /\ req[q].op # "deleteUser" =>
                  SlotHeld(q, req[q].slot)' /\ SameSlotChange(dbSlots, sl2, dbSlots', tl2, req[q].slot)
             /\ req[q].op = "deleteUser" => tl2 = dbSlots'
             /\ \A u \in Users : UserHeld(q, u) => UserHeld(q, u)'
             /\ SameUserChanges(dbUsers, us2, dbUsers', ts2, {u \in Users : UserHeld(q, u)})
<1> DEFINE sl2 == SlotsOf(q, slotLock, slots, dbSlots)
           us2 == UsersOf(q, userLock, users, dbUsers)
           tl2 == SlotsOf(q, slotLock', slots', dbSlots')
           ts2 == UsersOf(q, userLock', users', dbUsers')
<1>0. q # Nobody /\ req'[q] = req[q]
  BY NobodyAssumption DEF StepOf
<1>1. \A t \in Slots : slotLock'[t] = q => slotLock[t] = q
  BY <1>0 DEF StepOf
<1>2. \A t \in Slots : slotLock[t] = q => req[q].op # "deleteUser" /\ t = req[q].slot
  BY DEF LockInv, LocksOK
<1>3. /\ \A t \in Slots : tl2[t] = IF slotLock'[t] = q THEN slots'[t] ELSE dbSlots'[t]
      /\ \A t \in Slots : sl2[t] = IF slotLock[t] = q THEN slots[t] ELSE dbSlots[t]
      /\ \A u \in Users : ts2[u] = IF userLock'[u] = q THEN users'[u] ELSE dbUsers'[u]
      /\ \A u \in Users : us2[u] = IF userLock[u] = q THEN users[u] ELSE dbUsers[u]
      /\ tl2 = [t \in Slots |-> tl2[t]]
  BY DEF SlotsOf, UsersOf
<1>4. SlotsOK(dbSlots)
  BY DEF LockInv, TypeInv, TablesOK
<1> HIDE DEF sl2, us2, tl2, ts2
<1>5. ASSUME req[q].op # "deleteUser"
      PROVE  SlotHeld(q, req[q].slot)' /\ SameSlotChange(dbSlots, sl2, dbSlots', tl2, req[q].slot)
  <2>1. /\ dbSlots'[req[q].slot] = dbSlots[req[q].slot]
        /\ slotLock'[req[q].slot] = q <=> slotLock[req[q].slot] = q
        /\ slotLock[req[q].slot] = q => slots'[req[q].slot] = slots[req[q].slot]
    BY <1>5, SettledSlot
  <2>2. SlotHeld(q, req[q].slot)'
    BY <1>0, <1>5, <2>1 DEF SlotHeld
  <2>3. SameSlotChange(dbSlots, sl2, dbSlots', tl2, req[q].slot)
    BY <1>1, <1>2, <1>3, <1>5, <2>1 DEF SameSlotChange
  <2> QED
    BY <2>2, <2>3
<1>6. ASSUME req[q].op = "deleteUser" PROVE tl2 = dbSlots'
  <2>1. \A t \in Slots : tl2[t] = dbSlots'[t]
    BY <1>1, <1>2, <1>3, <1>6
  <2> QED
    BY <1>3, <1>6, <2>1 DEF SlotsOK
<1>7. ASSUME NEW u \in Users, UserHeld(q, u) PROVE UserHeld(q, u)'
  BY <1>7, SettledUser DEF UserHeld
<1>8. ASSUME NEW u \in Users
      PROVE  \/ dbUsers'[u] = dbUsers[u] /\ ts2[u] = us2[u]
             \/ ~UserHeld(q, u) /\ ts2[u] = dbUsers'[u]
  <2>1. CASE UserHeld(q, u)
    BY <1>3, <2>1, SettledUser
  <2>2. CASE ~UserHeld(q, u)
    <3>1. userLock[u] # q
      BY <2>2 DEF UserHeld
    <3>2. userLock'[u] # q
      BY <1>0, <3>1 DEF StepOf
    <3> QED
      BY <1>3, <2>2, <3>2
  <2> QED
    BY <2>1, <2>2
<1> QED
  BY <1>5, <1>6, <1>7, <1>8 DEF SameUserChanges, sl2, us2, tl2, ts2

(* A step of one worker leaves the half-done work of the others right.     *)
LEMMA OthersKeep ==
  ASSUME LockInv, TypeInv', NEW p \in Workers, StepOf(p), NEW q \in Workers \ {p}, WorkOK(q)
  PROVE  WorkOK(q)'
<1> DEFINE r == req[q]
           sl2 == SlotsOf(q, slotLock, slots, dbSlots)
           us2 == UsersOf(q, userLock, users, dbUsers)
           tl2 == SlotsOf(q, slotLock', slots', dbSlots')
           ts2 == UsersOf(q, userLock', users', dbUsers')
           V == {u \in Users : UserHeld(q, u)}
           Busy == {"user", "next", "strikeEnrolled", "strikeQueued", "commit"}
<1>1. /\ pc'[q] = pc[q] /\ req'[q] = req[q] /\ full'[q] = full[q]
      /\ next'[q] = next[q] /\ todo'[q] = todo[q] /\ answer'[q] = answer[q]
      /\ Left(q)' = Left(q)
  BY DEF StepOf, Left
<1>2. CASE pc[q] \notin Busy
  BY <1>1, <1>2 DEF WorkOK
<1>3. CASE pc[q] \in Busy
  <2>1. /\ r \in Requests
        /\ r.op # "deleteUser" => r.slot \in Slots /\ SlotHeld(q, r.slot)
    <3>1. r \in Requests
      BY <1>3 DEF LockInv, NamesOK
    <3>2. r.op # "deleteUser" => r.slot \in Slots
      BY <3>1, FieldsOf DEF AllOps, SeatOps
    <3> QED
      BY <1>3, <3>1, <3>2 DEF WorkOK
  <2>2. /\ SlotsOK(slots) /\ SlotsOK(dbSlots) /\ UsersOK(users) /\ UsersOK(dbUsers)
        /\ SlotsOK(slots') /\ SlotsOK(dbSlots') /\ UsersOK(users') /\ UsersOK(dbUsers')
    BY DEF LockInv, TypeInv, TablesOK
  <2>3. /\ r.op # "deleteUser" =>
             SlotHeld(q, r.slot)' /\ SameSlotChange(dbSlots, sl2, dbSlots', tl2, r.slot)
        /\ r.op = "deleteUser" => tl2 = dbSlots'
        /\ \A u \in Users : UserHeld(q, u) => UserHeld(q, u)'
        /\ SameUserChanges(dbUsers, us2, dbUsers', ts2, V)
    BY <1>3, <2>1, <2>2, OthersSee
  <2>4. SlotsOK(sl2) /\ SlotsOK(tl2) /\ UsersOK(us2) /\ UsersOK(ts2)
    BY <2>2, ViewsOK
  <2>5. /\ pc[q] = "next" => r.op = "deleteUserEntry"
        /\ pc[q] \in {"strikeEnrolled", "strikeQueued"} => r.op = "deleteSlot"
    BY DEF LockInv, TypeInv, StepOK
  <2>6. r.op # "deleteUser" => dbSlots'[r.slot] = dbSlots[r.slot]
    BY <2>3 DEF SameSlotChange
  <2>7. /\ pc[q] = "user" => SeatRead(r, full[q], dbSlots, dbUsers, sl2, us2)
        /\ pc[q] = "next" =>
             UserHeld(q, r.user) /\ SeatFreed(r, next[q], dbSlots, dbUsers, sl2, us2)
        /\ pc[q] \in {"strikeEnrolled", "strikeQueued"} =>
             /\ next[q] = NoUser => todo[q] = {}
             /\ next[q] \notin todo[q]
             /\ \A v \in StruckEnrolled(pc[q], r.slot, Left(q), dbSlots) : UserHeld(q, v)
             /\ \A v \in StruckQueued(pc[q], r.slot, Left(q), dbSlots) : UserHeld(q, v)
             /\ StruckSome(pc[q], r, Left(q), dbSlots, dbUsers, sl2, us2)
        /\ pc[q] = "commit" =>
             /\ \A v \in Concerned(r, dbSlots) : UserHeld(q, v)
             /\ Result(r, answer[q], dbSlots, dbUsers, sl2, us2)
    BY DEF WorkOK
  <2> HIDE DEF r, sl2, us2, tl2, ts2, V, Busy
  <2>8. pc[q] = "user" => SeatRead(r, full[q], dbSlots', dbUsers', tl2, ts2)
    BY <2>1, <2>2, <2>3, <2>4, <2>7, SeatReadStays
  <2>9. ASSUME pc[q] = "next"
        PROVE  UserHeld(q, r.user)' /\ SeatFreed(r, next[q], dbSlots', dbUsers', tl2, ts2)
    <3>1. r.user \in Users /\ r.user \in V
      BY <2>1, <2>5, <2>7, <2>9, FieldsOf DEF SeatOps, V
    <3>2. UserHeld(q, r.user)'
      BY <1>1, <2>3, <2>7, <2>9, <3>1 DEF UserHeld, r
    <3>3. SeatFreed(r, next[q], dbSlots', dbUsers', tl2, ts2)
      BY <2>1, <2>2, <2>3, <2>4, <2>5, <2>7, <2>9, <3>1, SeatFreedStays
    <3> QED
      BY <3>2, <3>3
  <2>10. ASSUME pc[q] \in {"strikeEnrolled", "strikeQueued"}
         PROVE  /\ \A v \in StruckEnrolled(pc[q], r.slot, Left(q), dbSlots') : UserHeld(q, v)'
                /\ \A v \in StruckQueued(pc[q], r.slot, Left(q), dbSlots') : UserHeld(q, v)'
                /\ StruckSome(pc[q], r, Left(q), dbSlots', dbUsers', tl2, ts2)
    <3> DEFINE E == StruckEnrolled(pc[q], r.slot, Left(q), dbSlots)
               Q == StruckQueued(pc[q], r.slot, Left(q), dbSlots)
    <3>1. E \subseteq V /\ Q \subseteq V
      BY <2>7, <2>10 DEF V, StruckEnrolled, StruckQueued
    <3>2. /\ StruckEnrolled(pc[q], r.slot, Left(q), dbSlots') = E
          /\ StruckQueued(pc[q], r.slot, Left(q), dbSlots') = Q
      BY <2>5, <2>6, <2>10 DEF StruckEnrolled, StruckQueued
    <3>3. StruckSome(pc[q], r, Left(q), dbSlots', dbUsers', tl2, ts2)
      BY <2>1, <2>2, <2>3, <2>4, <2>5, <2>7, <2>10, <3>1, StruckSomeStays
    <3> HIDE DEF E, Q
    <3>4. \A v \in V : UserHeld(q, v)'
      BY <2>3 DEF V
    <3> QED
      BY <3>1, <3>2, <3>3, <3>4
  <2>11. ASSUME pc[q] = "commit"
         PROVE  /\ \A v \in Concerned(r, dbSlots') : UserHeld(q, v)'
                /\ Result(r, answer[q], dbSlots', dbUsers', tl2, ts2)
    <3>1. Concerned(r, dbSlots') = Concerned(r, dbSlots)
      BY <2>1, <2>2, <2>6, ConcernedStays
    <3>2. Concerned(r, dbSlots) \subseteq V
      BY <2>7, <2>11 DEF V, Concerned
    <3>3. SameUserChanges(dbUsers, us2, dbUsers', ts2, Concerned(r, dbSlots))
      BY <2>3, <3>2 DEF SameUserChanges
    <3>4. Result(r, answer[q], dbSlots', dbUsers', tl2, ts2)
      BY <2>1, <2>2, <2>3, <2>4, <2>7, <2>11, <3>3, ResultStays
    <3>5. \A v \in V : UserHeld(q, v)'
      BY <2>3 DEF V
    <3> QED
      BY <3>1, <3>2, <3>4, <3>5
  <2>12. r.op # "deleteUser" => SlotHeld(q, r.slot)'
    BY <2>3
  <2> QED
    BY <1>1, <2>7, <2>8, <2>9, <2>10, <2>11, <2>12 DEF WorkOK, r, sl2, us2, tl2, ts2
<1> QED
  BY <1>2, <1>3

(* A statement of p's transaction: it may lock and write the row of its    *)
(* slot, and lock and write rows of users, when they are there and free.   *)
StatementOf(p) ==
  /\ UNCHANGED << committed, req >>
  /\ pc[p] # "idle" /\ pc'[p] # "idle"
  /\ \A t \in Slots :
       \/ slots'[t] = slots[t] /\ slotLock'[t] = slotLock[t]
       \/ /\ slotLock[t] \in {Nobody, p} /\ slotLock'[t] = p
          /\ req[p].op # "deleteUser" /\ req[p].slot = t
          /\ slots'[t].st # "unborn"
          /\ Live(dbSlots[t]) \/ (dbSlots[t].st = "unborn" /\ req[p].op = "createSlot")
  /\ \A v \in Users :
       \/ users'[v] = users[v] /\ userLock'[v] = userLock[v]
       \/ userLock[v] \in {Nobody, p} /\ userLock'[v] = p /\ Live(dbUsers[v])
  /\ \A q \in Workers \ {p} :
       /\ pc'[q] = pc[q] /\ full'[q] = full[q]
       /\ next'[q] = next[q] /\ todo'[q] = todo[q] /\ answer'[q] = answer[q]

LEMMA StatementKeepsLocks ==
  ASSUME LockInv, NEW p \in Workers, StatementOf(p)
  PROVE  StepOf(p) /\ LocksOK' /\ NamesOK'
<1>0. p # Nobody /\ Nobody \notin Workers
  BY NobodyAssumption
<1>1. dbSlots' = dbSlots /\ dbUsers' = dbUsers /\ req' = req
  BY DEF StatementOf, committed
<1>2. StepOf(p)
  BY <1>0, <1>1 DEF StatementOf, StepOf
<1>3. LocksOK'
  <2>1. \A s \in Slots : slotLock'[s] = Nobody => slots'[s] = dbSlots'[s]
    BY <1>0, <1>1 DEF StatementOf, LockInv, LocksOK, FreeRowsAreCommitted
  <2>2. \A u \in Users : userLock'[u] = Nobody => users'[u] = dbUsers'[u]
    BY <1>0, <1>1 DEF StatementOf, LockInv, LocksOK, FreeRowsAreCommitted
  <2>3. ASSUME NEW q \in Workers, NEW s \in Slots, slotLock'[s] = q
        PROVE  /\ req'[q].op # "deleteUser" /\ req'[q].slot = s
               /\ slots'[s].st # "unborn"
               /\ Live(dbSlots'[s]) \/ (dbSlots'[s].st = "unborn" /\ req'[q].op = "createSlot")
    <3>1. CASE slots'[s] = slots[s] /\ slotLock'[s] = slotLock[s]
      BY <1>1, <2>3, <3>1 DEF LockInv, LocksOK
    <3>2. CASE ~(slots'[s] = slots[s] /\ slotLock'[s] = slotLock[s])
      BY <1>1, <2>3, <3>2 DEF StatementOf
    <3> QED
      BY <3>1, <3>2
  <2>4. \A u \in Users : userLock'[u] # Nobody => Live(dbUsers'[u])
    BY <1>0, <1>1 DEF StatementOf, LockInv, LocksOK
  <2> QED
    BY <2>1, <2>2, <2>3, <2>4 DEF LocksOK, FreeRowsAreCommitted
<1>4. NamesOK'
  <2>1. \A q \in Workers : (pc'[q] = "idle") <=> (pc[q] = "idle")
    BY DEF StatementOf
  <2> QED
    BY <1>1, <2>1 DEF LockInv, NamesOK
<1> QED
  BY <1>2, <1>3, <1>4

LEMMA AcceptKeepsLocks ==
  ASSUME LockInv, NEW p \in Workers, Accept(p)
  PROVE  StepOf(p) /\ LocksOK' /\ NamesOK' /\ WorkOK(p)'
<1>1. PICK r \in Requests : /\ pc[p] = "idle"
                            /\ Nameable(dbSlots, r)
                            /\ r.op = "createSlot" =>
                                 \A q \in Workers : req[q].op = "createSlot" => req[q].slot # r.slot
                            /\ req' = [req EXCEPT ![p] = r]
                            /\ Goto(p, FirstStep(r.op))
                            /\ UNCHANGED << committed, tables, locks, full, scan >>
  BY DEF Accept
<1>2. /\ dbSlots' = dbSlots /\ dbUsers' = dbUsers /\ slots' = slots /\ users' = users
      /\ slotLock' = slotLock /\ userLock' = userLock /\ full' = full
      /\ next' = next /\ todo' = todo /\ answer' = answer
      /\ pc' = [pc EXCEPT ![p] = FirstStep(r.op)]
  BY <1>1 DEF Goto, committed, tables, locks, scan
<1>3. r.op \in AllOps
  BY FieldsOf
<1>4. /\ FirstStep(r.op) \in {"slot", "user", "insert"}
      /\ FirstStep(r.op) = "user" => r.op = "deleteUser"
  BY <1>3 DEF FirstStep, AllOps, SeatOps
<1>5. /\ \A q \in Workers \ {p} : pc'[q] = pc[q] /\ req'[q] = req[q]
      /\ pc'[p] = FirstStep(r.op) /\ req'[p] = r
  BY <1>1, <1>2 DEF LockInv, TypeInv, TypeOK
<1>6. (\A s \in Slots : slotLock[s] # p) /\ (\A u \in Users : userLock[u] # p)
  BY <1>1 DEF LockInv, HoldOK
<1>7. StepOf(p)
  BY <1>2, <1>5 DEF StepOf
<1>8. LocksOK'
  BY <1>2, <1>5, <1>6 DEF LockInv, LocksOK, FreeRowsAreCommitted
<1>9. NamesOK'
  <2>1. ASSUME NEW q \in Workers, pc'[q] # "idle" PROVE req'[q] \in Requests /\ Nameable(dbSlots', req'[q])
    BY <1>1, <1>2, <1>5, <2>1 DEF LockInv, NamesOK
  <2>2. ASSUME NEW q \in Workers, pc'[q] = "idle" PROVE req'[q] = NoRequest
    BY <1>4, <1>5, <2>2 DEF LockInv, NamesOK
  <2>3. ASSUME NEW q1 \in Workers, NEW q2 \in Workers, q1 # q2,
               req'[q1].op = "createSlot", req'[q2].op = "createSlot"
        PROVE  req'[q1].slot # req'[q2].slot
    BY <1>1, <1>5, <2>3 DEF LockInv, NamesOK
  <2> QED
    BY <2>1, <2>2, <2>3 DEF NamesOK
<1>10. WorkOK(p)'
  <2>1. SlotsOf(p, slotLock, slots, dbSlots) = dbSlots
    <3>1. \A s \in Slots : SlotsOf(p, slotLock, slots, dbSlots)[s] = dbSlots[s]
      BY <1>6 DEF SlotsOf
    <3> QED
      BY <3>1 DEF SlotsOf, LockInv, TypeInv, TypeOK
  <2>2. UsersOf(p, userLock, users, dbUsers) = dbUsers
    <3>1. \A u \in Users : UsersOf(p, userLock, users, dbUsers)[u] = dbUsers[u]
      BY <1>6 DEF UsersOf
    <3> QED
      BY <3>1 DEF UsersOf, LockInv, TypeInv, TypeOK
  <2>3. pc'[p] = "user" => SeatRead(req'[p], full'[p], dbSlots, dbUsers, dbSlots, dbUsers)
    BY <1>4, <1>5 DEF SeatRead, Same
  <2>4. pc'[p] = "user" => req'[p].op = "deleteUser"
    BY <1>4, <1>5
  <2>5. pc'[p] \in {"slot", "user", "insert"}
    BY <1>4, <1>5
  <2> QED
    BY <1>2, <2>1, <2>2, <2>3, <2>4, <2>5 DEF WorkOK
<1> QED
  BY <1>7, <1>8, <1>9, <1>10

(* The end of p's transaction.                                             *)
LEMMA FinishKeepsLocks ==
  ASSUME LockInv, NEW p \in Workers, Commit(p) \/ Rollback(p), pc[p] # "idle"
  PROVE  StepOf(p) /\ LocksOK' /\ NamesOK' /\ WorkOK(p)'
<1>0. p # Nobody /\ Nobody \notin Workers
  BY NobodyAssumption
<1>1. Finish(p)
  BY DEF Commit, Rollback
<1>2. /\ \A s \in Slots : slotLock'[s] = IF slotLock[s] = p THEN Nobody ELSE slotLock[s]
      /\ \A u \in Users : userLock'[u] = IF userLock[u] = p THEN Nobody ELSE userLock[u]
  BY <1>1 DEF Finish
<1>3. /\ \A s \in Slots : slotLock[s] # p => slots'[s] = slots[s] /\ dbSlots'[s] = dbSlots[s]
      /\ \A s \in Slots : slotLock[s] = p => /\ slots'[s] = dbSlots'[s]
                                             /\ dbSlots'[s] \in {slots[s], dbSlots[s]}
      /\ \A u \in Users : userLock[u] # p => users'[u] = users[u] /\ dbUsers'[u] = dbUsers[u]
      /\ \A u \in Users : userLock[u] = p => users'[u] = dbUsers'[u]
  <2>1. CASE Commit(p)
    BY <2>1 DEF Commit, tables
  <2>2. CASE Rollback(p)
    BY <2>2 DEF Rollback, committed
  <2> QED
    BY <2>1, <2>2
<1>4. /\ \A q \in Workers \ {p} :
            /\ pc'[q] = pc[q] /\ req'[q] = req[q] /\ full'[q] = full[q]
            /\ next'[q] = next[q] /\ todo'[q] = todo[q] /\ answer'[q] = answer[q]
      /\ pc'[p] = "idle" /\ req'[p] = NoRequest
  BY <1>1 DEF Finish, LockInv, TypeInv, TypeOK
<1>5. StepOf(p)
  BY <1>0, <1>2, <1>3, <1>4 DEF StepOf
<1>6. LocksOK'
  <2>1. \A s \in Slots : slotLock'[s] = Nobody => slots'[s] = dbSlots'[s]
    BY <1>2, <1>3 DEF LockInv, LocksOK, FreeRowsAreCommitted
  <2>2. \A u \in Users : userLock'[u] = Nobody => users'[u] = dbUsers'[u]
    BY <1>2, <1>3 DEF LockInv, LocksOK, FreeRowsAreCommitted
  <2>3. ASSUME NEW q \in Workers, NEW s \in Slots, slotLock'[s] = q
        PROVE  /\ req'[q].op # "deleteUser" /\ req'[q].slot = s
               /\ slots'[s].st # "unborn"
               /\ Live(dbSlots'[s]) \/ (dbSlots'[s].st = "unborn" /\ req'[q].op = "createSlot")
    <3>1. slotLock[s] = q /\ q # p
      BY <1>0, <1>2, <2>3
    <3> QED
      BY <1>3, <1>4, <3>1 DEF LockInv, LocksOK
  <2>4. \A u \in Users : userLock'[u] # Nobody => Live(dbUsers'[u])
    BY <1>0, <1>2, <1>3 DEF LockInv, LocksOK
  <2> QED
    BY <2>1, <2>2, <2>3, <2>4 DEF LocksOK, FreeRowsAreCommitted
<1>7. NamesOK'
  <2>1. ASSUME NEW q \in Workers \ {p}, pc[q] # "idle"
        PROVE  req[q] \in Requests /\ Nameable(dbSlots', req[q])
    <3> DEFINE s == req[q].slot
    <3>1. req[q] \in Requests /\ Nameable(dbSlots, req[q])
      BY <2>1 DEF LockInv, NamesOK
    <3>2. CASE req[q].op = "deleteUser"
      BY <3>1, <3>2 DEF Nameable
    <3>3. CASE req[q].op # "deleteUser"
      <4>1. s \in Slots
        BY <3>1, <3>3, FieldsOf DEF AllOps, SeatOps
      <4>2. CASE slotLock[s] # p
        BY <1>3, <3>1, <4>1, <4>2 DEF Nameable
      <4>3. CASE slotLock[s] = p
        <5>1. /\ req[p].slot = s /\ slots[s].st # "unborn"
              /\ Live(dbSlots[s]) \/ (dbSlots[s].st = "unborn" /\ req[p].op = "createSlot")
          BY <4>1, <4>3 DEF LockInv, LocksOK
        <5>2. req[q].op # "createSlot"
          <6> SUFFICES ASSUME req[q].op = "createSlot" PROVE FALSE
            OBVIOUS
          <6>1. dbSlots[s].st = "unborn"
            BY <3>1 DEF Nameable
          <6>2. req[p].op = "createSlot"
            BY <5>1, <6>1 DEF Live
          <6> QED
            BY <5>1, <6>2 DEF LockInv, NamesOK
        <5>3. dbSlots[s].st # "unborn"
          BY <3>1, <3>3, <5>2 DEF Nameable
        <5>4. dbSlots'[s].st # "unborn"
          BY <1>3, <4>1, <4>3, <5>1, <5>3
        <5> QED
          BY <3>1, <3>3, <5>2, <5>4 DEF Nameable
      <4> QED
        BY <4>2, <4>3
    <3> QED
      BY <3>2, <3>3
  <2>2. \A q \in Workers : pc'[q] # "idle" => req'[q] \in Requests /\ Nameable(dbSlots', req'[q])
    BY <1>4, <2>1
  <2>3. \A q \in Workers : pc'[q] = "idle" => req'[q] = NoRequest
    BY <1>4 DEF LockInv, NamesOK
  <2>4. ASSUME NEW q1 \in Workers, NEW q2 \in Workers, q1 # q2,
               req'[q1].op = "createSlot", req'[q2].op = "createSlot"
        PROVE  req'[q1].slot # req'[q2].slot
    <3>1. NoRequest.op # "createSlot"
      BY DEF NoRequest
    <3>2. q1 # p /\ q2 # p
      BY <1>4, <2>4, <3>1
    <3> QED
      BY <1>4, <2>4, <3>2 DEF LockInv, NamesOK
  <2> QED
    BY <2>2, <2>3, <2>4 DEF NamesOK
<1>8. WorkOK(p)'
  BY <1>4 DEF WorkOK
<1> QED
  BY <1>5, <1>6, <1>7, <1>8

(* A statement on the row of p's slot, that p locks unless it has.         *)
LEMMA SlotWrite ==
  ASSUME LockInv, NEW p \in Workers, pc[p] # "idle",
         req[p].op \notin {"deleteUser", "createSlot"},
         NEW s \in Slots, s = req[p].slot,
         Live(dbSlots[s]) => slotLock[s] \in {Nobody, p},
         NEW new, OneSlotRow(slots, new, s),
         NEW lock, lock[s] = IF Live(dbSlots[s]) THEN p ELSE slotLock[s],
         \A t \in Slots \ {s} : lock[t] = slotLock[t]
  PROVE  /\ SameSlotChange(slots, new, SlotsOf(p, slotLock, slots, dbSlots),
                           SlotsOf(p, lock, new, dbSlots), s)
         /\ Live(dbSlots[s]) => lock[s] = p
         /\ \A t \in Slots :
              \/ new[t] = slots[t] /\ lock[t] = slotLock[t]
              \/ /\ slotLock[t] \in {Nobody, p} /\ lock[t] = p
                 /\ req[p].slot = t /\ new[t].st # "unborn" /\ Live(dbSlots[t])
<1>0. p # Nobody /\ slotLock \in [Slots -> Workers \cup {Nobody}]
  BY NobodyAssumption DEF LockInv, TypeInv, TypeOK
<1>1. ASSUME ~Live(dbSlots[s]) PROVE slotLock[s] = Nobody /\ slots[s] = dbSlots[s]
  <2>1. dbSlots[s].st # "unborn"
    BY DEF LockInv, NamesOK, Nameable
  <2>2. slotLock[s] = Nobody
    BY <1>0, <1>1, <2>1 DEF LockInv, LocksOK
  <2> QED
    BY <2>2 DEF LockInv, LocksOK, FreeRowsAreCommitted
<1>2. slotLock[s] # p => slotLock[s] = Nobody /\ slots[s] = dbSlots[s]
  BY <1>1 DEF LockInv, LocksOK, FreeRowsAreCommitted
<1>3. Live(dbSlots[s]) => slots[s].st # "unborn"
  BY <1>2 DEF LockInv, LocksOK, Live
<1>4. \A t \in Slots \ {s} : new[t] = slots[t] /\ lock[t] = slotLock[t]
  BY DEF OneSlotRow
<1>5. lock[s] = IF Live(dbSlots[s]) THEN p ELSE slotLock[s]
  OBVIOUS
<1>6. ~Live(dbSlots[s]) => new[s] = slots[s]
  BY <1>1 DEF OneSlotRow
<1>7. Live(dbSlots[s]) => new[s].st # "unborn"
  BY <1>3 DEF OneSlotRow
<1>8. SameSlotChange(slots, new, SlotsOf(p, slotLock, slots, dbSlots),
                     SlotsOf(p, lock, new, dbSlots), s)
  BY <1>0, <1>1, <1>2, <1>4, <1>5, <1>6 DEF SameSlotChange, SlotsOf
<1> QED
  BY <1>2, <1>4, <1>5, <1>6, <1>7, <1>8

(* A statement on a users row, that p locks.                               *)
LEMMA UserWrite ==
  ASSUME LockInv, NEW p \in Workers, NEW u \in Users, lockUser(p, u),
         NEW new, OneUserRow(users, new, u)
  PROVE  /\ SameUserChange(users, new, UsersOf(p, userLock, users, dbUsers),
                           UsersOf(p, userLock', new, dbUsers), u)
         /\ Live(dbUsers[u]) => userLock'[u] = p
         /\ \A v \in Users : userLock[v] = p => userLock'[v] = p
         /\ \A v \in Users :
              \/ new[v] = users[v] /\ userLock'[v] = userLock[v]
              \/ userLock[v] \in {Nobody, p} /\ userLock'[v] = p /\ Live(dbUsers[v])
<1>0. p # Nobody /\ userLock \in [Users -> Workers \cup {Nobody}]
  BY NobodyAssumption DEF LockInv, TypeInv, TypeOK
<1>1. /\ Live(dbUsers[u]) => userLock[u] \in {Nobody, p}
      /\ userLock' = IF Live(dbUsers[u]) THEN [userLock EXCEPT ![u] = p] ELSE userLock
  BY DEF lockUser
<1>2. ~Live(dbUsers[u]) => userLock[u] = Nobody
  BY DEF LockInv, LocksOK
<1>3. userLock[u] # p => users[u] = dbUsers[u]
  BY <1>1, <1>2 DEF LockInv, LocksOK, FreeRowsAreCommitted
<1>4. \A v \in Users \ {u} : new[v] = users[v] /\ userLock'[v] = userLock[v]
  BY <1>1 DEF OneUserRow
<1>5. userLock'[u] = IF Live(dbUsers[u]) THEN p ELSE userLock[u]
  BY <1>0, <1>1
<1>6. ~Live(dbUsers[u]) => new[u] = users[u]
  BY <1>0, <1>2, <1>3 DEF OneUserRow
<1>7. SameUserChange(users, new, UsersOf(p, userLock, users, dbUsers),
                     UsersOf(p, userLock', new, dbUsers), u)
  BY <1>0, <1>2, <1>3, <1>4, <1>5, <1>6 DEF SameUserChange, UsersOf
<1> QED
  BY <1>1, <1>4, <1>5, <1>6, <1>7

(* A lock that is held already.                                            *)
LEMMA HeldLock ==
  ASSUME LockInv, NEW p \in Workers, NEW s \in Slots, SlotHeld(p, s)
  PROVE  /\ slotLock[s] = IF Live(dbSlots[s]) THEN p ELSE slotLock[s]
         /\ Live(dbSlots[s]) => slotLock[s] \in {Nobody, p}
BY DEF LockInv, TypeInv, TypeOK, SlotHeld

LEMMA NothingHeld ==
  ASSUME LockInv, NEW p \in Workers
  PROVE  /\ (\A s \in Slots : slotLock[s] # p) => SlotsOf(p, slotLock, slots, dbSlots) = dbSlots
         /\ (\A u \in Users : userLock[u] # p) => UsersOf(p, userLock, users, dbUsers) = dbUsers
<1>1. DOMAIN dbSlots = Slots /\ DOMAIN dbUsers = Users
      /\ dbSlots = [s \in Slots |-> dbSlots[s]] /\ dbUsers = [u \in Users |-> dbUsers[u]]
  BY DEF LockInv, TypeInv, TypeOK
<1>2. ASSUME \A s \in Slots : slotLock[s] # p PROVE SlotsOf(p, slotLock, slots, dbSlots) = dbSlots
  BY <1>1, <1>2 DEF SlotsOf
<1>3. ASSUME \A u \in Users : userLock[u] # p PROVE UsersOf(p, userLock, users, dbUsers) = dbUsers
  BY <1>1, <1>3 DEF UsersOf
<1> QED
  BY <1>2, <1>3

LEMMA NothingWritten ==
  ASSUME NEW sl, NEW s, NEW us, NEW u
  PROVE  OneSlotRow(sl, sl, s) /\ OneUserRow(us, us, u)
BY DEF OneSlotRow, OneUserRow, Live

(* The statements after the lock on the row of the request's user.         *)
SeatWrite(p) ==
  LET u == req[p].user s == req[p].slot
      own == SlotsOf(p, slotLock', slots', dbSlots')
      mine == UsersOf(p, userLock', users', dbUsers')
  IN  /\ req[p] \in Requests /\ u \in Users /\ s \in Slots
      /\ SlotsOK(slots) /\ SlotsOK(dbSlots) /\ UsersOK(users) /\ UsersOK(dbUsers)
      /\ SlotsOK(own) /\ UsersOK(mine)
      /\ slots[s] = dbSlots[s] /\ users[u] = dbUsers[u]
      /\ SameSlotChange(slots, slots', dbSlots, own, s)
      /\ SameUserChange(users, users', dbUsers, mine, u)
      /\ SlotHeld(p, s)' /\ UserHeld(p, u)'
      /\ req[p].op \in {"addUserEntry", "joinQueue"} =>
           Live(dbSlots[s]) /\ (full[p] <=> isAtCapacity(dbSlots, s))

LEMMA SeatWrites ==
  ASSUME LockInv, TypeInv', NEW p \in Workers, WorkOK(p), pc[p] = "user", req[p].op \in SeatOps,
         lockUser(p, req[p].user),
         OneSlotRow(slots, slots', req[p].slot), OneUserRow(users, users', req[p].user),
         UNCHANGED << committed, slotLock, req, full >>,
         pc'[p] # "idle",
         \A q \in Workers \ {p} : /\ pc'[q] = pc[q] /\ next'[q] = next[q]
                                  /\ todo'[q] = todo[q] /\ answer'[q] = answer[q]
  PROVE  SeatWrite(p) /\ StatementOf(p)
<1> DEFINE r == req[p]
           u == req[p].user
           s == req[p].slot
           own == SlotsOf(p, slotLock', slots', dbSlots')
           mine == UsersOf(p, userLock', users', dbUsers')
<1>1. r \in Requests /\ u \in Users /\ s \in Slots /\ r.op \notin {"deleteUser", "createSlot"}
  BY FieldsOf DEF LockInv, NamesOK, SeatOps
<1>2. /\ dbSlots' = dbSlots /\ dbUsers' = dbUsers /\ slotLock' = slotLock
      /\ req' = req /\ full' = full
  BY DEF committed
<1>3. SlotHeld(p, s) /\ SeatRead(r, full[p], dbSlots, dbUsers,
           SlotsOf(p, slotLock, slots, dbSlots), UsersOf(p, userLock, users, dbUsers))
  BY <1>1 DEF WorkOK
<1>4. /\ SlotsOf(p, slotLock, slots, dbSlots) = dbSlots
      /\ UsersOf(p, userLock, users, dbUsers) = dbUsers
      /\ r.op \in {"addUserEntry", "joinQueue"} =>
           Live(dbSlots[s]) /\ (full[p] <=> isAtCapacity(dbSlots, s))
  BY <1>3 DEF SeatRead, Same
<1>5. /\ SlotsOK(slots) /\ SlotsOK(dbSlots) /\ UsersOK(users) /\ UsersOK(dbUsers)
      /\ SlotsOK(own) /\ UsersOK(mine)
  <2>1. /\ SlotsOK(slots) /\ SlotsOK(dbSlots) /\ UsersOK(users) /\ UsersOK(dbUsers)
        /\ SlotsOK(slots') /\ UsersOK(users')
    BY DEF LockInv, TypeInv, TablesOK
  <2> QED
    BY <1>2, <2>1, ViewsOK
<1>6. /\ SameSlotChange(slots, slots', SlotsOf(p, slotLock, slots, dbSlots), own, s)
      /\ Live(dbSlots[s]) => slotLock[s] = p
      /\ \A t \in Slots :
           \/ slots'[t] = slots[t] /\ slotLock[t] = slotLock[t]
           \/ /\ slotLock[t] \in {Nobody, p} /\ slotLock[t] = p
              /\ req[p].slot = t /\ slots'[t].st # "unborn" /\ Live(dbSlots[t])
  <2>1. /\ slotLock[s] = IF Live(dbSlots[s]) THEN p ELSE slotLock[s]
        /\ Live(dbSlots[s]) => slotLock[s] \in {Nobody, p}
    BY <1>1, <1>3, HeldLock
  <2> HIDE DEF u, s
  <2>2. s = req[p].slot /\ OneSlotRow(slots, slots', s)
    BY DEF s
  <2> QED
    BY <1>1, <1>2, <2>1, <2>2, SlotWrite
<1>7. /\ SameUserChange(users, users', UsersOf(p, userLock, users, dbUsers), mine, u)
      /\ Live(dbUsers[u]) => userLock'[u] = p
      /\ \A v \in Users :
           \/ users'[v] = users[v] /\ userLock'[v] = userLock[v]
           \/ userLock[v] \in {Nobody, p} /\ userLock'[v] = p /\ Live(dbUsers[v])
  BY <1>1, <1>2, UserWrite
<1>8. slots[s] = dbSlots[s] /\ users[u] = dbUsers[u]
  BY <1>4, <1>6, <1>7 DEF SameSlotChange, SameUserChange
<1>9. SlotHeld(p, s)' /\ UserHeld(p, u)'
  BY <1>2, <1>6, <1>7 DEF SlotHeld, UserHeld
<1>10. SeatWrite(p)
  BY <1>1, <1>4, <1>5, <1>6, <1>7, <1>8, <1>9 DEF SeatWrite
<1>11. StatementOf(p)
  BY <1>1, <1>2, <1>6, <1>7 DEF StatementOf, committed
<1> QED
  BY <1>10, <1>11

(* What the pairs of statements make of the committed tables.              *)
LEMMA SeatReplays ==
  ASSUME NEW p, SeatWrite(p)
  PROVE  LET u == req[p].user s == req[p].slot
             own == SlotsOf(p, slotLock', slots', dbSlots')
             mine == UsersOf(p, userLock', users', dbUsers')
         IN  /\ UNCHANGED tables => Same(dbSlots, dbUsers, own, mine)
             /\ slots' = addEntry(slots, u, s) /\ users' = addEnrollment(users, u, s)
                  => Enrolled(u, s, dbSlots, dbUsers, own, mine)
             /\ slots' = addToQueue(slots, u, s) /\ users' = addQueuedSlot(users, u, s)
                  => Queued(u, s, dbSlots, dbUsers, own, mine)
             /\ slots' = removeFromQueue(slots, u, s) /\ users' = removeQueuedSlot(users, u, s)
                  => own = removeFromQueue(dbSlots, u, s) /\ mine = removeQueuedSlot(dbUsers, u, s)
<1> DEFINE u == req[p].user
           s == req[p].slot
           own == SlotsOf(p, slotLock', slots', dbSlots')
           mine == UsersOf(p, userLock', users', dbUsers')
<1>1. /\ u \in Users /\ s \in Slots
      /\ SlotsOK(slots) /\ SlotsOK(dbSlots) /\ UsersOK(users) /\ UsersOK(dbUsers)
      /\ SlotsOK(own) /\ UsersOK(mine)
      /\ SameSlotChange(slots, slots', dbSlots, own, s)
      /\ SameUserChange(users, users', dbUsers, mine, u)
      /\ slots[s] = dbSlots[s] /\ users[u] = dbUsers[u]
  BY DEF SeatWrite
<1> HIDE DEF u, s, own, mine
<1>2. ASSUME UNCHANGED tables PROVE Same(dbSlots, dbUsers, own, mine)
  <2>1. \A t \in Slots : own[t] = dbSlots[t]
    BY <1>1, <1>2 DEF SameSlotChange, tables
  <2>2. \A v \in Users : mine[v] = dbUsers[v]
    BY <1>1, <1>2 DEF SameUserChange, tables
  <2> QED
    BY <1>1, <2>1, <2>2 DEF Same, SlotsOK, UsersOK
<1>3. ASSUME slots' = addEntry(slots, u, s), users' = addEnrollment(users, u, s)
      PROVE  Enrolled(u, s, dbSlots, dbUsers, own, mine)
  <2>1. own = addEntry(dbSlots, u, s)
    BY <1>1, <1>3, ReplaySeat
  <2>2. mine = addEnrollment(dbUsers, u, s)
    BY <1>1, <1>3, ReplayUsers
  <2> QED
    BY <2>1, <2>2 DEF Enrolled
<1>4. ASSUME slots' = addToQueue(slots, u, s), users' = addQueuedSlot(users, u, s)
      PROVE  Queued(u, s, dbSlots, dbUsers, own, mine)
  <2>1. own = addToQueue(dbSlots, u, s)
    BY <1>1, <1>4, ReplayQueue
  <2>2. mine = addQueuedSlot(dbUsers, u, s)
    BY <1>1, <1>4, ReplayUsers
  <2> QED
    BY <2>1, <2>2 DEF Queued
<1>5. ASSUME slots' = removeFromQueue(slots, u, s), users' = removeQueuedSlot(users, u, s)
      PROVE  own = removeFromQueue(dbSlots, u, s) /\ mine = removeQueuedSlot(dbUsers, u, s)
  <2>1. own = removeFromQueue(dbSlots, u, s)
    BY <1>1, <1>5, ReplayUnqueue
  <2>2. mine = removeQueuedSlot(dbUsers, u, s)
    BY <1>1, <1>5, ReplayUsers
  <2> QED
    BY <2>1, <2>2
<1> QED
  BY <1>2, <1>3, <1>4, <1>5 DEF u, s, own, mine

(* The last statement of a handler, and what it leaves to commit.          *)
LEMMA ReadyToCommit ==
  ASSUME NEW p \in Workers, pc'[p] = "commit", NEW a, answer'[p] = a, UNCHANGED << committed, req >>,
         req[p].op # "deleteUser" => SlotHeld(p, req[p].slot)',
         \A v \in Concerned(req[p], dbSlots) : UserHeld(p, v)',
         Result(req[p], a, dbSlots, dbUsers, SlotsOf(p, slotLock', slots', dbSlots'),
                UsersOf(p, userLock', users', dbUsers'))
  PROVE  WorkOK(p)'
BY DEF WorkOK, committed

LEMMA addUserEntryKeeps ==
  ASSUME LockInv, TypeInv', NEW p \in Workers, WorkOK(p), addUserEntry(p)
  PROVE  StatementOf(p) /\ WorkOK(p)'
<1> DEFINE u == req[p].user
           s == req[p].slot
           own == SlotsOf(p, slotLock', slots', dbSlots')
           mine == UsersOf(p, userLock', users', dbUsers')
<1>1. /\ pc[p] = "user" /\ req[p].op = "addUserEntry" /\ lockUser(p, u)
      /\ UNCHANGED << committed, slotLock, req, full, scan >>
  BY DEF addUserEntry
<1>2. PICK a \in {"alreadyEnrolled", "full", "ok"} :
        /\ Reply(p, a)
        /\ \/ a = "alreadyEnrolled" /\ s \in users[u].enrolled /\ UNCHANGED tables
           \/ a = "full" /\ s \notin users[u].enrolled /\ full[p] /\ UNCHANGED tables
           \/ /\ a = "ok" /\ s \notin users[u].enrolled /\ ~full[p]
              /\ slots' = addEntry(slots, u, s) /\ users' = addEnrollment(users, u, s)
  BY DEF addUserEntry, getUserEnrollments
<1>3. u \in Users /\ s \in Slots /\ SlotsOK(slots) /\ UsersOK(users)
  BY <1>1, FieldsOf DEF LockInv, NamesOK, SeatOps, TypeInv, TablesOK
<1>4. OneSlotRow(slots, slots', s) /\ OneUserRow(users, users', u)
  <2>1. PICK c \in Capacities : TRUE
    BY CapacitiesAssumption
  <2> QED
    BY <1>2, <1>3, <2>1, NothingWritten, OneSlotWritten, OneUserWritten DEF tables
<1>5. /\ pc'[p] = "commit" /\ answer'[p] = a
      /\ \A q \in Workers \ {p} : /\ pc'[q] = pc[q] /\ next'[q] = next[q]
                                  /\ todo'[q] = todo[q] /\ answer'[q] = answer[q]
  BY <1>1, <1>2 DEF Reply, scan, LockInv, TypeInv, TypeOK
<1>6. SeatWrite(p) /\ StatementOf(p)
  BY <1>1, <1>4, <1>5, SeatWrites DEF SeatOps
<1>7. BookResult(u, s, a, dbSlots, dbUsers, own, mine)
  <2>1. /\ UNCHANGED tables => Same(dbSlots, dbUsers, own, mine)
        /\ slots' = addEntry(slots, u, s) /\ users' = addEnrollment(users, u, s)
             => Enrolled(u, s, dbSlots, dbUsers, own, mine)
    BY <1>6, SeatReplays
  <2>3. Live(dbSlots[s]) /\ (full[p] <=> isAtCapacity(dbSlots, s)) /\ users[u] = dbUsers[u]
    BY <1>1, <1>6 DEF SeatWrite
  <2> HIDE DEF u, s, own, mine
  <2> QED
    BY <1>2, <2>1, <2>3 DEF BookResult
<1>8. Result(req[p], a, dbSlots, dbUsers, own, mine)
  BY <1>1, <1>7 DEF Result
<1>9. /\ Concerned(req[p], dbSlots) = {u}
      /\ SlotHeld(p, s)' /\ UserHeld(p, u)'
  BY <1>1, <1>3, <1>6 DEF Concerned, SeatOps, SeatWrite
<1>10. WorkOK(p)'
  BY <1>1, <1>5, <1>8, <1>9, ReadyToCommit
<1> QED
  BY <1>6, <1>10

LEMMA joinQueueKeeps ==
  ASSUME LockInv, TypeInv', NEW p \in Workers, WorkOK(p), joinQueue(p)
  PROVE  StatementOf(p) /\ WorkOK(p)'
<1> DEFINE u == req[p].user
           s == req[p].slot
           own == SlotsOf(p, slotLock', slots', dbSlots')
           mine == UsersOf(p, userLock', users', dbUsers')
<1>1. /\ pc[p] = "user" /\ req[p].op = "joinQueue" /\ lockUser(p, u)
      /\ UNCHANGED << committed, slotLock, req, full, scan >>
  BY DEF joinQueue
<1>2. PICK a \in {"alreadyEnrolled", "alreadyQueued", "enrolled", "queued"} :
        /\ Reply(p, a)
        /\ \/ a = "alreadyEnrolled" /\ s \in users[u].enrolled /\ UNCHANGED tables
           \/ /\ a = "alreadyQueued" /\ s \notin users[u].enrolled /\ s \in users[u].queued
              /\ UNCHANGED tables
           \/ /\ a = "enrolled" /\ s \notin users[u].enrolled \cup users[u].queued /\ ~full[p]
              /\ slots' = addEntry(slots, u, s) /\ users' = addEnrollment(users, u, s)
           \/ /\ a = "queued" /\ s \notin users[u].enrolled \cup users[u].queued /\ full[p]
              /\ slots' = addToQueue(slots, u, s) /\ users' = addQueuedSlot(users, u, s)
  BY DEF joinQueue, getUserEnrollments, getUserQueuedSlots
<1>3. u \in Users /\ s \in Slots /\ SlotsOK(slots) /\ UsersOK(users)
  BY <1>1, FieldsOf DEF LockInv, NamesOK, SeatOps, TypeInv, TablesOK
<1>4. OneSlotRow(slots, slots', s) /\ OneUserRow(users, users', u)
  <2>1. PICK c \in Capacities : TRUE
    BY CapacitiesAssumption
  <2> QED
    BY <1>2, <1>3, <2>1, NothingWritten, OneSlotWritten, OneUserWritten DEF tables
<1>5. /\ pc'[p] = "commit" /\ answer'[p] = a
      /\ \A q \in Workers \ {p} : /\ pc'[q] = pc[q] /\ next'[q] = next[q]
                                  /\ todo'[q] = todo[q] /\ answer'[q] = answer[q]
  BY <1>1, <1>2 DEF Reply, scan, LockInv, TypeInv, TypeOK
<1>6. SeatWrite(p) /\ StatementOf(p)
  BY <1>1, <1>4, <1>5, SeatWrites DEF SeatOps
<1>7. JoinResult(u, s, a, dbSlots, dbUsers, own, mine)
  <2>1. /\ UNCHANGED tables => Same(dbSlots, dbUsers, own, mine)
        /\ slots' = addEntry(slots, u, s) /\ users' = addEnrollment(users, u, s)
             => Enrolled(u, s, dbSlots, dbUsers, own, mine)
        /\ slots' = addToQueue(slots, u, s) /\ users' = addQueuedSlot(users, u, s)
             => Queued(u, s, dbSlots, dbUsers, own, mine)
    BY <1>6, SeatReplays
  <2>3. Live(dbSlots[s]) /\ (full[p] <=> isAtCapacity(dbSlots, s)) /\ users[u] = dbUsers[u]
    BY <1>1, <1>6 DEF SeatWrite
  <2> HIDE DEF u, s, own, mine
  <2> QED
    BY <1>2, <2>1, <2>3 DEF JoinResult
<1>8. Result(req[p], a, dbSlots, dbUsers, own, mine)
  BY <1>1, <1>7 DEF Result
<1>9. /\ Concerned(req[p], dbSlots) = {u}
      /\ SlotHeld(p, s)' /\ UserHeld(p, u)'
  BY <1>1, <1>3, <1>6 DEF Concerned, SeatOps, SeatWrite
<1>10. WorkOK(p)'
  BY <1>1, <1>5, <1>8, <1>9, ReadyToCommit
<1> QED
  BY <1>6, <1>10

LEMMA leaveQueueKeeps ==
  ASSUME LockInv, TypeInv', NEW p \in Workers, WorkOK(p), leaveQueue(p)
  PROVE  StatementOf(p) /\ WorkOK(p)'
<1> DEFINE u == req[p].user
           s == req[p].slot
           own == SlotsOf(p, slotLock', slots', dbSlots')
           mine == UsersOf(p, userLock', users', dbUsers')
<1>1. /\ pc[p] = "user" /\ req[p].op = "leaveQueue" /\ lockUser(p, u)
      /\ UNCHANGED << committed, slotLock, req, full, scan >>
  BY DEF leaveQueue
<1>2. PICK a \in {"notQueued", "ok"} :
        /\ Reply(p, a)
        /\ \/ a = "notQueued" /\ s \notin users[u].queued /\ UNCHANGED tables
           \/ /\ a = "ok" /\ s \in users[u].queued
              /\ slots' = removeFromQueue(slots, u, s) /\ users' = removeQueuedSlot(users, u, s)
  BY DEF leaveQueue, getUserQueuedSlots
<1>3. u \in Users /\ s \in Slots /\ SlotsOK(slots) /\ UsersOK(users)
  BY <1>1, FieldsOf DEF LockInv, NamesOK, SeatOps, TypeInv, TablesOK
<1>4. OneSlotRow(slots, slots', s) /\ OneUserRow(users, users', u)
  <2>1. PICK c \in Capacities : TRUE
    BY CapacitiesAssumption
  <2> QED
    BY <1>2, <1>3, <2>1, NothingWritten, OneSlotWritten, OneUserWritten DEF tables
<1>5. /\ pc'[p] = "commit" /\ answer'[p] = a
      /\ \A q \in Workers \ {p} : /\ pc'[q] = pc[q] /\ next'[q] = next[q]
                                  /\ todo'[q] = todo[q] /\ answer'[q] = answer[q]
  BY <1>1, <1>2 DEF Reply, scan, LockInv, TypeInv, TypeOK
<1>6. SeatWrite(p) /\ StatementOf(p)
  BY <1>1, <1>4, <1>5, SeatWrites DEF SeatOps
<1>7. LeaveResult(u, s, a, dbSlots, dbUsers, own, mine)
  <2>1. /\ UNCHANGED tables => Same(dbSlots, dbUsers, own, mine)
        /\ slots' = removeFromQueue(slots, u, s) /\ users' = removeQueuedSlot(users, u, s)
             => own = removeFromQueue(dbSlots, u, s) /\ mine = removeQueuedSlot(dbUsers, u, s)
    BY <1>6, SeatReplays
  <2>3. users[u] = dbUsers[u]
    BY <1>1, <1>6 DEF SeatWrite
  <2> HIDE DEF u, s, own, mine
  <2> QED
    BY <1>2, <2>1, <2>3 DEF LeaveResult
<1>8. Result(req[p], a, dbSlots, dbUsers, own, mine)
  BY <1>1, <1>7 DEF Result
<1>9. /\ Concerned(req[p], dbSlots) = {u}
      /\ SlotHeld(p, s)' /\ UserHeld(p, u)'
  BY <1>1, <1>3, <1>6 DEF Concerned, SeatOps, SeatWrite
<1>10. WorkOK(p)'
  BY <1>1, <1>5, <1>8, <1>9, ReadyToCommit
<1> QED
  BY <1>6, <1>10

LEMMA deleteUserEntryKeeps ==
  ASSUME LockInv, TypeInv', NEW p \in Workers, WorkOK(p), deleteUserEntry(p)
  PROVE  StatementOf(p) /\ WorkOK(p)'
<1> DEFINE u == req[p].user
           s == req[p].slot
           own == SlotsOf(p, slotLock', slots', dbSlots')
           mine == UsersOf(p, userLock', users', dbUsers')
           first == getFirstInQueue(removeEntry(slots, u, s), s)
<1>1. /\ pc[p] = "user" /\ req[p].op = "deleteUserEntry" /\ lockUser(p, u)
      /\ slots' = removeEntry(slots, u, s) /\ users' = removeEnrollment(users, u, s)
      /\ next' = [next EXCEPT ![p] = first]
      /\ IF first = NoUser THEN Reply(p, "ok") ELSE Goto(p, "next")
      /\ UNCHANGED << committed, slotLock, req, full, todo >>
  BY DEF deleteUserEntry
<1>2. u \in Users /\ s \in Slots /\ SlotsOK(slots) /\ UsersOK(users)
  BY <1>1, FieldsOf DEF LockInv, NamesOK, SeatOps, TypeInv, TablesOK
<1> HIDE DEF first
<1>3. OneSlotRow(slots, slots', s) /\ OneUserRow(users, users', u)
  <2>1. PICK c \in Capacities : TRUE
    BY CapacitiesAssumption
  <2> QED
    BY <1>1, <1>2, <2>1, OneSlotWritten, OneUserWritten
<1>4. /\ first = NoUser => pc'[p] = "commit" /\ answer'[p] = "ok"
      /\ first # NoUser => pc'[p] = "next"
      /\ next'[p] = first
      /\ \A q \in Workers \ {p} : /\ pc'[q] = pc[q] /\ next'[q] = next[q]
                                  /\ todo'[q] = todo[q] /\ answer'[q] = answer[q]
  BY <1>1 DEF Reply, Goto, LockInv, TypeInv, TypeOK
<1>5. pc'[p] # "idle"
  BY <1>4
<1>6. SeatWrite(p) /\ StatementOf(p)
  BY <1>1, <1>3, <1>4, <1>5, SeatWrites DEF SeatOps
<1>7. /\ SlotsOK(slots) /\ SlotsOK(dbSlots) /\ UsersOK(users) /\ UsersOK(dbUsers)
      /\ SlotsOK(own) /\ UsersOK(mine)
      /\ slots[s] = dbSlots[s]
      /\ SameSlotChange(slots, slots', dbSlots, own, s)
      /\ SameUserChange(users, users', dbUsers, mine, u)
      /\ SlotHeld(p, s)' /\ UserHeld(p, u)'
  BY <1>6 DEF SeatWrite
<1>8. /\ dbSlots' = dbSlots /\ dbUsers' = dbUsers /\ req' = req
  BY <1>1 DEF committed
<1>9. own = removeEntry(dbSlots, u, s)
  <2> HIDE DEF u, s, own, mine
  <2> QED
    BY <1>1, <1>2, <1>7, ReplayUnseat
<1>10. mine = removeEnrollment(dbUsers, u, s)
  <2> HIDE DEF u, s, own, mine
  <2> QED
    BY <1>1, <1>2, <1>7, ReplayUsers
<1>11. getFirstInQueue(removeEntry(dbSlots, u, s), s) = first
  <2> HIDE DEF u, s, own, mine
  <2>1. getFirstInQueue(removeEntry(dbSlots, u, s), s) = getFirstInQueue(removeEntry(slots, u, s), s)
    BY ONLY <1>2, <1>7, ReplayCancel
  <2> QED
    BY <2>1 DEF first
<1>12. CASE first = NoUser
  <2>1. CancelResult(u, s, "ok", dbSlots, dbUsers, own, mine)
    BY <1>9, <1>10, <1>11, <1>12 DEF CancelResult
  <2>2. Result(req[p], "ok", dbSlots, dbUsers, own, mine)
    BY <1>1, <2>1 DEF Result
  <2>3. Concerned(req[p], dbSlots) = {u}
    BY <1>1, <1>2, <1>11, <1>12, NoUserAssumption DEF Concerned, SeatOps
  <2> QED
    BY <1>1, <1>4, <1>6, <1>7, <1>12, <2>2, <2>3, ReadyToCommit
<1>13. CASE first # NoUser
  <2>1. SeatFreed(req[p], first, dbSlots, dbUsers, own, mine)
    BY <1>9, <1>10, <1>11, <1>13 DEF SeatFreed
  <2>2. pc'[p] = "next" /\ next'[p] = first
    BY <1>4, <1>13
  <2>3. WorkOK(p)'
    BY <1>7, <1>8, <2>1, <2>2 DEF WorkOK
  <2> QED
    BY <1>6, <2>3
<1> QED
  BY <1>12, <1>13

LEMMA promoteKeeps ==
  ASSUME LockInv, TypeInv', NEW p \in Workers, WorkOK(p), promote(p)
  PROVE  StatementOf(p) /\ WorkOK(p)'
<1> DEFINE r == req[p]
           u == req[p].user
           s == req[p].slot
           v == next[p]
           sl2 == SlotsOf(p, slotLock, slots, dbSlots)
           us2 == UsersOf(p, userLock, users, dbUsers)
           own == SlotsOf(p, slotLock', slots', dbSlots')
           mine == UsersOf(p, userLock', users', dbUsers')
<1>1. /\ pc[p] = "next" /\ lockUser(p, v)
      /\ slots' = promoteSlots(slots, v, s) /\ users' = promoteUsers(users, v, s)
      /\ Reply(p, "ok")
      /\ UNCHANGED << committed, slotLock, req, full, scan >>
  BY DEF promote
<1>2. r \in Requests /\ r.op = "deleteUserEntry" /\ u \in Users /\ s \in Slots /\ v \in Users
  BY <1>1, FieldsOf DEF LockInv, NamesOK, SeatOps, TypeInv, StepOK
<1>3. /\ SlotsOK(slots) /\ SlotsOK(dbSlots) /\ UsersOK(users) /\ UsersOK(dbUsers)
      /\ SlotsOK(slots') /\ UsersOK(users')
  BY DEF LockInv, TypeInv, TablesOK
<1>4. /\ dbSlots' = dbSlots /\ dbUsers' = dbUsers /\ req' = req
      /\ slotLock' = slotLock /\ full' = full /\ next' = next /\ todo' = todo
  BY <1>1 DEF committed, scan
<1>5. SlotsOK(sl2) /\ UsersOK(us2) /\ SlotsOK(own) /\ UsersOK(mine)
  BY <1>3, <1>4, ViewsOK
<1>6. OneSlotRow(slots, slots', s) /\ OneUserRow(users, users', v)
  <2>1. PICK c \in Capacities : TRUE
    BY CapacitiesAssumption
  <2> HIDE DEF u, s, v
  <2> QED
    BY <1>1, <1>2, <1>3, <2>1, OneSlotWritten, OneUserWritten
<1>7. SlotHeld(p, s) /\ UserHeld(p, u) /\ SeatFreed(r, v, dbSlots, dbUsers, sl2, us2)
  BY <1>1, <1>2 DEF WorkOK
<1>8. /\ SameSlotChange(slots, slots', sl2, own, s)
      /\ Live(dbSlots[s]) => slotLock[s] = p
      /\ \A t \in Slots :
           \/ slots'[t] = slots[t] /\ slotLock[t] = slotLock[t]
           \/ /\ slotLock[t] \in {Nobody, p} /\ slotLock[t] = p
              /\ req[p].slot = t /\ slots'[t].st # "unborn" /\ Live(dbSlots[t])
  <2>1. /\ slotLock[s] = IF Live(dbSlots[s]) THEN p ELSE slotLock[s]
        /\ Live(dbSlots[s]) => slotLock[s] \in {Nobody, p}
    BY <1>2, <1>7, HeldLock
  <2>2. s = req[p].slot /\ req[p].op \notin {"deleteUser", "createSlot"} /\ pc[p] # "idle"
    BY <1>1, <1>2
  <2> HIDE DEF s
  <2> QED
    BY <1>2, <1>4, <1>6, <2>1, <2>2, SlotWrite
<1>9. /\ SameUserChange(users, users', us2, mine, v)
      /\ Live(dbUsers[v]) => userLock'[v] = p
      /\ \A w \in Users : userLock[w] = p => userLock'[w] = p
      /\ \A w \in Users :
           \/ users'[w] = users[w] /\ userLock'[w] = userLock[w]
           \/ userLock[w] \in {Nobody, p} /\ userLock'[w] = p /\ Live(dbUsers[w])
  <2> HIDE DEF v
  <2> QED
    BY <1>1, <1>2, <1>4, <1>6, UserWrite
<1>10. /\ pc'[p] = "commit" /\ answer'[p] = "ok"
       /\ \A q \in Workers \ {p} : pc'[q] = pc[q] /\ answer'[q] = answer[q]
  BY <1>1 DEF Reply, LockInv, TypeInv, TypeOK
<1>11. StatementOf(p)
  BY <1>1, <1>2, <1>4, <1>8, <1>9, <1>10 DEF StatementOf, committed
<1>12. own = promoteSlots(sl2, v, s)
  <2> HIDE DEF u, s, v, sl2, own
  <2> QED
    BY <1>1, <1>2, <1>3, <1>5, <1>8, ReplayPromotion
<1>13. mine = promoteUsers(us2, v, s)
  <2> HIDE DEF u, s, v, us2, mine
  <2> QED
    BY <1>1, <1>2, <1>3, <1>5, <1>9, ReplayUsersPromotion
<1>14. /\ sl2 = removeEntry(dbSlots, u, s) /\ us2 = removeEnrollment(dbUsers, u, s)
       /\ v = getFirstInQueue(removeEntry(dbSlots, u, s), s) /\ v # NoUser
  BY <1>7 DEF SeatFreed
<1>15. Result(r, "ok", dbSlots, dbUsers, own, mine)
  <2> HIDE DEF u, s, v, sl2, us2, own, mine
  <2>1. CancelResult(u, s, "ok", dbSlots, dbUsers, own, mine)
    BY <1>12, <1>13, <1>14 DEF CancelResult
  <2> QED
    BY <1>2, <2>1 DEF Result, u, s
<1>16. Concerned(r, dbSlots) \subseteq {u, v}
  BY <1>2, <1>14 DEF Concerned, SeatOps
<1>17. SlotHeld(p, s)' /\ UserHeld(p, u)' /\ UserHeld(p, v)'
  BY <1>2, <1>4, <1>7, <1>8, <1>9 DEF SlotHeld, UserHeld
<1> QED
  <2>1. \A w \in Concerned(r, dbSlots) : UserHeld(p, w)'
    BY <1>4, <1>16, <1>17 DEF UserHeld
  <2>2. WorkOK(p)'
    BY <1>1, <1>10, <1>15, <1>17, <2>1, ReadyToCommit
  <2> QED
    BY <1>11, <2>2

(* The statement that locks the slot's row: nothing was held before.       *)
SlotStep(p) ==
  LET s == req[p].slot
      own == SlotsOf(p, slotLock', slots', dbSlots')
  IN  /\ req[p] \in Requests /\ s \in Slots /\ req[p].op # "deleteUser"
      /\ SlotsOK(slots) /\ SlotsOK(dbSlots) /\ UsersOK(dbUsers)
      /\ SlotsOK(own)
      /\ slots[s] = dbSlots[s]
      /\ SameSlotChange(slots, slots', dbSlots, own, s)
      /\ UsersOf(p, userLock', users', dbUsers') = dbUsers
      /\ SlotHeld(p, s)'

LEMMA SlotSteps ==
  ASSUME LockInv, TypeInv', NEW p \in Workers, pc[p] = "slot", lockSlot(p, req[p].slot),
         OneSlotRow(slots, slots', req[p].slot),
         UNCHANGED << committed, users, userLock, req >>,
         pc'[p] # "idle",
         \A q \in Workers \ {p} : /\ pc'[q] = pc[q] /\ full'[q] = full[q] /\ next'[q] = next[q]
                                  /\ todo'[q] = todo[q] /\ answer'[q] = answer[q]
  PROVE  SlotStep(p) /\ StatementOf(p)
<1> DEFINE r == req[p]
           s == req[p].slot
           own == SlotsOf(p, slotLock', slots', dbSlots')
<1>1. r \in Requests /\ s \in Slots /\ r.op \notin {"deleteUser", "createSlot"}
  BY FieldsOf DEF LockInv, NamesOK, TypeInv, StepOK, SeatOps
<1>2. /\ dbSlots' = dbSlots /\ dbUsers' = dbUsers /\ users' = users
      /\ userLock' = userLock /\ req' = req
  BY DEF committed
<1>3. (\A t \in Slots : slotLock[t] # p) /\ (\A v \in Users : userLock[v] # p)
  BY DEF LockInv, HoldOK
<1>4. /\ SlotsOf(p, slotLock, slots, dbSlots) = dbSlots
      /\ UsersOf(p, userLock, users, dbUsers) = dbUsers
  BY <1>3, NothingHeld
<1>5. SlotsOK(slots) /\ SlotsOK(dbSlots) /\ UsersOK(dbUsers) /\ SlotsOK(own)
  <2>1. /\ SlotsOK(slots) /\ SlotsOK(dbSlots) /\ UsersOK(users) /\ UsersOK(dbUsers)
        /\ SlotsOK(slots')
    BY DEF LockInv, TypeInv, TablesOK
  <2> QED
    BY <1>2, <2>1, ViewsOK
<1>6. /\ Live(dbSlots[s]) => slotLock[s] \in {Nobody, p}
      /\ slotLock'[s] = IF Live(dbSlots[s]) THEN p ELSE slotLock[s]
      /\ \A t \in Slots \ {s} : slotLock'[t] = slotLock[t]
  BY <1>1 DEF lockSlot, LockInv, TypeInv, TypeOK
<1>7. /\ SameSlotChange(slots, slots', dbSlots, own, s)
      /\ Live(dbSlots[s]) => slotLock'[s] = p
      /\ \A t \in Slots :
           \/ slots'[t] = slots[t] /\ slotLock'[t] = slotLock[t]
           \/ /\ slotLock[t] \in {Nobody, p} /\ slotLock'[t] = p
              /\ req[p].slot = t /\ slots'[t].st # "unborn" /\ Live(dbSlots[t])
  <2> HIDE DEF s
  <2>1. /\ s = req[p].slot /\ OneSlotRow(slots, slots', s)
        /\ pc[p] # "idle" /\ req[p].op \notin {"deleteUser", "createSlot"}
    BY <1>1 DEF s
  <2>2. /\ SameSlotChange(slots, slots', SlotsOf(p, slotLock, slots, dbSlots),
                          SlotsOf(p, slotLock', slots', dbSlots), s)
        /\ Live(dbSlots[s]) => slotLock'[s] = p
        /\ \A t \in Slots :
             \/ slots'[t] = slots[t] /\ slotLock'[t] = slotLock[t]
             \/ /\ slotLock[t] \in {Nobody, p} /\ slotLock'[t] = p
                /\ req[p].slot = t /\ slots'[t].st # "unborn" /\ Live(dbSlots[t])
    BY <1>1, <1>6, <2>1, SlotWrite
  <2> QED
    BY <1>2, <1>4, <2>2
<1>8. slots[s] = dbSlots[s]
  BY <1>7 DEF SameSlotChange
<1>9. SlotHeld(p, s)'
  BY <1>2, <1>7 DEF SlotHeld
<1>10. SlotStep(p)
  BY <1>1, <1>2, <1>4, <1>5, <1>7, <1>8, <1>9 DEF SlotStep
<1>11. StatementOf(p)
  BY <1>1, <1>2, <1>7 DEF StatementOf, committed
<1> QED
  BY <1>10, <1>11

LEMMA LockSlotKeeps ==
  ASSUME LockInv, TypeInv', NEW p \in Workers, LockSlot(p)
  PROVE  StatementOf(p) /\ WorkOK(p)'
<1> DEFINE s == req[p].slot
           own == SlotsOf(p, slotLock', slots', dbSlots')
           seeks == req[p].op \in {"addUserEntry", "joinQueue"}
<1>1. /\ pc[p] = "slot" /\ req[p].op \in SeatOps /\ lockSlot(p, s)
      /\ UNCHANGED << committed, tables, userLock, req, scan >>
      /\ \/ seeks /\ ~Live(slots[s]) /\ Goto(p, "unwind") /\ UNCHANGED full
         \/ /\ ~seeks \/ Live(slots[s])
            /\ full' = [full EXCEPT ![p] = seeks /\ isAtCapacity(slots, s)]
            /\ Goto(p, "user")
  BY DEF LockSlot
<1>2. /\ pc'[p] \in {"unwind", "user"}
      /\ \A q \in Workers \ {p} : /\ pc'[q] = pc[q] /\ full'[q] = full[q] /\ next'[q] = next[q]
                                  /\ todo'[q] = todo[q] /\ answer'[q] = answer[q]
  BY <1>1 DEF Goto, scan, LockInv, TypeInv, TypeOK
<1>3. pc'[p] = "user" => ~seeks \/ (Live(slots[s]) /\ (full'[p] <=> isAtCapacity(slots, s)))
  BY <1>1 DEF Goto, LockInv, TypeInv, TypeOK
<1>4. SlotStep(p) /\ StatementOf(p)
  BY <1>1, <1>2, NothingWritten, SlotSteps DEF tables
<1>5. /\ s \in Slots /\ SlotsOK(dbSlots) /\ SlotsOK(own)
      /\ slots[s] = dbSlots[s]
      /\ SameSlotChange(slots, slots', dbSlots, own, s)
      /\ UsersOf(p, userLock', users', dbUsers') = dbUsers
      /\ SlotHeld(p, s)'
  BY <1>4 DEF SlotStep
<1>6. own = dbSlots
  <2>1. \A t \in Slots : own[t] = dbSlots[t]
    BY <1>1, <1>5 DEF SameSlotChange, tables
  <2> QED
    BY <1>5, <2>1 DEF SlotsOK
<1>7. dbSlots' = dbSlots /\ dbUsers' = dbUsers /\ req' = req
  BY <1>1 DEF committed
<1>8. pc'[p] = "user" => SeatRead(req[p], full'[p], dbSlots, dbUsers, own, dbUsers)
  BY <1>3, <1>5, <1>6 DEF SeatRead, Same, isAtCapacity
<1>9. WorkOK(p)'
  BY <1>2, <1>5, <1>7, <1>8 DEF WorkOK
<1> QED
  BY <1>4, <1>9

LEMMA patchSlotKeeps ==
  ASSUME LockInv, TypeInv', NEW p \in Workers, patchSlot(p)
  PROVE  StatementOf(p) /\ WorkOK(p)'
<1> DEFINE s == req[p].slot
           c == req[p].cap
           own == SlotsOf(p, slotLock', slots', dbSlots')
<1>1. /\ pc[p] = "slot" /\ req[p].op = "patchSlot" /\ lockSlot(p, s)
      /\ slots' = changeSlotInfo(slots, s, c)
      /\ Reply(p, "ok")
      /\ UNCHANGED << committed, users, userLock, req, full, scan >>
  BY DEF patchSlot
<1>2. /\ pc'[p] = "commit" /\ answer'[p] = "ok"
      /\ \A q \in Workers \ {p} : /\ pc'[q] = pc[q] /\ full'[q] = full[q] /\ next'[q] = next[q]
                                  /\ todo'[q] = todo[q] /\ answer'[q] = answer[q]
  BY <1>1 DEF Reply, scan, LockInv, TypeInv, TypeOK
<1>3. s \in Slots /\ c \in Capacities /\ SlotsOK(slots)
  BY <1>1, FieldsOf DEF LockInv, NamesOK, TypeInv, TablesOK
<1>4. OneSlotRow(slots, slots', s)
  <2>1. CASE Users = {}
    <3> HIDE DEF s, c
    <3> QED
      BY <1>1, <1>3 DEF SlotsOK, SlotRow, OneSlotRow, changeSlotInfo, OnSlot, Live
  <2>2. CASE Users # {}
    <3>1. PICK u \in Users : TRUE
      BY <2>2
    <3> HIDE DEF s, c
    <3> QED
      BY <1>1, <1>3, <3>1, OneSlotWritten
  <2> QED
    BY <2>1, <2>2
<1>5. SlotStep(p) /\ StatementOf(p)
  BY <1>1, <1>2, <1>4, SlotSteps
<1>6. /\ SlotsOK(dbSlots) /\ SlotsOK(own)
      /\ SameSlotChange(slots, slots', dbSlots, own, s)
      /\ UsersOf(p, userLock', users', dbUsers') = dbUsers
      /\ SlotHeld(p, s)'
  BY <1>5 DEF SlotStep
<1>7. own = changeSlotInfo(dbSlots, s, c)
  <2> HIDE DEF s, c, own
  <2> QED
    BY <1>1, <1>3, <1>6, ReplayInsert
<1>8. Result(req[p], "ok", dbSlots, dbUsers, own, dbUsers)
  BY <1>1, <1>7 DEF Result
<1>9. Concerned(req[p], dbSlots) = {}
  BY <1>1 DEF Concerned, SeatOps
<1> QED
  BY <1>1, <1>2, <1>5, <1>6, <1>8, <1>9, ReadyToCommit

LEMMA createSlotKeeps ==
  ASSUME LockInv, TypeInv', NEW p \in Workers, createSlot(p)
  PROVE  StatementOf(p) /\ WorkOK(p)'
<1> DEFINE s == req[p].slot
           c == req[p].cap
           own == SlotsOf(p, slotLock', slots', dbSlots')
           mine == UsersOf(p, userLock', users', dbUsers')
<1>1. /\ pc[p] = "insert"
      /\ slots' = insertSlot(slots, s, c)
      /\ slotLock' = [slotLock EXCEPT ![s] = p]
      /\ Reply(p, "ok")
      /\ UNCHANGED << committed, users, userLock, req, full, scan >>
  BY DEF createSlot
<1>2. /\ pc'[p] = "commit" /\ answer'[p] = "ok"
      /\ \A q \in Workers \ {p} : /\ pc'[q] = pc[q] /\ full'[q] = full[q] /\ next'[q] = next[q]
                                  /\ todo'[q] = todo[q] /\ answer'[q] = answer[q]
  BY <1>1 DEF Reply, scan, LockInv, TypeInv, TypeOK
<1>3. /\ req[p].op = "createSlot" /\ s \in Slots /\ c \in Capacities
      /\ SlotsOK(slots) /\ SlotsOK(dbSlots) /\ dbSlots[s].st = "unborn"
      /\ slotLock \in [Slots -> Workers \cup {Nobody}]
  BY <1>1, FieldsOf DEF LockInv, NamesOK, Nameable, TypeInv, TypeOK, StepOK, TablesOK
<1>4. slotLock[s] = Nobody
  <2> SUFFICES ASSUME slotLock[s] # Nobody PROVE FALSE
    OBVIOUS
  <2>1. PICK q \in Workers : slotLock[s] = q
    BY <1>3
  <2>2. req[q].slot = s /\ req[q].op = "createSlot"
    BY <1>3, <2>1 DEF LockInv, LocksOK, Live
  <2>3. q # p
    BY <1>1, <1>3, <2>1 DEF LockInv, HoldOK
  <2> QED
    BY <1>3, <2>2, <2>3 DEF LockInv, NamesOK
<1>5. dbSlots' = dbSlots /\ dbUsers' = dbUsers /\ users' = users /\ userLock' = userLock
  BY <1>1 DEF committed
<1>6. (\A t \in Slots : slotLock[t] # p) /\ (\A v \in Users : userLock[v] # p)
  BY <1>1 DEF LockInv, HoldOK
<1>7. mine = dbUsers
  BY <1>5, <1>6, NothingHeld
<1>8. own = insertSlot(dbSlots, s, c)
  <2>1. \A t \in Slots : slotLock'[t] = p <=> t = s
    BY <1>1, <1>3, <1>6
  <2>2. \A t \in Slots : own[t] = IF t = s THEN insertSlot(slots, s, c)[s] ELSE dbSlots[t]
    BY <1>1, <1>5, <2>1 DEF SlotsOf
  <2>3. DOMAIN dbSlots = Slots /\ DOMAIN slots = Slots /\ own = [t \in Slots |-> own[t]]
    BY <1>3 DEF SlotsOK, SlotsOf
  <2> HIDE DEF own, s, c
  <2> QED
    BY <1>3, <2>2, <2>3 DEF insertSlot
<1>9. Result(req[p], "ok", dbSlots, dbUsers, own, mine)
  BY <1>3, <1>7, <1>8 DEF Result
<1>10. Concerned(req[p], dbSlots) = {}
  BY <1>3 DEF Concerned, SeatOps
<1>11. SlotHeld(p, s)'
  BY <1>1, <1>3, <1>5 DEF SlotHeld, Live
<1>12. WorkOK(p)'
  BY <1>1, <1>2, <1>9, <1>10, <1>11, ReadyToCommit
<1>13. StatementOf(p)
  <2>1. slots'[s].st # "unborn" /\ \A t \in Slots \ {s} : slots'[t] = slots[t]
    BY <1>1, <1>3 DEF insertSlot, EmptySlot, SlotsOK
  <2>2. slotLock'[s] = p /\ \A t \in Slots \ {s} : slotLock'[t] = slotLock[t]
    BY <1>1, <1>3
  <2> QED
    BY <1>1, <1>2, <1>3, <1>4, <1>5, <2>1, <2>2 DEF StatementOf, committed
<1> QED
  BY <1>12, <1>13

LEMMA deleteUserKeeps ==
  ASSUME LockInv, TypeInv', NEW p \in Workers, WorkOK(p), deleteUser(p)
  PROVE  StatementOf(p) /\ WorkOK(p)'
<1> DEFINE u == req[p].user
           own == SlotsOf(p, slotLock', slots', dbSlots')
           us2 == UsersOf(p, userLock, users, dbUsers)
           mine == UsersOf(p, userLock', users', dbUsers')
<1>1. /\ pc[p] = "user" /\ req[p].op = "deleteUser" /\ lockUser(p, u)
      /\ users' = deleteUserRow(users, u)
      /\ Reply(p, "ok")
      /\ UNCHANGED << committed, slots, slotLock, req, full, scan >>
  BY DEF deleteUser
<1>2. /\ pc'[p] = "commit" /\ answer'[p] = "ok"
      /\ \A q \in Workers \ {p} : pc'[q] = pc[q] /\ answer'[q] = answer[q]
  BY <1>1 DEF Reply, LockInv, TypeInv, TypeOK
<1>3. /\ dbSlots' = dbSlots /\ dbUsers' = dbUsers /\ slots' = slots /\ slotLock' = slotLock
      /\ req' = req /\ full' = full /\ next' = next /\ todo' = todo
  BY <1>1 DEF committed, scan
<1>4. u \in Users
  BY <1>1, FieldsOf DEF LockInv, NamesOK
<1>5. UsersOK(users) /\ UsersOK(dbUsers) /\ UsersOK(us2) /\ UsersOK(mine)
  <2>1. /\ UsersOK(users) /\ UsersOK(dbUsers) /\ UsersOK(users')
        /\ SlotsOK(slots) /\ SlotsOK(dbSlots)
    BY DEF LockInv, TypeInv, TablesOK
  <2> QED
    BY <1>3, <2>1, ViewsOK
<1>6. own = dbSlots /\ us2 = dbUsers
  BY <1>1, <1>3 DEF WorkOK, SeatRead, Same
<1>7. OneUserRow(users, users', u)
  <2> HIDE DEF u
  <2> QED
    BY <1>1, <1>4, <1>5 DEF OneUserRow, deleteUserRow, OnUser, UsersOK
<1>8. /\ SameUserChange(users, users', us2, mine, u)
      /\ Live(dbUsers[u]) => userLock'[u] = p
      /\ \A v \in Users :
           \/ users'[v] = users[v] /\ userLock'[v] = userLock[v]
           \/ userLock[v] \in {Nobody, p} /\ userLock'[v] = p /\ Live(dbUsers[v])
  BY <1>1, <1>3, <1>4, <1>7, UserWrite
<1>9. StatementOf(p)
  BY <1>1, <1>2, <1>3, <1>8 DEF StatementOf, committed
<1>10. mine = deleteUserRow(dbUsers, u)
  <2> HIDE DEF u, us2, mine
  <2> QED
    BY <1>1, <1>4, <1>5, <1>6, <1>8, ReplayDeleteUser
<1>11. Result(req[p], "ok", dbSlots, dbUsers, own, mine)
  BY <1>1, <1>6, <1>10 DEF Result
<1>12. \A v \in Concerned(req[p], dbSlots) : UserHeld(p, v)'
  BY <1>1, <1>3, <1>8 DEF Concerned, UserHeld
<1>13. WorkOK(p)'
  BY <1>1, <1>2, <1>11, <1>12, ReadyToCommit
<1> QED
  BY <1>9, <1>13

LEMMA VisitLeft ==
  ASSUME LockInv, NEW p \in Workers, NEW us \in SUBSET Users, Visit(p, us)
  PROVE  /\ Left(p)' = us
         /\ next'[p] = NoUser => todo'[p] = {}
         /\ next'[p] \notin todo'[p]
         /\ \A q \in Workers \ {p} : next'[q] = next[q] /\ todo'[q] = todo[q]
<1>1. /\ next \in [Workers -> Users \cup {NoUser}] /\ todo \in [Workers -> SUBSET Users]
  BY DEF LockInv, TypeInv, TypeOK
<1>2. CASE us = {} /\ next' = [next EXCEPT ![p] = NoUser] /\ todo' = [todo EXCEPT ![p] = {}]
  BY <1>1, <1>2 DEF Left
<1>3. CASE us # {} /\ \E u \in us :
             next' = [next EXCEPT ![p] = u] /\ todo' = [todo EXCEPT ![p] = us \ {u}]
  BY <1>1, <1>3, NoUserAssumption DEF Left
<1> QED
  BY <1>2, <1>3 DEF Visit

LEMMA deleteSlotKeeps ==
  ASSUME LockInv, TypeInv', NEW p \in Workers, deleteSlot(p)
  PROVE  StatementOf(p) /\ WorkOK(p)'
<1> DEFINE s == req[p].slot
           L == Members(slots[s].enrolled)
           own == SlotsOf(p, slotLock', slots', dbSlots')
<1>1. /\ pc[p] = "slot" /\ req[p].op = "deleteSlot" /\ lockSlot(p, s)
      /\ Visit(p, L)
      /\ Goto(p, "strikeEnrolled")
      /\ UNCHANGED << committed, tables, userLock, req, full >>
  BY DEF deleteSlot
<1>2. s \in Slots /\ L \in SUBSET Users
  <2>1. s \in Slots
    BY <1>1, FieldsOf DEF LockInv, NamesOK
  <2> QED
    BY <2>1, LocalTypes DEF LockInv
<1>3. /\ pc'[p] = "strikeEnrolled" /\ Left(p)' = L
      /\ next'[p] = NoUser => todo'[p] = {}
      /\ next'[p] \notin todo'[p]
      /\ \A q \in Workers \ {p} : /\ pc'[q] = pc[q] /\ full'[q] = full[q] /\ next'[q] = next[q]
                                  /\ todo'[q] = todo[q] /\ answer'[q] = answer[q]
  BY <1>1, <1>2, VisitLeft DEF Goto, LockInv, TypeInv, TypeOK
<1>4. SlotStep(p) /\ StatementOf(p)
  BY <1>1, <1>3, NothingWritten, SlotSteps DEF tables
<1>5. /\ SlotsOK(dbSlots) /\ SlotsOK(own)
      /\ slots[s] = dbSlots[s]
      /\ SameSlotChange(slots, slots', dbSlots, own, s)
      /\ UsersOf(p, userLock', users', dbUsers') = dbUsers
      /\ SlotHeld(p, s)'
  BY <1>4 DEF SlotStep
<1>6. own = dbSlots
  <2>1. \A t \in Slots : own[t] = dbSlots[t]
    BY <1>1, <1>5 DEF SameSlotChange, tables
  <2> QED
    BY <1>5, <2>1 DEF SlotsOK
<1>7. dbSlots' = dbSlots /\ dbUsers' = dbUsers /\ req' = req
  BY <1>1 DEF committed
<1>8. L = Members(dbSlots[s].enrolled)
  BY <1>5
<1> HIDE DEF L
<1>9. /\ StruckEnrolled("strikeEnrolled", s, L, dbSlots) = {}
      /\ StruckQueued("strikeEnrolled", s, L, dbSlots) = {}
  BY <1>8 DEF StruckEnrolled, StruckQueued
<1>10. StruckSome("strikeEnrolled", req[p], L, dbSlots, dbUsers, own, dbUsers)
  BY <1>6, <1>8, <1>9 DEF StruckSome, StruckRow
<1>11. WorkOK(p)'
  BY <1>3, <1>5, <1>7, <1>9, <1>10 DEF WorkOK
<1> QED
  BY <1>4, <1>11

(* The visit of one user, by either of deleteSlot's first two statements.  *)
LEMMA VisitKeeps ==
  ASSUME LockInv, TypeInv', NEW p \in Workers, WorkOK(p),
         pc[p] \in {"strikeEnrolled", "strikeQueued"}, next[p] # NoUser,
         lockUser(p, next[p]), OneUserRow(users, users', next[p]), Visit(p, todo[p]),
         UNCHANGED << committed, slots, slotLock, pc, req, full, answer >>
  PROVE  LET v == next[p] s == req[p].slot
             own == SlotsOf(p, slotLock', slots', dbSlots')
             us2 == UsersOf(p, userLock, users, dbUsers)
             mine == UsersOf(p, userLock', users', dbUsers')
         IN  /\ StatementOf(p)
             /\ v \in Users /\ s \in Slots /\ v \notin todo[p] /\ Left(p) = todo[p] \cup {v}
             /\ UsersOK(users) /\ UsersOK(us2) /\ UsersOK(mine)
             /\ SameUserChange(users, users', us2, mine, v)
             /\ own = dbSlots
             /\ StruckSome(pc[p], req[p], Left(p), dbSlots, dbUsers, own, us2)
             /\ Live(dbUsers[v]) => userLock'[v] = p
             /\ \A w \in Users : UserHeld(p, w) => (Live(dbUsers[w]) => userLock'[w] = p)
             /\ SlotHeld(p, s)
             /\ \A w \in StruckEnrolled(pc[p], s, Left(p), dbSlots)
                       \cup StruckQueued(pc[p], s, Left(p), dbSlots) : UserHeld(p, w)
             /\ Left(p)' = todo[p] /\ (next'[p] = NoUser => todo'[p] = {})
             /\ next'[p] \notin todo'[p]
<1> DEFINE v == next[p]
           s == req[p].slot
           own == SlotsOf(p, slotLock', slots', dbSlots')
           us2 == UsersOf(p, userLock, users, dbUsers)
           mine == UsersOf(p, userLock', users', dbUsers')
<1>1. /\ v \in Users /\ todo[p] \in SUBSET Users
      /\ req[p].op = "deleteSlot" /\ s \in Slots
  BY FieldsOf DEF LockInv, NamesOK, TypeInv, TypeOK, StepOK
<1>2. /\ dbSlots' = dbSlots /\ dbUsers' = dbUsers /\ slots' = slots /\ slotLock' = slotLock
      /\ pc' = pc /\ req' = req /\ full' = full /\ answer' = answer
  BY DEF committed
<1>3. UsersOK(users) /\ UsersOK(dbUsers) /\ UsersOK(us2) /\ UsersOK(mine)
  <2>1. /\ UsersOK(users) /\ UsersOK(dbUsers) /\ UsersOK(users')
        /\ SlotsOK(slots) /\ SlotsOK(dbSlots)
    BY DEF LockInv, TypeInv, TablesOK
  <2> QED
    BY <1>2, <2>1, ViewsOK
<1>4. /\ SlotHeld(p, s) /\ v \notin todo[p]
      /\ StruckSome(pc[p], req[p], Left(p), dbSlots, dbUsers,
                    SlotsOf(p, slotLock, slots, dbSlots), us2)
      /\ \A w \in StruckEnrolled(pc[p], s, Left(p), dbSlots) : UserHeld(p, w)
      /\ \A w \in StruckQueued(pc[p], s, Left(p), dbSlots) : UserHeld(p, w)
  BY <1>1 DEF WorkOK
<1>5. own = SlotsOf(p, slotLock, slots, dbSlots) /\ own = dbSlots
  BY <1>2, <1>4 DEF StruckSome
<1>6. /\ Left(p)' = todo[p] /\ (next'[p] = NoUser => todo'[p] = {})
      /\ next'[p] \notin todo'[p]
      /\ \A q \in Workers \ {p} : next'[q] = next[q] /\ todo'[q] = todo[q]
  BY <1>1, VisitLeft
<1>7. Left(p) = todo[p] \cup {v}
  BY DEF Left
<1>8. /\ SameUserChange(users, users', us2, mine, v)
      /\ Live(dbUsers[v]) => userLock'[v] = p
      /\ \A w \in Users : userLock[w] = p => userLock'[w] = p
      /\ \A w \in Users :
           \/ users'[w] = users[w] /\ userLock'[w] = userLock[w]
           \/ userLock[w] \in {Nobody, p} /\ userLock'[w] = p /\ Live(dbUsers[w])
  BY <1>1, <1>2, UserWrite
<1>9. StatementOf(p)
  BY <1>1, <1>2, <1>6, <1>8 DEF StatementOf, committed
<1>10. \A w \in Users : UserHeld(p, w) => (Live(dbUsers[w]) => userLock'[w] = p)
  BY <1>8 DEF UserHeld
<1> QED
  BY <1>1, <1>3, <1>4, <1>5, <1>6, <1>7, <1>8, <1>9, <1>10

LEMMA StrikeOne ==
  ASSUME NEW us, UsersOK(us), NEW db, NEW s \in Slots, NEW v \in Users, NEW e, NEW q,
         StruckRow(us[v], db, e, q, s)
  PROVE  /\ StruckRow(removeEnrollment(us, v, s)[v], db, TRUE, q, s)
         /\ StruckRow(removeQueuedSlot(us, v, s)[v], db, e, TRUE, s)
<1>1. ~Live(us[v]) => us[v].enrolled = {} /\ us[v].queued = {}
  BY DEF UsersOK
<1>2. /\ us[v].st = db.st
      /\ us[v].enrolled = IF e THEN db.enrolled \ {s} ELSE db.enrolled
      /\ us[v].queued = IF q THEN db.queued \ {s} ELSE db.queued
  BY DEF StruckRow
<1>3. /\ ListsAfter(removeEnrollment(us, v, s)[v], us[v], v = v, us[v].enrolled \ {s}, us[v].queued)
      /\ ListsAfter(removeQueuedSlot(us, v, s)[v], us[v], v = v, us[v].enrolled, us[v].queued \ {s})
  BY UserLists
<1>4. /\ us[v].enrolled \ {s} = db.enrolled \ {s}
      /\ us[v].queued \ {s} = db.queued \ {s}
  BY <1>2
<1>5. removeEnrollment(us, v, s)[v].enrolled = db.enrolled \ {s}
  BY <1>1, <1>3, <1>4 DEF ListsAfter
<1>6. removeQueuedSlot(us, v, s)[v].queued = db.queued \ {s}
  BY <1>1, <1>3, <1>4 DEF ListsAfter
<1> QED
  BY <1>2, <1>3, <1>5, <1>6 DEF ListsAfter, StruckRow

LEMMA strikeEnrolledKeeps ==
  ASSUME LockInv, TypeInv', NEW p \in Workers, WorkOK(p), strikeEnrolled(p)
  PROVE  StatementOf(p) /\ WorkOK(p)'
<1> DEFINE v == next[p]
           s == req[p].slot
           M == Members(dbSlots[s].enrolled)
           own == SlotsOf(p, slotLock', slots', dbSlots')
           us2 == UsersOf(p, userLock, users, dbUsers)
           mine == UsersOf(p, userLock', users', dbUsers')
<1>1. /\ pc[p] = "strikeEnrolled" /\ v # NoUser /\ lockUser(p, v)
      /\ users' = removeEnrollment(users, v, s) /\ Visit(p, todo[p])
      /\ UNCHANGED << committed, slots, slotLock, pc, req, full, answer >>
  BY DEF strikeEnrolled
<1>2. /\ v \in Users /\ s \in Slots
  BY <1>1, FieldsOf DEF LockInv, NamesOK, TypeInv, TypeOK, StepOK
<1>3. OneUserRow(users, users', v)
  <2> HIDE DEF v, s
  <2> QED
    BY <1>1, <1>2, OneUserWritten DEF LockInv, TypeInv, TablesOK
<1>4. /\ StatementOf(p)
      /\ v \notin todo[p] /\ Left(p) = todo[p] \cup {v}
      /\ UsersOK(users) /\ UsersOK(us2) /\ UsersOK(mine)
      /\ SameUserChange(users, users', us2, mine, v)
      /\ own = dbSlots
      /\ StruckSome(pc[p], req[p], Left(p), dbSlots, dbUsers, own, us2)
      /\ Live(dbUsers[v]) => userLock'[v] = p
      /\ \A w \in Users : UserHeld(p, w) => (Live(dbUsers[w]) => userLock'[w] = p)
      /\ SlotHeld(p, s)
      /\ \A w \in StruckEnrolled(pc[p], s, Left(p), dbSlots)
                \cup StruckQueued(pc[p], s, Left(p), dbSlots) : UserHeld(p, w)
      /\ Left(p)' = todo[p] /\ (next'[p] = NoUser => todo'[p] = {})
      /\ next'[p] \notin todo'[p]
  BY <1>1, <1>3, VisitKeeps
<1>5. /\ dbSlots' = dbSlots /\ dbUsers' = dbUsers /\ slotLock' = slotLock
      /\ pc'[p] = "strikeEnrolled" /\ req' = req
  BY <1>1 DEF committed
<1>6. mine = removeEnrollment(us2, v, s)
  <2> HIDE DEF v, s, us2, mine
  <2> QED
    BY <1>1, <1>2, <1>4, ReplayUsers
<1>7. /\ v \in M /\ todo[p] \subseteq M
      /\ StruckEnrolled("strikeEnrolled", s, todo[p], dbSlots)
           = StruckEnrolled("strikeEnrolled", s, Left(p), dbSlots) \cup {v}
      /\ v \notin StruckEnrolled("strikeEnrolled", s, Left(p), dbSlots)
      /\ \A L : StruckQueued("strikeEnrolled", s, L, dbSlots) = {}
  BY <1>1, <1>2, <1>4 DEF StruckSome, StruckEnrolled, StruckQueued
<1> HIDE DEF v, s, M, own, us2, mine
<1>8. ASSUME NEW w \in Users
      PROVE  StruckRow(mine[w], dbUsers[w],
                       w \in StruckEnrolled("strikeEnrolled", s, todo[p], dbSlots),
                       w \in StruckQueued("strikeEnrolled", s, todo[p], dbSlots), s)
  <2>1. StruckRow(us2[w], dbUsers[w],
                  w \in StruckEnrolled("strikeEnrolled", s, Left(p), dbSlots),
                  w \in StruckQueued("strikeEnrolled", s, Left(p), dbSlots), s)
    BY <1>1, <1>4 DEF StruckSome, s
  <2>2. CASE w # v
    <3>1. mine[w] = us2[w]
      BY <1>4, <2>2 DEF SameUserChange
    <3> QED
      BY <1>7, <2>1, <2>2, <3>1 DEF StruckRow
  <2>3. CASE w = v
    <3>1. StruckRow(us2[v], dbUsers[v], FALSE, FALSE, s)
      BY <1>7, <2>1, <2>3 DEF StruckRow
    <3>2. StruckRow(mine[v], dbUsers[v], TRUE, FALSE, s)
      BY <1>2, <1>4, <1>6, <3>1, StrikeOne
    <3> QED
      BY <1>7, <2>3, <3>2 DEF StruckRow
  <2> QED
    BY <2>2, <2>3
<1>9. StruckSome("strikeEnrolled", req[p], todo[p], dbSlots, dbUsers, own, mine)
  BY <1>4, <1>7, <1>8 DEF StruckSome, s, M
<1>10. /\ \A w \in StruckEnrolled("strikeEnrolled", s, todo[p], dbSlots) : UserHeld(p, w)'
       /\ \A w \in StruckQueued("strikeEnrolled", s, todo[p], dbSlots) : UserHeld(p, w)'
  <2>1. \A w \in StruckEnrolled("strikeEnrolled", s, Left(p), dbSlots) :
           w \in Users /\ UserHeld(p, w)
    BY <1>1, <1>4 DEF StruckEnrolled
  <2> QED
    BY <1>4, <1>5, <1>7, <2>1 DEF UserHeld
<1>11. SlotHeld(p, s) /\ dbSlots' = dbSlots /\ slotLock' = slotLock
  BY <1>4, <1>5
<1>12. WorkOK(p)'
  BY <1>4, <1>5, <1>9, <1>10, <1>11 DEF WorkOK, SlotHeld, s, own, mine
<1> QED
  BY <1>4, <1>12

LEMMA strikeQueuedKeeps ==
  ASSUME LockInv, TypeInv', NEW p \in Workers, WorkOK(p), strikeQueued(p)
  PROVE  StatementOf(p) /\ WorkOK(p)'
<1> DEFINE v == next[p]
           s == req[p].slot
           M == Members(dbSlots[s].queue)
           own == SlotsOf(p, slotLock', slots', dbSlots')
           us2 == UsersOf(p, userLock, users, dbUsers)
           mine == UsersOf(p, userLock', users', dbUsers')
<1>1. /\ pc[p] = "strikeQueued" /\ v # NoUser /\ lockUser(p, v)
      /\ users' = removeQueuedSlot(users, v, s) /\ Visit(p, todo[p])
      /\ UNCHANGED << committed, slots, slotLock, pc, req, full, answer >>
  BY DEF strikeQueued
<1>2. /\ v \in Users /\ s \in Slots
  BY <1>1, FieldsOf DEF LockInv, NamesOK, TypeInv, TypeOK, StepOK
<1>3. OneUserRow(users, users', v)
  <2> HIDE DEF v, s
  <2> QED
    BY <1>1, <1>2, OneUserWritten DEF LockInv, TypeInv, TablesOK
<1>4. /\ StatementOf(p)
      /\ v \notin todo[p] /\ Left(p) = todo[p] \cup {v}
      /\ UsersOK(users) /\ UsersOK(us2) /\ UsersOK(mine)
      /\ SameUserChange(users, users', us2, mine, v)
      /\ own = dbSlots
      /\ StruckSome(pc[p], req[p], Left(p), dbSlots, dbUsers, own, us2)
      /\ Live(dbUsers[v]) => userLock'[v] = p
      /\ \A w \in Users : UserHeld(p, w) => (Live(dbUsers[w]) => userLock'[w] = p)
      /\ SlotHeld(p, s)
      /\ \A w \in StruckEnrolled(pc[p], s, Left(p), dbSlots)
                \cup StruckQueued(pc[p], s, Left(p), dbSlots) : UserHeld(p, w)
      /\ Left(p)' = todo[p] /\ (next'[p] = NoUser => todo'[p] = {})
      /\ next'[p] \notin todo'[p]
  BY <1>1, <1>3, VisitKeeps
<1>5. /\ dbSlots' = dbSlots /\ dbUsers' = dbUsers /\ slotLock' = slotLock
      /\ pc'[p] = "strikeQueued" /\ req' = req
  BY <1>1 DEF committed
<1>6. mine = removeQueuedSlot(us2, v, s)
  <2> HIDE DEF v, s, us2, mine
  <2> QED
    BY <1>1, <1>2, <1>4, ReplayUsers
<1>7. /\ v \in M /\ todo[p] \subseteq M
      /\ StruckQueued("strikeQueued", s, todo[p], dbSlots)
           = StruckQueued("strikeQueued", s, Left(p), dbSlots) \cup {v}
      /\ v \notin StruckQueued("strikeQueued", s, Left(p), dbSlots)
      /\ StruckEnrolled("strikeQueued", s, todo[p], dbSlots)
           = StruckEnrolled("strikeQueued", s, Left(p), dbSlots)
  BY <1>1, <1>2, <1>4 DEF StruckSome, StruckEnrolled, StruckQueued
<1> HIDE DEF v, s, M, own, us2, mine
<1>8. ASSUME NEW w \in Users
      PROVE  StruckRow(mine[w], dbUsers[w],
                       w \in StruckEnrolled("strikeQueued", s, todo[p], dbSlots),
                       w \in StruckQueued("strikeQueued", s, todo[p], dbSlots), s)
  <2>1. StruckRow(us2[w], dbUsers[w],
                  w \in StruckEnrolled("strikeQueued", s, Left(p), dbSlots),
                  w \in StruckQueued("strikeQueued", s, Left(p), dbSlots), s)
    BY <1>1, <1>4 DEF StruckSome, s
  <2>2. CASE w # v
    <3>1. mine[w] = us2[w]
      BY <1>4, <2>2 DEF SameUserChange
    <3> QED
      BY <1>7, <2>1, <2>2, <3>1 DEF StruckRow
  <2>3. CASE w = v
    <3> DEFINE e == v \in StruckEnrolled("strikeQueued", s, Left(p), dbSlots)
    <3>1. StruckRow(us2[v], dbUsers[v], e, FALSE, s)
      BY <1>7, <2>1, <2>3 DEF StruckRow
    <3> HIDE DEF e
    <3>2. StruckRow(mine[v], dbUsers[v], e, TRUE, s)
      BY <1>2, <1>4, <1>6, <3>1, StrikeOne
    <3> QED
      BY <1>7, <2>3, <3>2 DEF StruckRow, e
  <2> QED
    BY <2>2, <2>3
<1>9. StruckSome("strikeQueued", req[p], todo[p], dbSlots, dbUsers, own, mine)
  BY <1>4, <1>7, <1>8 DEF StruckSome, s, M
<1>10. /\ \A w \in StruckEnrolled("strikeQueued", s, todo[p], dbSlots) : UserHeld(p, w)'
       /\ \A w \in StruckQueued("strikeQueued", s, todo[p], dbSlots) : UserHeld(p, w)'
  <2>1. \A w \in StruckEnrolled("strikeQueued", s, Left(p), dbSlots)
                 \cup StruckQueued("strikeQueued", s, Left(p), dbSlots) :
           w \in Users /\ UserHeld(p, w)
    BY <1>1, <1>4 DEF StruckEnrolled, StruckQueued
  <2> QED
    BY <1>4, <1>5, <1>7, <2>1 DEF UserHeld
<1>11. SlotHeld(p, s) /\ dbSlots' = dbSlots /\ slotLock' = slotLock
  BY <1>4, <1>5
<1>12. WorkOK(p)'
  BY <1>4, <1>5, <1>9, <1>10, <1>11 DEF WorkOK, SlotHeld, s, own, mine
<1> QED
  BY <1>4, <1>12

LEMMA deleteSlotQueueKeeps ==
  ASSUME LockInv, TypeInv', NEW p \in Workers, WorkOK(p), deleteSlotQueue(p)
  PROVE  StatementOf(p) /\ WorkOK(p)'
<1> DEFINE s == req[p].slot
           L == Members(slots[s].queue)
           own == SlotsOf(p, slotLock, slots, dbSlots)
           mine == UsersOf(p, userLock, users, dbUsers)
<1>1. /\ pc[p] = "strikeEnrolled" /\ next[p] = NoUser
      /\ Visit(p, L)
      /\ Goto(p, "strikeQueued")
      /\ UNCHANGED << committed, tables, locks, req, full >>
  BY DEF deleteSlotQueue
<1>2. req[p].op = "deleteSlot" /\ s \in Slots /\ L \in SUBSET Users
  <2>1. req[p].op = "deleteSlot" /\ s \in Slots
    BY <1>1, FieldsOf DEF LockInv, NamesOK, TypeInv, StepOK
  <2> QED
    BY <2>1, LocalTypes DEF LockInv
<1>3. /\ dbSlots' = dbSlots /\ dbUsers' = dbUsers /\ slots' = slots /\ users' = users
      /\ slotLock' = slotLock /\ userLock' = userLock /\ req' = req /\ full' = full
  BY <1>1 DEF committed, tables, locks
<1>4. /\ pc'[p] = "strikeQueued" /\ Left(p)' = L
      /\ next'[p] = NoUser => todo'[p] = {}
      /\ next'[p] \notin todo'[p]
      /\ \A q \in Workers \ {p} : /\ pc'[q] = pc[q] /\ next'[q] = next[q]
                                  /\ todo'[q] = todo[q] /\ answer'[q] = answer[q]
  BY <1>1, <1>2, VisitLeft DEF Goto, LockInv, TypeInv, TypeOK
<1>5. StatementOf(p)
  BY <1>1, <1>3, <1>4 DEF StatementOf, committed
<1>6. /\ SlotHeld(p, s) /\ Left(p) = {}
      /\ \A v \in StruckEnrolled("strikeEnrolled", s, {}, dbSlots) : UserHeld(p, v)
      /\ StruckSome("strikeEnrolled", req[p], {}, dbSlots, dbUsers, own, mine)
  BY <1>1, <1>2 DEF WorkOK, Left
<1>7. L = Members(dbSlots[s].queue)
  <2>1. own = dbSlots
    BY <1>6 DEF StruckSome
  <2>2. slots[s] = dbSlots[s]
    <3>1. slotLock[s] = p => own[s] = slots[s]
      BY <1>2 DEF SlotsOf
    <3>2. slotLock[s] # p => slotLock[s] = Nobody
      <4>1. dbSlots[s].st # "unborn"
        BY <1>1, <1>2 DEF LockInv, NamesOK, Nameable
      <4> QED
        BY <1>2, <1>6, <4>1 DEF LockInv, LocksOK, SlotHeld, TypeInv, TypeOK
    <3> QED
      BY <1>2, <2>1, <3>1, <3>2 DEF LockInv, LocksOK, FreeRowsAreCommitted
  <2> QED
    BY <2>2
<1> HIDE DEF s, L, own, mine
<1>8. /\ StruckEnrolled("strikeQueued", s, L, dbSlots) = StruckEnrolled("strikeEnrolled", s, {}, dbSlots)
      /\ StruckQueued("strikeQueued", s, L, dbSlots) = {}
      /\ StruckQueued("strikeEnrolled", s, {}, dbSlots) = {}
  BY <1>7 DEF StruckEnrolled, StruckQueued
<1>9. StruckSome("strikeQueued", req[p], L, dbSlots, dbUsers, own, mine)
  BY <1>6, <1>7, <1>8 DEF StruckSome, s
<1>10. \A v \in StruckEnrolled("strikeQueued", s, L, dbSlots) : UserHeld(p, v)'
  BY <1>3, <1>6, <1>8 DEF UserHeld
<1>11. SlotHeld(p, s)'
  BY <1>3, <1>6 DEF SlotHeld, s
<1>12. WorkOK(p)'
  BY <1>3, <1>4, <1>8, <1>9, <1>10, <1>11 DEF WorkOK, s, own, mine
<1> QED
  BY <1>5, <1>12

LEMMA deleteSlotRowStepKeeps ==
  ASSUME LockInv, TypeInv', NEW p \in Workers, WorkOK(p), deleteSlotRowStep(p)
  PROVE  StatementOf(p) /\ WorkOK(p)'
<1> DEFINE s == req[p].slot
           own == SlotsOf(p, slotLock', slots', dbSlots')
           mine == UsersOf(p, userLock', users', dbUsers')
<1>1. /\ pc[p] = "strikeQueued" /\ next[p] = NoUser
      /\ slots' = deleteSlotRow(slots, s)
      /\ Reply(p, "ok")
      /\ UNCHANGED << committed, users, locks, req, full, scan >>
  BY DEF deleteSlotRowStep
<1>2. req[p].op = "deleteSlot" /\ s \in Slots
  BY <1>1, FieldsOf DEF LockInv, NamesOK, TypeInv, StepOK
<1>3. /\ dbSlots' = dbSlots /\ dbUsers' = dbUsers /\ users' = users
      /\ slotLock' = slotLock /\ userLock' = userLock /\ req' = req /\ full' = full
      /\ next' = next /\ todo' = todo
  BY <1>1 DEF committed, locks, scan
<1>4. /\ pc'[p] = "commit" /\ answer'[p] = "ok"
      /\ \A q \in Workers \ {p} : pc'[q] = pc[q] /\ answer'[q] = answer[q]
  BY <1>1 DEF Reply, LockInv, TypeInv, TypeOK
<1>5. /\ SlotsOK(slots) /\ SlotsOK(dbSlots) /\ UsersOK(dbUsers) /\ SlotsOK(own) /\ UsersOK(mine)
  <2>1. /\ SlotsOK(slots) /\ SlotsOK(dbSlots) /\ UsersOK(users) /\ UsersOK(dbUsers)
        /\ SlotsOK(slots') /\ UsersOK(users')
    BY DEF LockInv, TypeInv, TablesOK
  <2> QED
    BY <1>3, <2>1, ViewsOK
<1>6. /\ SlotHeld(p, s) /\ Left(p) = {}
      /\ \A v \in StruckEnrolled("strikeQueued", s, {}, dbSlots) : UserHeld(p, v)
      /\ \A v \in StruckQueued("strikeQueued", s, {}, dbSlots) : UserHeld(p, v)
      /\ StruckSome("strikeQueued", req[p], {}, dbSlots, dbUsers,
                    SlotsOf(p, slotLock, slots, dbSlots), mine)
  BY <1>1, <1>2, <1>3 DEF WorkOK, Left
<1>7. OneSlotRow(slots, slots', s)
  <2> HIDE DEF s
  <2> QED
    BY <1>1, <1>2, <1>5, DeleteSlotRow
       DEF OneSlotRow, deleteSlotRow, OnSlot, EmptySlot, Live, SlotsOK
<1>8. /\ SameSlotChange(slots, slots', SlotsOf(p, slotLock, slots, dbSlots), own, s)
      /\ \A t \in Slots :
           \/ slots'[t] = slots[t] /\ slotLock[t] = slotLock[t]
           \/ /\ slotLock[t] \in {Nobody, p} /\ slotLock[t] = p
              /\ req[p].slot = t /\ slots'[t].st # "unborn" /\ Live(dbSlots[t])
  <2>1. /\ slotLock[s] = IF Live(dbSlots[s]) THEN p ELSE slotLock[s]
        /\ Live(dbSlots[s]) => slotLock[s] \in {Nobody, p}
    BY <1>2, <1>6, HeldLock
  <2>2. s = req[p].slot /\ req[p].op \notin {"deleteUser", "createSlot"} /\ pc[p] # "idle"
    BY <1>1, <1>2
  <2> HIDE DEF s
  <2> QED
    BY <1>2, <1>3, <1>7, <2>1, <2>2, SlotWrite
<1>9. StatementOf(p)
  BY <1>1, <1>2, <1>3, <1>4, <1>8 DEF StatementOf, committed
<1>10. SlotsOf(p, slotLock, slots, dbSlots) = dbSlots
  BY <1>6 DEF StruckSome
<1>11. own = deleteSlotRow(dbSlots, s)
  <2>1. PICK c0 \in Capacities : TRUE
    BY CapacitiesAssumption
  <2> HIDE DEF s, own
  <2> QED
    BY <1>1, <1>2, <1>5, <1>8, <1>10, <2>1, ReplayInsert
<1>12. \A v \in Users :
         /\ v \in StruckEnrolled("strikeQueued", s, {}, dbSlots) <=> v \in Members(dbSlots[s].enrolled)
         /\ v \in StruckQueued("strikeQueued", s, {}, dbSlots) <=> v \in Members(dbSlots[s].queue)
  BY DEF StruckEnrolled, StruckQueued
<1>13. mine = strike(dbSlots, dbUsers, s)
  <2>1. \A v \in Users : StruckAt(dbSlots, dbUsers, mine, s, v)
    BY <1>6, <1>12 DEF StruckSome, StruckAt, StruckRow
  <2> HIDE DEF s, mine
  <2> QED
    BY <1>2, <1>5, <2>1, IsStrike
<1>14. Result(req[p], "ok", dbSlots, dbUsers, own, mine)
  BY <1>2, <1>11, <1>13 DEF Result
<1>15. \A v \in Concerned(req[p], dbSlots) : UserHeld(p, v)'
  BY <1>2, <1>3, <1>6, <1>12 DEF Concerned, SeatOps, UserHeld
<1>16. SlotHeld(p, s)'
  BY <1>3, <1>6 DEF SlotHeld
<1>17. WorkOK(p)'
  BY <1>1, <1>4, <1>14, <1>15, <1>16, ReadyToCommit
<1> QED
  BY <1>9, <1>17

-----------------------------------------------------------------------------
(* The first state, and every step of the system.                          *)
LEMMA InitRef == Init => RefInv
<1> SUFFICES ASSUME Init PROVE RefInv
  OBVIOUS
<1>1. TypeInv /\ HoldOK
  BY InitType, HoldInit
<1>2. LocksOK
  BY NobodyAssumption DEF Init, LocksOK, FreeRowsAreCommitted
<1>3. NamesOK
  BY DEF Init, NamesOK, NoRequest
<1>4. \A p \in Workers : WorkOK(p)
  BY DEF Init, WorkOK
<1> QED
  BY <1>1, <1>2, <1>3, <1>4 DEF RefInv, LockInv

(* Whatever p does, it does to its own rows, and its work stays right.     *)
LEMMA WorkerStep ==
  ASSUME RefInv, TypeInv', NEW p \in Workers,
         Accept(p) \/ Advance(p) \/ Fail(p) \/ DeadlockVictim(p)
  PROVE  StepOf(p) /\ LocksOK' /\ NamesOK' /\ WorkOK(p)'
<1>1. LockInv /\ WorkOK(p)
  BY DEF RefInv
<1>2. CASE Accept(p)
  BY <1>1, <1>2, AcceptKeepsLocks
<1>3. CASE Commit(p) \/ Unwind(p) \/ Fail(p) \/ DeadlockVictim(p)
  <2>1. Commit(p) \/ Rollback(p)
    BY <1>3 DEF Unwind, Fail, DeadlockVictim
  <2>2. pc[p] # "idle"
    <3>1. CASE DeadlockVictim(p)
      <4>1. PICK q \in Workers : BlockedBy(p, q)
        BY <3>1 DEF DeadlockVictim, WaitCycle
      <4> QED
        BY <4>1 DEF BlockedBy
    <3> QED
      BY <1>3, <3>1 DEF Commit, Unwind, Fail
  <2> QED
    BY <1>1, <2>1, <2>2, FinishKeepsLocks
<1>4. CASE Advance(p) /\ ~Commit(p) /\ ~Unwind(p)
  <2>1. StatementOf(p) /\ WorkOK(p)'
    BY <1>1, <1>4, LockSlotKeeps, addUserEntryKeeps, deleteUserEntryKeeps, promoteKeeps,
       joinQueueKeeps, leaveQueueKeeps, createSlotKeeps, patchSlotKeeps, deleteUserKeeps,
       deleteSlotKeeps, strikeEnrolledKeeps, deleteSlotQueueKeeps, strikeQueuedKeeps,
       deleteSlotRowStepKeeps DEF Advance
  <2> QED
    BY <1>1, <2>1, StatementKeepsLocks
<1> QED
  BY <1>2, <1>3, <1>4

LEMMA RefStep == RefInv /\ [Next]_vars => RefInv'
<1> SUFFICES ASSUME RefInv, [Next]_vars PROVE RefInv'
  OBVIOUS
<1>1. TypeInv' /\ HoldOK'
  BY TypeStep, HoldStep DEF RefInv, LockInv
<1>2. CASE Next
  <2>1. PICK p \in Workers : Accept(p) \/ Advance(p) \/ Fail(p) \/ DeadlockVictim(p)
    BY <1>2 DEF Next
  <2>2. StepOf(p) /\ LocksOK' /\ NamesOK' /\ WorkOK(p)'
    BY <1>1, <2>1, WorkerStep
  <2>3. \A q \in Workers \ {p} : WorkOK(q)'
    BY <1>1, <2>2, OthersKeep DEF RefInv
  <2> QED
    BY <1>1, <2>2, <2>3 DEF RefInv, LockInv
<1>3. CASE UNCHANGED vars
  <2>1. /\ dbSlots' = dbSlots /\ dbUsers' = dbUsers /\ slots' = slots /\ users' = users
        /\ slotLock' = slotLock /\ userLock' = userLock /\ pc' = pc /\ req' = req
        /\ full' = full /\ next' = next /\ todo' = todo /\ answer' = answer
    BY <1>3 DEF vars, committed, tables, locks, scan
  <2>2. LocksOK' /\ NamesOK'
    BY <2>1 DEF RefInv, LockInv, LocksOK, NamesOK, FreeRowsAreCommitted
  <2>3. \A q \in Workers : WorkOK(q)'
    BY <2>1 DEF RefInv, WorkOK, SlotHeld, UserHeld, Left
  <2> QED
    BY <1>1, <2>2, <2>3 DEF RefInv, LockInv
<1> QED
  BY <1>2, <1>3

-----------------------------------------------------------------------------
(* The instance of AtomicBooking uses the same statements.                 *)
LEMMA SameStatements ==
  ASSUME NEW tbl, NEW u, NEW s, NEW c
  PROVE  /\ Atomic!addEntry(tbl, u, s) = addEntry(tbl, u, s)
         /\ Atomic!removeEntry(tbl, u, s) = removeEntry(tbl, u, s)
         /\ Atomic!addToQueue(tbl, u, s) = addToQueue(tbl, u, s)
         /\ Atomic!removeFromQueue(tbl, u, s) = removeFromQueue(tbl, u, s)
         /\ Atomic!changeSlotInfo(tbl, s, c) = changeSlotInfo(tbl, s, c)
         /\ Atomic!insertSlot(tbl, s, c) = insertSlot(tbl, s, c)
         /\ Atomic!deleteSlotRow(tbl, s) = deleteSlotRow(tbl, s)
         /\ Atomic!promoteSlots(tbl, u, s) = promoteSlots(tbl, u, s)
         /\ Atomic!getFirstInQueue(tbl, s) = getFirstInQueue(tbl, s)
         /\ Atomic!isAtCapacity(tbl, s) <=> isAtCapacity(tbl, s)
         /\ Atomic!Live(tbl[s]) <=> Live(tbl[s])
<1>1. \A arr, e : Atomic!RemoveAll(arr, e) = RemoveAll(arr, e)
  BY DEF RemoveAll, Atomic!RemoveAll
<1>2. \A t : /\ Atomic!addEntry(t, u, s) = addEntry(t, u, s)
             /\ Atomic!addToQueue(t, u, s) = addToQueue(t, u, s)
  BY DEF addEntry, Atomic!addEntry, addToQueue, Atomic!addToQueue, OnSlot, Atomic!OnSlot,
         Live, Atomic!Live
<1>3. /\ Atomic!removeEntry(tbl, u, s) = removeEntry(tbl, u, s)
      /\ Atomic!removeFromQueue(tbl, u, s) = removeFromQueue(tbl, u, s)
  BY <1>1 DEF removeEntry, Atomic!removeEntry, removeFromQueue, Atomic!removeFromQueue,
              OnSlot, Atomic!OnSlot, Live, Atomic!Live
<1>4. /\ Atomic!changeSlotInfo(tbl, s, c) = changeSlotInfo(tbl, s, c)
      /\ Atomic!insertSlot(tbl, s, c) = insertSlot(tbl, s, c)
      /\ Atomic!deleteSlotRow(tbl, s) = deleteSlotRow(tbl, s)
  BY DEF changeSlotInfo, Atomic!changeSlotInfo, insertSlot, Atomic!insertSlot, deleteSlotRow,
         Atomic!deleteSlotRow, OnSlot, Atomic!OnSlot, EmptySlot, Atomic!EmptySlot, Live, Atomic!Live
<1>5. Atomic!promoteSlots(tbl, u, s) = promoteSlots(tbl, u, s)
  BY <1>2, <1>3 DEF promoteSlots, Atomic!promoteSlots
<1>6. /\ Atomic!getFirstInQueue(tbl, s) = getFirstInQueue(tbl, s)
      /\ Atomic!isAtCapacity(tbl, s) <=> isAtCapacity(tbl, s)
      /\ Atomic!Live(tbl[s]) <=> Live(tbl[s])
  BY DEF getFirstInQueue, Atomic!getFirstInQueue, isAtCapacity, Atomic!isAtCapacity, Live, Atomic!Live
<1> QED
  BY <1>2, <1>3, <1>4, <1>5, <1>6

LEMMA SameUserStatements ==
  ASSUME NEW tbl, NEW u, NEW s, NEW sl
  PROVE  /\ Atomic!addEnrollment(tbl, u, s) = addEnrollment(tbl, u, s)
         /\ Atomic!removeEnrollment(tbl, u, s) = removeEnrollment(tbl, u, s)
         /\ Atomic!addQueuedSlot(tbl, u, s) = addQueuedSlot(tbl, u, s)
         /\ Atomic!removeQueuedSlot(tbl, u, s) = removeQueuedSlot(tbl, u, s)
         /\ Atomic!deleteUserRow(tbl, u) = deleteUserRow(tbl, u)
         /\ Atomic!promoteUsers(tbl, u, s) = promoteUsers(tbl, u, s)
         /\ Atomic!strike(sl, tbl, s) = strike(sl, tbl, s)
         /\ Atomic!getUserEnrollments(tbl, u) = tbl[u].enrolled
         /\ Atomic!getUserQueuedSlots(tbl, u) = tbl[u].queued
<1>1. \A t : /\ Atomic!addEnrollment(t, u, s) = addEnrollment(t, u, s)
             /\ Atomic!removeEnrollment(t, u, s) = removeEnrollment(t, u, s)
             /\ Atomic!addQueuedSlot(t, u, s) = addQueuedSlot(t, u, s)
             /\ Atomic!removeQueuedSlot(t, u, s) = removeQueuedSlot(t, u, s)
             /\ Atomic!deleteUserRow(t, u) = deleteUserRow(t, u)
  BY DEF addEnrollment, Atomic!addEnrollment, removeEnrollment, Atomic!removeEnrollment,
         addQueuedSlot, Atomic!addQueuedSlot, removeQueuedSlot, Atomic!removeQueuedSlot,
         deleteUserRow, Atomic!deleteUserRow, OnUser, Atomic!OnUser, Live, Atomic!Live
<1>2. Atomic!promoteUsers(tbl, u, s) = promoteUsers(tbl, u, s)
  BY <1>1 DEF promoteUsers, Atomic!promoteUsers
<1>3. Atomic!strike(sl, tbl, s) = strike(sl, tbl, s)
  BY DEF strike, Atomic!strike, Members, Atomic!Members
<1>4. /\ Atomic!getUserEnrollments(tbl, u) = tbl[u].enrolled
      /\ Atomic!getUserQueuedSlots(tbl, u) = tbl[u].queued
  BY DEF Atomic!getUserEnrollments, Atomic!getUserQueuedSlots
<1> QED
  BY <1>1, <1>2, <1>3, <1>4

(* A result of a request is a step of AtomicBooking.                       *)
LEMMA ResultIsServed ==
  ASSUME NEW r \in Requests, NEW a, Nameable(dbSlots, r),
         Result(r, a, dbSlots, dbUsers, dbSlots', dbUsers')
  PROVE  a \in Answers /\ Atomic!Serve(r, a)
<1>0. r.op \in AllOps /\ Atomic!Nameable(dbSlots, r)
  BY FieldsOf DEF Nameable, Atomic!Nameable
<1>1. CASE r.op = "addUserEntry"
  <2>1. BookResult(r.user, r.slot, a, dbSlots, dbUsers, dbSlots', dbUsers')
    BY <1>1 DEF Result
  <2>2. Atomic!addUserEntry(r, a)
    BY <1>1, <2>1, SameStatements, SameUserStatements
       DEF Atomic!addUserEntry, Atomic!vars, BookResult, Same, Enrolled
  <2> QED
    BY <1>0, <2>1, <2>2 DEF Atomic!Serve, BookResult, Answers
<1>2. CASE r.op = "deleteUserEntry"
  <2>1. CancelResult(r.user, r.slot, a, dbSlots, dbUsers, dbSlots', dbUsers')
    BY <1>2 DEF Result
  <2> DEFINE left == removeEntry(dbSlots, r.user, r.slot)
             freed == removeEnrollment(dbUsers, r.user, r.slot)
             first == getFirstInQueue(left, r.slot)
  <2>2. \/ first = NoUser /\ dbSlots' = left /\ dbUsers' = freed
        \/ /\ first # NoUser
           /\ dbSlots' = promoteSlots(left, first, r.slot)
           /\ dbUsers' = promoteUsers(freed, first, r.slot)
    BY <2>1 DEF CancelResult
  <2>3. Atomic!removeEntry(dbSlots, r.user, r.slot) = left
    BY SameStatements
  <2>4. Atomic!removeEnrollment(dbUsers, r.user, r.slot) = freed
    BY SameUserStatements
  <2> HIDE DEF left, freed
  <2>5. Atomic!getFirstInQueue(left, r.slot) = first
    BY SameStatements
  <2> HIDE DEF first
  <2>6. Atomic!promoteSlots(left, first, r.slot) = promoteSlots(left, first, r.slot)
    BY SameStatements
  <2>7. Atomic!promoteUsers(freed, first, r.slot) = promoteUsers(freed, first, r.slot)
    BY SameUserStatements
  <2>8. a = "ok"
    BY <2>1 DEF CancelResult
  <2>9. Atomic!deleteUserEntry(r, a)
    BY <1>2, <2>2, <2>3, <2>4, <2>5, <2>6, <2>7, <2>8 DEF Atomic!deleteUserEntry
  <2> QED
    BY <1>0, <2>8, <2>9 DEF Atomic!Serve, Answers
<1>3. CASE r.op = "joinQueue"
  <2>1. JoinResult(r.user, r.slot, a, dbSlots, dbUsers, dbSlots', dbUsers')
    BY <1>3 DEF Result
  <2>2. Atomic!joinQueue(r, a)
    BY <1>3, <2>1, SameStatements, SameUserStatements
       DEF Atomic!joinQueue, Atomic!vars, JoinResult, Same, Enrolled, Queued
  <2> QED
    BY <1>0, <2>1, <2>2 DEF Atomic!Serve, JoinResult, Answers
<1>4. CASE r.op = "leaveQueue"
  <2>1. LeaveResult(r.user, r.slot, a, dbSlots, dbUsers, dbSlots', dbUsers')
    BY <1>4 DEF Result
  <2>2. Atomic!leaveQueue(r, a)
    BY <1>4, <2>1, SameStatements, SameUserStatements
       DEF Atomic!leaveQueue, Atomic!vars, LeaveResult, Same
  <2> QED
    BY <1>0, <2>1, <2>2 DEF Atomic!Serve, LeaveResult, Answers
<1>5. CASE r.op = "createSlot"
  <2>1. Atomic!createSlot(r, a)
    BY <1>5, SameStatements DEF Atomic!createSlot, Result
  <2> QED
    BY <1>0, <1>5, <2>1 DEF Atomic!Serve, Result, Answers
<1>6. CASE r.op = "patchSlot"
  <2>1. Atomic!patchSlot(r, a)
    BY <1>6, SameStatements DEF Atomic!patchSlot, Result
  <2> QED
    BY <1>0, <1>6, <2>1 DEF Atomic!Serve, Result, Answers
<1>7. CASE r.op = "deleteSlot"
  <2>1. Atomic!deleteSlot(r, a)
    BY <1>7, SameStatements, SameUserStatements DEF Atomic!deleteSlot, Result
  <2> QED
    BY <1>0, <1>7, <2>1 DEF Atomic!Serve, Result, Answers
<1>8. CASE r.op = "deleteUser"
  <2>1. Atomic!deleteUser(r, a)
    BY <1>8, SameUserStatements DEF Atomic!deleteUser, Result
  <2> QED
    BY <1>0, <1>8, <2>1 DEF Atomic!Serve, Result, Answers
<1> QED
  BY <1>0, <1>1, <1>2, <1>3, <1>4, <1>5, <1>6, <1>7, <1>8 DEF AllOps, SeatOps

(* A commit publishes the result of the request, with its answer.          *)
LEMMA CommitServes ==
  ASSUME RefInv, NEW p \in Workers, Commit(p)
  PROVE  req[p] \in Requests /\ answer[p] \in Answers /\ Atomic!Serve(req[p], answer[p])
<1>1. pc[p] = "commit" /\ req[p] \in Requests /\ Nameable(dbSlots, req[p])
  BY DEF Commit, RefInv, LockInv, NamesOK
<1>2. Result(req[p], answer[p], dbSlots, dbUsers, SlotsOf(p, slotLock, slots, dbSlots),
             UsersOf(p, userLock, users, dbUsers))
  BY <1>1 DEF RefInv, WorkOK
<1>3. /\ dbSlots' = SlotsOf(p, slotLock, slots, dbSlots)
      /\ dbUsers' = UsersOf(p, userLock, users, dbUsers)
  BY DEF Commit, SlotsOf, UsersOf
<1> QED
  BY <1>1, <1>2, <1>3, ResultIsServed

(* A row nobody holds is as it was committed: a handler writes a row only  *)
(* after its SELECT ... FOR UPDATE or in the UPDATE that locks it, and a   *)
(* rollback undoes all of it (database.hpp:52-67).                         *)
THEOREM FreeRows == Spec => []FreeRowsAreCommitted
<1>1. RefInv => FreeRowsAreCommitted
  BY DEF RefInv, LockInv, LocksOK
<1> QED
  BY <1>1, InitRef, RefStep, PTL DEF Spec

(* A commit makes at once of the committed tables what its whole request,  *)
(* run alone on them, makes of them, and the answer sent is that run's:    *)
(* the lock on the slot's row taken first keeps other requests out         *)
(* (slot_routes.cpp:60-105, queue_routes.cpp:14-44).                       *)
THEOREM AtomicCommits == Spec => CommitsAreAtomic
<1>1. RefInv /\ [Next]_vars =>
        [\A p \in Workers : Commit(p) => Atomic!Serve(req[p], answer[p])]_vars
  BY CommitServes
<1> QED
  BY <1>1, InitRef, RefStep, PTL DEF Spec, CommitsAreAtomic

(* What is committed changes as AtomicBooking says: requests of any number *)
(* of server threads, with their row locks, rollbacks and deadlock         *)
(* victims, act as if they ran one after the other (database.hpp:52-67).   *)
THEOREM Refines == Spec => AtomicSpec
<1>1. Init => Atomic!Init
  BY DEF Init, Atomic!Init, InitSlots, Atomic!InitSlots, EmptySlot, Atomic!EmptySlot,
         InitUsers, Atomic!InitUsers
<1>2. RefInv /\ [Next]_vars => [Atomic!Next]_(Atomic!vars)
  <2> SUFFICES ASSUME RefInv, [Next]_vars, committed' # committed PROVE Atomic!Next
    BY DEF Atomic!vars, committed
  <2>1. PICK p \in Workers : Commit(p)
    <3>1. PICK p \in Workers : Accept(p) \/ Advance(p) \/ Fail(p) \/ DeadlockVictim(p)
      BY DEF Next, vars
    <3>2. ~Accept(p) /\ ~Fail(p) /\ ~DeadlockVictim(p) /\ ~Unwind(p)
      BY DEF Accept, Fail, DeadlockVictim, Unwind, Rollback
    <3>3. /\ ~LockSlot(p) /\ ~addUserEntry(p) /\ ~deleteUserEntry(p) /\ ~promote(p)
          /\ ~joinQueue(p) /\ ~leaveQueue(p) /\ ~createSlot(p) /\ ~patchSlot(p)
      BY DEF LockSlot, addUserEntry, deleteUserEntry, promote, joinQueue, leaveQueue, createSlot,
             patchSlot
    <3>4. /\ ~deleteUser(p) /\ ~deleteSlot(p) /\ ~strikeEnrolled(p) /\ ~deleteSlotQueue(p)
          /\ ~strikeQueued(p) /\ ~deleteSlotRowStep(p)
      BY DEF deleteUser, deleteSlot, strikeEnrolled, deleteSlotQueue, strikeQueued,
             deleteSlotRowStep
    <3> QED
      BY <3>1, <3>2, <3>3, <3>4 DEF Advance
  <2>2. req[p] \in Requests /\ answer[p] \in Answers /\ Atomic!Serve(req[p], answer[p])
    BY <2>1, CommitServes
  <2>3. Requests = Atomic!Requests /\ Answers = Atomic!Answers
    BY DEF Requests, Atomic!Requests, SeatOps, Atomic!SeatOps, Answers, Atomic!Answers
  <2> QED
    BY <2>2, <2>3 DEF Atomic!Next
<1> QED
  BY <1>1, <1>2, InitRef, RefStep, PTL DEF Spec, AtomicSpec, Atomic!Spec

-----------------------------------------------------------------------------
(* What AtomicBooking promises holds of what Booking commits: the theorems *)
(* of AtomicBookingProofs on the committed tables.  Alone is Atomic with   *)
(* its proofs, and the statements of both are the same.                    *)
Alone == INSTANCE AtomicBookingProofs WITH slots <- dbSlots, users <- dbUsers

LEMMA AloneSlotStatements ==
  /\ \A arr, e : Alone!RemoveAll(arr, e) = Atomic!RemoveAll(arr, e)
  /\ \A tbl, u, s : /\ Alone!addEntry(tbl, u, s) = Atomic!addEntry(tbl, u, s)
                    /\ Alone!removeEntry(tbl, u, s) = Atomic!removeEntry(tbl, u, s)
                    /\ Alone!addToQueue(tbl, u, s) = Atomic!addToQueue(tbl, u, s)
                    /\ Alone!removeFromQueue(tbl, u, s) = Atomic!removeFromQueue(tbl, u, s)
                    /\ Alone!promoteSlots(tbl, u, s) = Atomic!promoteSlots(tbl, u, s)
  /\ \A tbl, s, c : /\ Alone!changeSlotInfo(tbl, s, c) = Atomic!changeSlotInfo(tbl, s, c)
                    /\ Alone!insertSlot(tbl, s, c) = Atomic!insertSlot(tbl, s, c)
  /\ \A tbl, s : /\ Alone!deleteSlotRow(tbl, s) = Atomic!deleteSlotRow(tbl, s)
                 /\ Alone!getFirstInQueue(tbl, s) = Atomic!getFirstInQueue(tbl, s)
                 /\ Alone!isAtCapacity(tbl, s) <=> Atomic!isAtCapacity(tbl, s)
  /\ \A row : Alone!Live(row) <=> Atomic!Live(row)
  /\ \A arr : Alone!Members(arr) = Atomic!Members(arr)
  /\ \A st, c : Alone!EmptySlot(st, c) = Atomic!EmptySlot(st, c)
<1>1. \A arr, e : Alone!RemoveAll(arr, e) = Atomic!RemoveAll(arr, e)
  BY DEF Alone!RemoveAll, Atomic!RemoveAll
<1>2. \A row : Alone!Live(row) <=> Atomic!Live(row)
  BY DEF Alone!Live, Atomic!Live
<1>3. \A tbl, s, row : Alone!OnSlot(tbl, s, row) = Atomic!OnSlot(tbl, s, row)
  BY <1>2 DEF Alone!OnSlot, Atomic!OnSlot
<1>4. \A st, c : Alone!EmptySlot(st, c) = Atomic!EmptySlot(st, c)
  BY DEF Alone!EmptySlot, Atomic!EmptySlot
<1>5. \A tbl, u, s : /\ Alone!addEntry(tbl, u, s) = Atomic!addEntry(tbl, u, s)
                     /\ Alone!removeEntry(tbl, u, s) = Atomic!removeEntry(tbl, u, s)
                     /\ Alone!addToQueue(tbl, u, s) = Atomic!addToQueue(tbl, u, s)
                     /\ Alone!removeFromQueue(tbl, u, s) = Atomic!removeFromQueue(tbl, u, s)
  BY <1>1, <1>3 DEF Alone!addEntry, Atomic!addEntry, Alone!removeEntry, Atomic!removeEntry,
                    Alone!addToQueue, Atomic!addToQueue, Alone!removeFromQueue, Atomic!removeFromQueue
<1>6. \A tbl, u, s : Alone!promoteSlots(tbl, u, s) = Atomic!promoteSlots(tbl, u, s)
  BY <1>5 DEF Alone!promoteSlots, Atomic!promoteSlots
<1>7. \A tbl, s, c : /\ Alone!changeSlotInfo(tbl, s, c) = Atomic!changeSlotInfo(tbl, s, c)
                     /\ Alone!insertSlot(tbl, s, c) = Atomic!insertSlot(tbl, s, c)
  BY <1>3, <1>4 DEF Alone!changeSlotInfo, Atomic!changeSlotInfo, Alone!insertSlot, Atomic!insertSlot
<1>8. \A tbl, s : /\ Alone!deleteSlotRow(tbl, s) = Atomic!deleteSlotRow(tbl, s)
                  /\ Alone!getFirstInQueue(tbl, s) = Atomic!getFirstInQueue(tbl, s)
                  /\ Alone!isAtCapacity(tbl, s) <=> Atomic!isAtCapacity(tbl, s)
  BY <1>2, <1>3, <1>4 DEF Alone!deleteSlotRow, Atomic!deleteSlotRow, Alone!getFirstInQueue,
       Atomic!getFirstInQueue, Alone!isAtCapacity, Atomic!isAtCapacity
<1>9. \A arr : Alone!Members(arr) = Atomic!Members(arr)
  BY DEF Alone!Members, Atomic!Members
<1> QED
  BY <1>1, <1>2, <1>4, <1>5, <1>6, <1>7, <1>8, <1>9

LEMMA AloneUserStatements ==
  /\ \A tbl, u, s : /\ Alone!addEnrollment(tbl, u, s) = Atomic!addEnrollment(tbl, u, s)
                    /\ Alone!removeEnrollment(tbl, u, s) = Atomic!removeEnrollment(tbl, u, s)
                    /\ Alone!addQueuedSlot(tbl, u, s) = Atomic!addQueuedSlot(tbl, u, s)
                    /\ Alone!removeQueuedSlot(tbl, u, s) = Atomic!removeQueuedSlot(tbl, u, s)
                    /\ Alone!promoteUsers(tbl, u, s) = Atomic!promoteUsers(tbl, u, s)
  /\ \A sl, us, s : Alone!strike(sl, us, s) = Atomic!strike(sl, us, s)
  /\ \A tbl, u : /\ Alone!deleteUserRow(tbl, u) = Atomic!deleteUserRow(tbl, u)
                 /\ Alone!getUserEnrollments(tbl, u) = Atomic!getUserEnrollments(tbl, u)
                 /\ Alone!getUserQueuedSlots(tbl, u) = Atomic!getUserQueuedSlots(tbl, u)
<1>1. \A row : Alone!Live(row) <=> Atomic!Live(row)
  BY DEF Alone!Live, Atomic!Live
<1>2. \A tbl, u, row : Alone!OnUser(tbl, u, row) = Atomic!OnUser(tbl, u, row)
  BY <1>1 DEF Alone!OnUser, Atomic!OnUser
<1>3. \A tbl, u, s : /\ Alone!addEnrollment(tbl, u, s) = Atomic!addEnrollment(tbl, u, s)
                     /\ Alone!removeEnrollment(tbl, u, s) = Atomic!removeEnrollment(tbl, u, s)
                     /\ Alone!addQueuedSlot(tbl, u, s) = Atomic!addQueuedSlot(tbl, u, s)
                     /\ Alone!removeQueuedSlot(tbl, u, s) = Atomic!removeQueuedSlot(tbl, u, s)
  BY <1>2 DEF Alone!addEnrollment, Atomic!addEnrollment, Alone!removeEnrollment, Atomic!removeEnrollment,
       Alone!addQueuedSlot, Atomic!addQueuedSlot, Alone!removeQueuedSlot, Atomic!removeQueuedSlot
<1>4. \A tbl, u, s : Alone!promoteUsers(tbl, u, s) = Atomic!promoteUsers(tbl, u, s)
  BY <1>3 DEF Alone!promoteUsers, Atomic!promoteUsers
<1>5. \A sl, us, s : Alone!strike(sl, us, s) = Atomic!strike(sl, us, s)
  BY DEF Alone!strike, Atomic!strike, Alone!Members, Atomic!Members
<1>6. \A tbl, u : /\ Alone!deleteUserRow(tbl, u) = Atomic!deleteUserRow(tbl, u)
                  /\ Alone!getUserEnrollments(tbl, u) = Atomic!getUserEnrollments(tbl, u)
                  /\ Alone!getUserQueuedSlots(tbl, u) = Atomic!getUserQueuedSlots(tbl, u)
  BY <1>2 DEF Alone!deleteUserRow, Atomic!deleteUserRow, Alone!getUserEnrollments,
       Atomic!getUserEnrollments, Alone!getUserQueuedSlots, Atomic!getUserQueuedSlots
<1> QED
  BY <1>3, <1>4, <1>5, <1>6

LEMMA AloneServes ==
  ASSUME NEW r, NEW a, Atomic!Serve(r, a)
  PROVE  Alone!Serve(r, a)
<1>0. Alone!vars = Atomic!vars
  BY DEF Alone!vars, Atomic!vars
<1>1. Alone!Nameable(dbSlots, r)
  BY DEF Atomic!Serve, Atomic!Nameable, Alone!Nameable
<1>2. CASE Atomic!addUserEntry(r, a)
  <2>1. Alone!addUserEntry(r, a)
    BY <1>2, AloneSlotStatements, AloneUserStatements
       DEF Atomic!addUserEntry, Alone!addUserEntry, Alone!vars, Atomic!vars
  <2> QED
    BY <1>1, <2>1 DEF Alone!Serve
<1>3. CASE Atomic!deleteUserEntry(r, a)
  <2>1. Alone!deleteUserEntry(r, a)
    BY <1>3, AloneSlotStatements, AloneUserStatements DEF Atomic!deleteUserEntry, Alone!deleteUserEntry
  <2> QED
    BY <1>1, <2>1 DEF Alone!Serve
<1>4. CASE Atomic!joinQueue(r, a)
  <2>1. Alone!joinQueue(r, a)
    BY <1>4, AloneSlotStatements, AloneUserStatements
       DEF Atomic!joinQueue, Alone!joinQueue, Alone!vars, Atomic!vars
  <2> QED
    BY <1>1, <2>1 DEF Alone!Serve
<1>5. CASE Atomic!leaveQueue(r, a)
  <2>1. Alone!leaveQueue(r, a)
    BY <1>5, AloneSlotStatements, AloneUserStatements
       DEF Atomic!leaveQueue, Alone!leaveQueue, Alone!vars, Atomic!vars
  <2> QED
    BY <1>1, <2>1 DEF Alone!Serve
<1>6. CASE Atomic!createSlot(r, a) \/ Atomic!patchSlot(r, a)
  <2>1. Alone!createSlot(r, a) \/ Alone!patchSlot(r, a)
    BY <1>6, AloneSlotStatements
       DEF Atomic!createSlot, Alone!createSlot, Atomic!patchSlot, Alone!patchSlot
  <2> QED
    BY <1>1, <2>1 DEF Alone!Serve
<1>7. CASE Atomic!deleteSlot(r, a) \/ Atomic!deleteUser(r, a)
  <2>1. Alone!deleteSlot(r, a) \/ Alone!deleteUser(r, a)
    BY <1>7, AloneSlotStatements, AloneUserStatements
       DEF Atomic!deleteSlot, Alone!deleteSlot, Atomic!deleteUser, Alone!deleteUser
  <2> QED
    BY <1>1, <2>1 DEF Alone!Serve
<1> QED
  BY <1>2, <1>3, <1>4, <1>5, <1>6, <1>7 DEF Atomic!Serve

LEMMA AloneSpec == AtomicSpec => Alone!Spec
<1>1. Atomic!Init => Alone!Init
  BY AloneSlotStatements DEF Atomic!Init, Alone!Init, Atomic!InitSlots, Alone!InitSlots, Atomic!InitUsers, Alone!InitUsers
<1>2. [Atomic!Next]_(Atomic!vars) => [Alone!Next]_(Alone!vars)
  <2>1. Atomic!Requests = Alone!Requests /\ Atomic!Answers = Alone!Answers
    BY DEF Atomic!Requests, Alone!Requests, Atomic!Answers, Alone!Answers, Atomic!SeatOps, Alone!SeatOps
  <2> QED
    BY <2>1, AloneServes DEF Atomic!Next, Alone!Next, Atomic!vars, Alone!vars
<1> QED
  BY <1>1, <1>2, PTL DEF AtomicSpec, Atomic!Spec, Alone!Spec

(* The assumptions of AtomicBookingProofs are those of this module.        *)
LEMMA AloneAssumptions ==
  /\ Ops \subseteq Alone!AllOps
  /\ Capacities \subseteq Int /\ Capacities # {}
  /\ NoUser \notin Users
BY OpsAssumption, CapacitiesAssumption, NoUserAssumption
   DEF AllOps, Alone!AllOps, SeatOps, Alone!SeatOps

LEMMA AloneAgrees == Alone!Spec => [](Alone!TypeOK /\ Alone!RowsAgree)
BY AloneAssumptions, Alone!Agreement DEF Alone!Agreement

LEMMA AloneSeats ==
  ASSUME Alone!Steady
  PROVE  Alone!Spec => [](Alone!QueueOnlyWhenFull /\ Alone!OnePlaceEach)
BY AloneAssumptions, Alone!QueuesAndPlaces DEF Alone!QueuesAndPlaces

LEMMA AloneTurns ==
  ASSUME Alone!Steady
  PROVE  Alone!Spec => Alone!SeatsGoToTheHead
BY AloneAssumptions, Alone!NoOvertaking DEF Alone!NoOvertaking

(* However the statements of the workers interleave, fail and are undone,  *)
(* the two copies of each booking agree in what is committed               *)
(* (slot_routes.cpp:63-78, queue_routes.cpp:14-44).                        *)
THEOREM CommittedCopies == Spec => []CommittedRowsAgree
<1>1. Alone!RowsAgree => Atomic!RowsAgree
  BY AloneSlotStatements DEF Alone!RowsAgree, Atomic!RowsAgree
<1> QED
  BY <1>1, Refines, AloneSpec, AloneAgrees, PTL DEF CommittedRowsAgree

(* The two kinds of request that break the promises about seats.           *)
SteadyOps == Ops \cap {"patchSlot", "deleteUser"} = {}

(* is_full is read before the handler waits for the users row and is used  *)
(* after it; the lock on the slot's row keeps it true, so that no seat is  *)
(* free beside a queue (slot_routes.cpp:65-76, queue_routes.cpp:16-41).    *)
THEOREM SeatsBehindLocks ==
  ASSUME SteadyOps
  PROVE  Spec => []CommittedSeats
<1>1. Alone!QueueOnlyWhenFull => Atomic!QueueOnlyWhenFull
  BY AloneSlotStatements DEF Alone!QueueOnlyWhenFull, Atomic!QueueOnlyWhenFull
<1>2. Alone!OnePlaceEach => Atomic!OnePlaceEach
  BY DEF Alone!OnePlaceEach, Atomic!OnePlaceEach
<1>3. Alone!Spec => [](Alone!QueueOnlyWhenFull /\ Alone!OnePlaceEach)
  BY AloneSeats DEF SteadyOps, Alone!Steady
<1> QED
  BY <1>1, <1>2, <1>3, Refines, AloneSpec, PTL DEF CommittedSeats

(* Whoever asks for a seat meanwhile, a free one goes to the head of the   *)
(* queue (slot_routes.cpp:72-74, 97-105).                                  *)
THEOREM TurnsBehindLocks ==
  ASSUME SteadyOps
  PROVE  Spec => Atomic!SeatsGoToTheHead
<1>1. Alone!Spec => Alone!SeatsGoToTheHead
  BY AloneTurns DEF SteadyOps, Alone!Steady
<1>2. Alone!SeatsGoToTheHead => Atomic!SeatsGoToTheHead
  <2>1. \A arr : Alone!Members(arr) = Atomic!Members(arr)
    BY AloneSlotStatements
  <2> DEFINE A == \A s \in Slots :
       dbSlots[s].queue # << >> =>
         Alone!Members(dbSlots[s].enrolled)' \ Alone!Members(dbSlots[s].enrolled) \subseteq {Head(dbSlots[s].queue)}
             B == \A s \in Slots :
       dbSlots[s].queue # << >> =>
         Atomic!Members(dbSlots[s].enrolled)' \ Atomic!Members(dbSlots[s].enrolled) \subseteq {Head(dbSlots[s].queue)}
  <2>2. [A]_(Alone!vars) => [B]_(Atomic!vars)
    BY <2>1 DEF Alone!vars, Atomic!vars
  <2> QED
    BY <2>2, PTL DEF Alone!SeatsGoToTheHead, Atomic!SeatsGoToTheHead
<1> QED
  BY <1>1, <1>2, Refines, AloneSpec, PTL
=============================================================================
