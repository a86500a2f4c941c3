-------------------------- MODULE WeeklyResetProofs --------------------------
(***************************************************************************)
(* The scheduler beside the booking requests, for all users, slots, weeks  *)
(* and faults.  Between the two statements of a reset the copies of a      *)
(* booking do not agree, so Agreement is no help: one half of it, that a   *)
(* user's lists are honoured by the slots' arrays, is inductive by itself, *)
(* and a reset restores it by emptying the lists.                          *)
(***************************************************************************)
EXTENDS WeeklyReset, AtomicBookingProofs

TablesOK(sl, us) == SlotsOK(sl) /\ UsersOK(us)

Honoured(sl, us) ==
  \A u \in Users, s \in Slots :
    /\ s \in us[u].enrolled => u \in Members(sl[s].enrolled)
    /\ s \in us[u].queued => u \in Members(sl[s].queue)

(* What is kept whether or not the tables are honoured, and what is kept   *)
(* when they are.                                                          *)
Kept(sl, us, sl2, us2) ==
  /\ TablesOK(sl2, us2)
  /\ Honoured(sl, us) => Honoured(sl2, us2)

LEMMA KeptTwice ==
  ASSUME NEW sl, NEW us, NEW sl2, NEW us2, NEW sl3, NEW us3,
         Kept(sl, us, sl2, us2), Kept(sl2, us2, sl3, us3)
  PROVE  Kept(sl, us, sl3, us3)
BY DEF Kept

-----------------------------------------------------------------------------
(* The pairs of statements of the handlers.                                *)
LEMMA EnrolHonours ==
  ASSUME NEW sl, NEW us, TablesOK(sl, us), NEW u \in Users, NEW s \in Slots, Live(sl[s])
  PROVE  Kept(sl, us, addEntry(sl, u, s), addEnrollment(us, u, s))
<1> DEFINE sl2 == addEntry(sl, u, s)
           us2 == addEnrollment(us, u, s)
<1>1. TablesOK(sl2, us2)
  BY AddEntry, UserStatements DEF TablesOK
<1>2. ASSUME Honoured(sl, us), NEW v \in Users, NEW t \in Slots
      PROVE  /\ t \in us2[v].enrolled => v \in Members(sl2[t].enrolled)
             /\ t \in us2[v].queued => v \in Members(sl2[t].queue)
  <2>1. ListsAfter(us2[v], us[v], v = u, us[v].enrolled \cup {s}, us[v].queued)
    BY UserLists DEF TablesOK
  <2>2. ~Live(us[v]) => us[v].enrolled = {} /\ us[v].queued = {}
    BY DEF TablesOK, UsersOK
  <2>3. ~Live(sl[t]) => Members(sl[t].enrolled) = {} /\ Members(sl[t].queue) = {}
    BY DEF TablesOK, SlotsOK, Members
  <2>4. /\ sl2[t].queue = sl[t].queue
        /\ Members(sl2[t].enrolled) = IF t = s /\ Live(sl[s])
                                     THEN Members(sl[t].enrolled) \cup {u}
                                     ELSE Members(sl[t].enrolled)
    BY AddEntry DEF TablesOK
  <2>5. /\ t \in us[v].enrolled => v \in Members(sl[t].enrolled)
        /\ t \in us[v].queued => v \in Members(sl[t].queue)
    BY <1>2 DEF Honoured
  <2> HIDE DEF sl2, us2
  <2> QED
    BY <2>1, <2>2, <2>3, <2>4, <2>5 DEF ListsAfter
<1> HIDE DEF sl2, us2
<1>3. Kept(sl, us, sl2, us2)
  BY <1>1, <1>2 DEF Kept, Honoured
<1> QED
  BY <1>3 DEF sl2, us2

LEMMA UnenrolHonours ==
  ASSUME NEW sl, NEW us, TablesOK(sl, us), NEW u \in Users, NEW s \in Slots
  PROVE  Kept(sl, us, removeEntry(sl, u, s), removeEnrollment(us, u, s))
<1> DEFINE sl2 == removeEntry(sl, u, s)
           us2 == removeEnrollment(us, u, s)
<1>1. TablesOK(sl2, us2)
  BY RemoveEntry, UserStatements DEF TablesOK
<1>2. ASSUME Honoured(sl, us), NEW v \in Users, NEW t \in Slots
      PROVE  /\ t \in us2[v].enrolled => v \in Members(sl2[t].enrolled)
             /\ t \in us2[v].queued => v \in Members(sl2[t].queue)
  <2>1. ListsAfter(us2[v], us[v], v = u, us[v].enrolled \ {s}, us[v].queued)
    BY UserLists DEF TablesOK
  <2>2. ~Live(us[v]) => us[v].enrolled = {} /\ us[v].queued = {}
    BY DEF TablesOK, UsersOK
  <2>3. ~Live(sl[t]) => Members(sl[t].enrolled) = {} /\ Members(sl[t].queue) = {}
    BY DEF TablesOK, SlotsOK, Members
  <2>4. /\ sl2[t].queue = sl[t].queue
        /\ Members(sl2[t].enrolled) = IF t = s /\ Live(sl[s])
                                     THEN Members(sl[t].enrolled) \ {u}
                                     ELSE Members(sl[t].enrolled)
    BY RemoveEntry DEF TablesOK
  <2>5. /\ t \in us[v].enrolled => v \in Members(sl[t].enrolled)
        /\ t \in us[v].queued => v \in Members(sl[t].queue)
    BY <1>2 DEF Honoured
  <2> HIDE DEF sl2, us2
  <2> QED
    BY <2>1, <2>2, <2>3, <2>4, <2>5 DEF ListsAfter
<1> HIDE DEF sl2, us2
<1>3. Kept(sl, us, sl2, us2)
  BY <1>1, <1>2 DEF Kept, Honoured
<1> QED
  BY <1>3 DEF sl2, us2

LEMMA QueueHonours ==
  ASSUME NEW sl, NEW us, TablesOK(sl, us), NEW u \in Users, NEW s \in Slots, Live(sl[s])
  PROVE  Kept(sl, us, addToQueue(sl, u, s), addQueuedSlot(us, u, s))
<1> DEFINE sl2 == addToQueue(sl, u, s)
           us2 == addQueuedSlot(us, u, s)
<1>1. TablesOK(sl2, us2)
  BY AddToQueue, UserStatements DEF TablesOK
<1>2. ASSUME Honoured(sl, us), NEW v \in Users, NEW t \in Slots
      PROVE  /\ t \in us2[v].enrolled => v \in Members(sl2[t].enrolled)
             /\ t \in us2[v].queued => v \in Members(sl2[t].queue)
  <2>1. ListsAfter(us2[v], us[v], v = u, us[v].enrolled, us[v].queued \cup {s})
    BY UserLists DEF TablesOK
  <2>2. ~Live(us[v]) => us[v].enrolled = {} /\ us[v].queued = {}
    BY DEF TablesOK, UsersOK
  <2>3. ~Live(sl[t]) => Members(sl[t].enrolled) = {} /\ Members(sl[t].queue) = {}
    BY DEF TablesOK, SlotsOK, Members
  <2>4. /\ sl2[t].enrolled = sl[t].enrolled
        /\ Members(sl2[t].queue) = IF t = s /\ Live(sl[s])
                                     THEN Members(sl[t].queue) \cup {u}
                                     ELSE Members(sl[t].queue)
    BY AddToQueue DEF TablesOK
  <2>5. /\ t \in us[v].enrolled => v \in Members(sl[t].enrolled)
        /\ t \in us[v].queued => v \in Members(sl[t].queue)
    BY <1>2 DEF Honoured
  <2> HIDE DEF sl2, us2
  <2> QED
    BY <2>1, <2>2, <2>3, <2>4, <2>5 DEF ListsAfter
<1> HIDE DEF sl2, us2
<1>3. Kept(sl, us, sl2, us2)
  BY <1>1, <1>2 DEF Kept, Honoured
<1> QED
  BY <1>3 DEF sl2, us2

LEMMA UnqueueHonours ==
  ASSUME NEW sl, NEW us, TablesOK(sl, us), NEW u \in Users, NEW s \in Slots
  PROVE  Kept(sl, us, removeFromQueue(sl, u, s), removeQueuedSlot(us, u, s))
<1> DEFINE sl2 == removeFromQueue(sl, u, s)
           us2 == removeQueuedSlot(us, u, s)
<1>1. TablesOK(sl2, us2)
  BY RemoveFromQueue, UserStatements DEF TablesOK
<1>2. ASSUME Honoured(sl, us), NEW v \in Users, NEW t \in Slots
      PROVE  /\ t \in us2[v].enrolled => v \in Members(sl2[t].enrolled)
             /\ t \in us2[v].queued => v \in Members(sl2[t].queue)
  <2>1. ListsAfter(us2[v], us[v], v = u, us[v].enrolled, us[v].queued \ {s})
    BY UserLists DEF TablesOK
  <2>2. ~Live(us[v]) => us[v].enrolled = {} /\ us[v].queued = {}
    BY DEF TablesOK, UsersOK
  <2>3. ~Live(sl[t]) => Members(sl[t].enrolled) = {} /\ Members(sl[t].queue) = {}
    BY DEF TablesOK, SlotsOK, Members
  <2>4. /\ sl2[t].enrolled = sl[t].enrolled
        /\ Members(sl2[t].queue) = IF t = s /\ Live(sl[s])
                                     THEN Members(sl[t].queue) \ {u}
                                     ELSE Members(sl[t].queue)
    BY RemoveFromQueue DEF TablesOK
  <2>5. /\ t \in us[v].enrolled => v \in Members(sl[t].enrolled)
        /\ t \in us[v].queued => v \in Members(sl[t].queue)
    BY <1>2 DEF Honoured
  <2> HIDE DEF sl2, us2
  <2> QED
    BY <2>1, <2>2, <2>3, <2>4, <2>5 DEF ListsAfter
<1> HIDE DEF sl2, us2
<1>3. Kept(sl, us, sl2, us2)
  BY <1>1, <1>2 DEF Kept, Honoured
<1> QED
  BY <1>3 DEF sl2, us2

LEMMA PromoteHonours ==
  ASSUME NEW sl, NEW us, TablesOK(sl, us), NEW u \in Users, NEW s \in Slots, Live(sl[s])
  PROVE  Kept(sl, us, promoteSlots(sl, u, s), promoteUsers(us, u, s))
<1> DEFINE sl2 == removeFromQueue(sl, u, s)
           us2 == removeQueuedSlot(us, u, s)
<1>1. Kept(sl, us, sl2, us2)
  BY UnqueueHonours
<1>2. Live(sl2[s])
  BY RemoveFromQueue DEF TablesOK, Live
<1> HIDE DEF sl2, us2
<1>3. Kept(sl2, us2, addEntry(sl2, u, s), addEnrollment(us2, u, s))
  BY <1>1, <1>2, EnrolHonours DEF Kept
<1>4. Kept(sl, us, addEntry(sl2, u, s), addEnrollment(us2, u, s))
  BY <1>1, <1>3, KeptTwice
<1> QED
  BY <1>4 DEF sl2, us2, promoteSlots, promoteUsers

(* The requests of the administrators.                                     *)
LEMMA CreateHonours ==
  ASSUME NEW sl, NEW us, TablesOK(sl, us), NEW s \in Slots, sl[s].st = "unborn",
         NEW c \in Capacities
  PROVE  Kept(sl, us, insertSlot(sl, s, c), us)
<1>1. \A t \in Slots : insertSlot(sl, s, c)[t] = IF t = s THEN EmptySlot("live", c) ELSE sl[t]
  BY InsertSlot DEF TablesOK
<1>2. TablesOK(insertSlot(sl, s, c), us)
  BY InsertSlot DEF TablesOK
<1>3. sl[s].enrolled = << >> /\ sl[s].queue = << >>
  BY DEF TablesOK, SlotsOK, Live
<1>4. EmptySlot("live", c).enrolled = << >> /\ EmptySlot("live", c).queue = << >>
  BY DEF EmptySlot
<1>5. \A t \in Slots : /\ insertSlot(sl, s, c)[t].enrolled = sl[t].enrolled
                       /\ insertSlot(sl, s, c)[t].queue = sl[t].queue
  BY <1>1, <1>3, <1>4
<1> QED
  BY <1>2, <1>5 DEF Kept, Honoured

LEMMA PatchHonours ==
  ASSUME NEW sl, NEW us, TablesOK(sl, us), NEW s \in Slots, NEW c \in Capacities
  PROVE  Kept(sl, us, changeSlotInfo(sl, s, c), us)
BY ChangeSlotInfo DEF TablesOK, Kept, Honoured

LEMMA StrikeHonours ==
  ASSUME NEW sl, NEW us, TablesOK(sl, us), NEW s \in Slots
  PROVE  Kept(sl, us, deleteSlotRow(sl, s), strike(sl, us, s))
<1> DEFINE new == strike(sl, us, s)
<1>1. new = [u \in Users |-> new[u]]
  BY DEF strike
<1>2. ASSUME NEW u \in Users
      PROVE  /\ new[u] \in UserRow
             /\ new[u].st = us[u].st
             /\ new[u].enrolled = IF u \in Members(sl[s].enrolled)
                                  THEN us[u].enrolled \ {s} ELSE us[u].enrolled
             /\ new[u].queued = IF u \in Members(sl[s].queue)
                                THEN us[u].queued \ {s} ELSE us[u].queued
  BY DEF TablesOK, UsersOK, UserRow, strike
<1> HIDE DEF new
<1>3. UsersOK(new)
  BY <1>1, <1>2 DEF TablesOK, UsersOK, Live
<1>4. ASSUME Honoured(sl, us), NEW u \in Users, NEW t \in Slots
      PROVE  /\ t \in new[u].enrolled => u \in Members(deleteSlotRow(sl, s)[t].enrolled)
             /\ t \in new[u].queued => u \in Members(deleteSlotRow(sl, s)[t].queue)
  <2>1. /\ t \in us[u].enrolled => u \in Members(sl[t].enrolled)
        /\ t \in us[u].queued => u \in Members(sl[t].queue)
    BY <1>4 DEF Honoured
  <2>2. t # s => deleteSlotRow(sl, s)[t] = sl[t]
    BY DeleteSlotRow DEF TablesOK
  <2> QED
    BY <1>2, <2>1, <2>2
<1> QED
  BY <1>3, <1>4, DeleteSlotRow DEF TablesOK, Kept, Honoured, new

LEMMA DeleteUserHonours ==
  ASSUME NEW sl, NEW us, TablesOK(sl, us), NEW u \in Users
  PROVE  Kept(sl, us, sl, deleteUserRow(us, u))
<1>1. UsersOK(deleteUserRow(us, u))
  BY DeleteUserRow DEF TablesOK
<1>2. \A v \in Users : deleteUserRow(us, u)[v] = us[v]
                       \/ (deleteUserRow(us, u)[v].enrolled = {} /\ deleteUserRow(us, u)[v].queued = {})
  BY DEF TablesOK, UsersOK, OnUser, deleteUserRow
<1> QED
  BY <1>1, <1>2 DEF TablesOK, Kept, Honoured

LEMMA ServeKeeps ==
  ASSUME TablesOK(slots, users), NEW r \in Requests, NEW a \in Answers, Serve(r, a)
  PROVE  Kept(slots, users, slots', users')
<1> USE DEF vars
<1>1. CASE UNCHANGED vars
  BY <1>1 DEF Kept
<1>2. CASE /\ Live(slots[r.slot]) /\ r.user \in Users /\ r.slot \in Slots
           /\ slots' = addEntry(slots, r.user, r.slot)
           /\ users' = addEnrollment(users, r.user, r.slot)
  BY <1>2, EnrolHonours
<1>3. CASE addUserEntry(r, a)
  <2>1. r.user \in Users /\ r.slot \in Slots
    BY <1>3, RequestFields DEF addUserEntry, SeatOps
  <2> QED
    BY <1>1, <1>2, <1>3, <2>1 DEF addUserEntry
<1>4. CASE deleteUserEntry(r, a)
  <2> DEFINE left == removeEntry(slots, r.user, r.slot)
             freed == removeEnrollment(users, r.user, r.slot)
             next == getFirstInQueue(left, r.slot)
  <2>1. r.user \in Users /\ r.slot \in Slots
    BY <1>4, RequestFields DEF deleteUserEntry, SeatOps
  <2>2. Kept(slots, users, left, freed)
    BY <2>1, UnenrolHonours
  <2>3. CASE slots' = left /\ users' = freed
    BY <2>2, <2>3
  <2>4. CASE /\ next # NoUser
             /\ slots' = promoteSlots(left, next, r.slot)
             /\ users' = promoteUsers(freed, next, r.slot)
    <3>1. next \in Users /\ Live(left[r.slot])
      <4> HIDE DEF left
      <4> QED
        BY <2>1, <2>2, <2>4, FirstInQueue DEF Kept, TablesOK
    <3> HIDE DEF left, freed, next
    <3>2. Kept(left, freed, slots', users')
      BY <2>1, <2>2, <2>4, <3>1, PromoteHonours DEF Kept
    <3> QED
      BY <2>2, <3>2, KeptTwice
  <2> QED
    BY <1>4, <2>3, <2>4 DEF deleteUserEntry
<1>5. CASE joinQueue(r, a)
  <2>1. r.user \in Users /\ r.slot \in Slots
    BY <1>5, RequestFields DEF joinQueue, SeatOps
  <2>2. CASE /\ Live(slots[r.slot])
             /\ slots' = addToQueue(slots, r.user, r.slot)
             /\ users' = addQueuedSlot(users, r.user, r.slot)
    BY <2>1, <2>2, QueueHonours
  <2> QED
    BY <1>1, <1>2, <1>5, <2>1, <2>2 DEF joinQueue
<1>6. CASE leaveQueue(r, a)
  <2>1. r.user \in Users /\ r.slot \in Slots
    BY <1>6, RequestFields DEF leaveQueue, SeatOps
  <2>2. CASE /\ slots' = removeFromQueue(slots, r.user, r.slot)
             /\ users' = removeQueuedSlot(users, r.user, r.slot)
    BY <2>1, <2>2, UnqueueHonours
  <2> QED
    BY <1>1, <1>6, <2>2 DEF leaveQueue
<1>7. CASE createSlot(r, a)
  BY <1>7, RequestFields, CreateHonours DEF createSlot, Serve, Nameable
<1>8. CASE patchSlot(r, a)
  BY <1>8, RequestFields, PatchHonours DEF patchSlot
<1>9. CASE deleteSlot(r, a)
  BY <1>9, RequestFields, StrikeHonours DEF deleteSlot
<1>10. CASE deleteUser(r, a)
  BY <1>10, RequestFields, DeleteUserHonours DEF deleteUser
<1> QED
  BY <1>3, <1>4, <1>5, <1>6, <1>7, <1>8, <1>9, <1>10 DEF Serve

-----------------------------------------------------------------------------
(* The scheduler's variables: last_reset lies before the reset under way,  *)
(* which began in this week or before.                                     *)
SchedulerOK ==
  /\ week \in 1..MaxWeek /\ morning \in BOOLEAN
  /\ last_reset \in 0..week /\ resetting \in 0..week
  /\ resetting # 0 => last_reset < resetting
  /\ shifts \in Nat
  /\ failures \in 0..MaxFailures /\ restarts \in 0..MaxRestarts

(* A week's reset that is still to begin has a fault to answer for it if   *)
(* it is not the first.                                                    *)
RepeatsOK ==
  /\ shifts <= 1 + failures + restarts
  /\ ~morning /\ last_reset < week /\ resetting # week => shifts <= failures + restarts

WInv ==
  /\ TablesOK(slots, users)
  /\ SchedulerOK
  /\ RepeatsOK
  /\ Honoured(slots, users) \/ last_reset < DueWeek

LEMMA WInvImplies == WInv => ResetTypeOK /\ RepeatsNeedFaults /\ ListsAreHonoured
<1> SUFFICES ASSUME WInv PROVE ResetTypeOK /\ RepeatsNeedFaults /\ ListsAreHonoured
  OBVIOUS
<1>1. TypeOK
  BY DEF WInv, TablesOK, SlotsOK, UsersOK, TypeOK
<1>2. ResetTypeOK
  <2>1. last_reset \in 0..MaxWeek /\ resetting \in 0..MaxWeek
    BY WeeksAssumption DEF WInv, SchedulerOK
  <2> QED
    BY <1>1, <2>1 DEF WInv, SchedulerOK, ResetTypeOK
<1>3. RepeatsNeedFaults
  BY DEF WInv, RepeatsOK, RepeatsNeedFaults
<1>4. ListsAreHonoured
  <2> SUFFICES ASSUME last_reset >= DueWeek, NEW u \in Users
               PROVE  /\ users[u].enrolled \subseteq {s \in Slots : u \in Members(slots[s].enrolled)}
                      /\ users[u].queued \subseteq {s \in Slots : u \in Members(slots[s].queue)}
    BY DEF ListsAreHonoured
  <2>1. ~(last_reset < DueWeek)
    BY DEF WInv, SchedulerOK, DueWeek
  <2>2. Honoured(slots, users)
    BY <2>1 DEF WInv
  <2>3. users[u].enrolled \subseteq Slots /\ users[u].queued \subseteq Slots
    BY DEF WInv, TablesOK, UsersOK, UserRow
  <2> QED
    BY <2>2, <2>3 DEF Honoured
<1> QED
  BY <1>2, <1>3, <1>4

LEMMA InitWInv == ResetInit => WInv
<1> SUFFICES ASSUME ResetInit PROVE WInv
  OBVIOUS
<1>1. Consistent(slots, users)
  BY InitAgrees DEF ResetInit, Init
<1>2. TablesOK(slots, users)
  BY <1>1 DEF Consistent, TablesOK
<1>3. Honoured(slots, users)
  BY DEF ResetInit, Init, InitUsers, Honoured
<1>4. SchedulerOK
  <2>1. week = 1 /\ last_reset = 0 /\ resetting = 0 /\ shifts = 0 /\ failures = 0 /\ restarts = 0
    BY DEF ResetInit
  <2>2. morning \in BOOLEAN
    BY Zenon DEF ResetInit
  <2> QED
    BY <2>1, <2>2, WeeksAssumption DEF SchedulerOK
<1>5. RepeatsOK
  BY DEF ResetInit, RepeatsOK
<1> QED
  BY <1>2, <1>3, <1>4, <1>5 DEF WInv

(* The clock, a failure, or a restart: the tables stay as they are.        *)
LEMMA ClockStep == WInv /\ Clock => WInv'
<1> SUFFICES ASSUME WInv, Clock PROVE WInv'
  OBVIOUS
<1>1. UNCHANGED << slots, users, last_reset, resetting, failures, restarts >>
  BY DEF Clock, vars, scheduler, bounded
<1>2. morning' \in BOOLEAN
  BY Zenon DEF Clock
<1>3. (morning /\ ~morning' /\ shifts' = 0 /\ week' = week)
      \/ (~morning /\ week < MaxWeek /\ morning' /\ week' = week + 1 /\ shifts' = shifts)
  BY DEF Clock
<1>4. SchedulerOK'
  BY <1>1, <1>2, <1>3, WeeksAssumption DEF WInv, SchedulerOK
<1>5. RepeatsOK'
  BY <1>1, <1>3 DEF WInv, SchedulerOK, RepeatsOK
<1>6. DueWeek <= DueWeek' /\ DueWeek \in Int /\ DueWeek' \in Int
  BY <1>3 DEF WInv, SchedulerOK, DueWeek
<1>7. last_reset < DueWeek => last_reset' < DueWeek'
  BY <1>1, <1>6 DEF WInv, SchedulerOK
<1>8. Honoured(slots, users) => Honoured(slots, users)'
  BY <1>1 DEF Honoured
<1>9. TablesOK(slots, users)'
  BY <1>1 DEF WInv
<1> QED
  BY <1>4, <1>5, <1>7, <1>8, <1>9 DEF WInv

LEMMA FaultSteps == WInv /\ (resetFails \/ Restart) => WInv'
<1> SUFFICES ASSUME WInv, resetFails \/ Restart PROVE WInv'
  OBVIOUS
<1>1. /\ UNCHANGED << slots, users, week, morning, shifts >>
      /\ resetting' = 0 /\ last_reset' \in {0, last_reset}
      /\ \/ failures < MaxFailures /\ failures' = failures + 1 /\ restarts' = restarts
         \/ restarts < MaxRestarts /\ restarts' = restarts + 1 /\ failures' = failures
  BY DEF resetFails, Restart, vars, clock
<1>2. SchedulerOK'
  BY <1>1, WeeksAssumption DEF WInv, SchedulerOK
<1>3. RepeatsOK'
  BY <1>1, WeeksAssumption DEF WInv, SchedulerOK, RepeatsOK
<1>4. last_reset < DueWeek => last_reset' < DueWeek'
  BY <1>1 DEF WInv, SchedulerOK, DueWeek
<1>5. Honoured(slots, users) => Honoured(slots, users)'
  BY <1>1 DEF Honoured
<1>6. TablesOK(slots, users)'
  BY <1>1 DEF WInv
<1> QED
  BY <1>2, <1>3, <1>4, <1>5, <1>6 DEF WInv

LEMMA RequestStep == WInv /\ Request => WInv'
<1> SUFFICES ASSUME WInv, Request PROVE WInv'
  OBVIOUS
<1>1. PICK r \in Requests, a \in Answers : Serve(r, a)
  BY DEF Request, Next
<1>2. UNCHANGED << week, morning, last_reset, resetting, shifts, failures, restarts >>
  BY DEF Request, clock, scheduler, bounded
<1>3. Kept(slots, users, slots', users')
  BY <1>1, ServeKeeps DEF WInv
<1>4. DueWeek' = DueWeek
  BY <1>2 DEF DueWeek
<1>5. SchedulerOK' /\ RepeatsOK'
  BY <1>2 DEF WInv, SchedulerOK, RepeatsOK
<1> QED
  BY <1>2, <1>3, <1>4, <1>5 DEF WInv, Kept

LEMMA ResetSlotsStep == WInv /\ resetSlots => WInv'
<1> SUFFICES ASSUME WInv, resetSlots PROVE WInv'
  OBVIOUS
<1>1. /\ UNCHANGED << users, week, morning, last_reset, failures, restarts >>
      /\ resetting = 0 /\ ~morning /\ week > last_reset
      /\ shifts' = shifts + 1 /\ resetting' = week
  BY DEF resetSlots, Due, clock, bounded
<1>2. ASSUME NEW s \in Slots, Live(slots[s])
      PROVE  LET row == EmptySlot("live", slots[s].cap)
             IN  row \in SlotRow /\ row.st = "live" /\ row.enrolled = << >> /\ row.queue = << >>
  BY SlotFields DEF WInv, TablesOK, EmptySlot, SlotRow
<1>3. SlotsOK(slots')
  <2>1. slots' = [s \in Slots |-> IF Live(slots[s]) THEN EmptySlot("live", slots[s].cap) ELSE slots[s]]
    BY DEF resetSlots
  <2> QED
    BY <1>2, <2>1 DEF WInv, TablesOK, SlotsOK, Live
<1>4. TablesOK(slots, users)'
  BY <1>1, <1>3 DEF WInv, TablesOK
<1>5. SchedulerOK'
  BY <1>1 DEF WInv, SchedulerOK
<1>6. RepeatsOK'
  BY <1>1, WeeksAssumption DEF WInv, SchedulerOK, RepeatsOK
<1>7. last_reset' < DueWeek'
  BY <1>1 DEF WInv, SchedulerOK, DueWeek
<1> QED
  BY <1>4, <1>5, <1>6, <1>7 DEF WInv

LEMMA ResetUsersStep == WInv /\ resetUsers => WInv'
<1> SUFFICES ASSUME WInv, resetUsers PROVE WInv'
  OBVIOUS
<1>1. /\ UNCHANGED << slots, week, morning, shifts, failures, restarts >>
      /\ resetting # 0 /\ last_reset' = resetting /\ resetting' = 0
  BY DEF resetUsers, clock, bounded
<1>8. users' = [u \in Users |-> [users[u] EXCEPT !.enrolled = {}, !.queued = {}]]
  BY DEF resetUsers
<1>2. ASSUME NEW u \in Users
      PROVE  users'[u] \in UserRow /\ users'[u].enrolled = {} /\ users'[u].queued = {}
  <2>1. users[u] \in UserRow
    BY DEF WInv, TablesOK, UsersOK
  <2>2. users'[u] = [st |-> users[u].st, enrolled |-> {}, queued |-> {}]
    BY <1>8, <2>1 DEF UserRow
  <2> QED
    BY <2>1, <2>2 DEF UserRow
<1>3. users' = [u \in Users |-> users'[u]]
  BY <1>8
<1>4. UsersOK(users') /\ Honoured(slots', users')
  BY <1>2, <1>3 DEF UsersOK, Honoured
<1>5. TablesOK(slots, users)'
  BY <1>1, <1>4 DEF WInv, TablesOK
<1>6. SchedulerOK'
  <2>1. last_reset' \in 0..week' /\ resetting' \in 0..week'
    BY <1>1, WeeksAssumption DEF WInv, SchedulerOK
  <2> QED
    BY <1>1, <2>1 DEF WInv, SchedulerOK
<1>7. RepeatsOK'
  <2>1. ~morning /\ resetting < week => shifts <= failures + restarts
    BY <1>1, WeeksAssumption DEF WInv, SchedulerOK, RepeatsOK
  <2> QED
    BY <1>1, <2>1 DEF WInv, RepeatsOK
<1> QED
  BY <1>4, <1>5, <1>6, <1>7 DEF WInv

LEMMA NextWInv == WInv /\ [ResetNext]_resetVars => WInv'
<1> SUFFICES ASSUME WInv, [ResetNext]_resetVars PROVE WInv'
  OBVIOUS
<1>1. CASE UNCHANGED resetVars
  BY <1>1 DEF resetVars, vars, clock, scheduler, bounded, WInv, TablesOK, Honoured, SchedulerOK,
              RepeatsOK, DueWeek
<1>2. CASE ResetNext
  BY <1>2, ClockStep, RequestStep, ResetSlotsStep, ResetUsersStep, FaultSteps DEF ResetNext
<1> QED
  BY <1>1, <1>2

LEMMA ResetInvariance == ResetSpec => []WInv
BY InitWInv, NextWInv, PTL DEF ResetSpec

-----------------------------------------------------------------------------
(* The tables and the scheduler's variables have their types.              *)
THEOREM ResetTypeCorrect == ResetSpec => []ResetTypeOK
BY ResetInvariance, WInvImplies, PTL

(* However requests, failures and restarts fall between the statements of  *)
(* a reset, once none is outstanding the slots hold all that users see in  *)
(* their lists.                                                            *)
THEOREM ListsHonoured == ResetSpec => []ListsAreHonoured
BY ResetInvariance, WInvImplies, PTL

(* Each repetition of a week's reset has a failure or a restart behind it. *)
THEOREM NoIdleRepeats == ResetSpec => []RepeatsNeedFaults
BY ResetInvariance, WInvImplies, PTL
=============================================================================
