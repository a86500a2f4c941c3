------------------------- MODULE AtomicBookingProofs -------------------------
(***************************************************************************)
(* The two copies of every booking agree, for all users, slots, capacities *)
(* and kinds of request.  The invariant is inductive together with the     *)
(* types: an absent row holds nothing, so a pair of statements that misses *)
(* the slot row has nothing to remove from it either.                      *)
(***************************************************************************)
EXTENDS AtomicBooking, BookingRowsProofs

LEMMA ConsistentMeans ==
  Consistent(slots, users) <=> TypeOK /\ RowsAgree
<1>1. (SlotsOK(slots) /\ UsersOK(users)) <=> TypeOK
  BY DEF SlotsOK, UsersOK, TypeOK
<1>2. ASSUME TypeOK PROVE Agree(slots, users) <=> RowsAgree
  <2>1. \A u \in Users : users[u].enrolled \subseteq Slots /\ users[u].queued \subseteq Slots
    BY <1>2 DEF TypeOK, UserRow
  <2> QED
    BY <2>1 DEF Agree, RowsAgree
<1> QED
  BY <1>1, <1>2 DEF Consistent

LEMMA RequestFields ==
  ASSUME NEW r \in Requests
  PROVE  /\ r.op \in SeatOps => r.user \in Users /\ r.slot \in Slots
         /\ r.op \in {"createSlot", "patchSlot"} => r.slot \in Slots /\ r.cap \in Capacities
         /\ r.op = "deleteSlot" => r.slot \in Slots
         /\ r.op = "deleteUser" => r.user \in Users
BY DEF Requests, SeatOps

LEMMA StepConsistent ==
  ASSUME Consistent(slots, users), NEW r \in Requests, NEW a \in Answers, Serve(r, a)
  PROVE  Consistent(slots, users)'
<1> USE DEF vars
<1>1. CASE addUserEntry(r, a)
  <2>1. r.user \in Users /\ r.slot \in Slots
    BY <1>1, RequestFields DEF addUserEntry, SeatOps
  <2>2. CASE UNCHANGED vars
    BY <2>2
  <2>3. CASE /\ Live(slots[r.slot])
             /\ slots' = addEntry(slots, r.user, r.slot)
             /\ users' = addEnrollment(users, r.user, r.slot)
    BY <2>1, <2>3, EnrolAgrees
  <2> QED
    BY <1>1, <2>2, <2>3 DEF addUserEntry
<1>2. CASE deleteUserEntry(r, a)
  <2>1. r.user \in Users /\ r.slot \in Slots
    BY <1>2, RequestFields DEF deleteUserEntry, SeatOps
  <2> DEFINE left == removeEntry(slots, r.user, r.slot)
             freed == removeEnrollment(users, r.user, r.slot)
             next == getFirstInQueue(left, r.slot)
  <2>2. Consistent(left, freed)
    BY <2>1, UnenrolAgrees
  <2>3. CASE slots' = left /\ users' = freed
    BY <2>2, <2>3
  <2>4. CASE /\ next # NoUser
             /\ slots' = promoteSlots(left, next, r.slot)
             /\ users' = promoteUsers(freed, next, r.slot)
    <3>1. next \in Users /\ Live(left[r.slot])
      <4> HIDE DEF left
      <4> QED
        BY <2>1, <2>2, <2>4, FirstInQueue DEF Consistent
    <3> HIDE DEF left, freed, next
    <3> QED
      BY <2>1, <2>2, <2>4, <3>1, PromoteAgrees
  <2> QED
    BY <1>2, <2>3, <2>4 DEF deleteUserEntry
<1>3. CASE joinQueue(r, a)
  <2>1. r.user \in Users /\ r.slot \in Slots
    BY <1>3, RequestFields DEF joinQueue, SeatOps
  <2>2. CASE UNCHANGED vars
    BY <2>2
  <2>3. CASE /\ Live(slots[r.slot])
             /\ slots' = addEntry(slots, r.user, r.slot)
             /\ users' = addEnrollment(users, r.user, r.slot)
    BY <2>1, <2>3, EnrolAgrees
  <2>4. CASE /\ Live(slots[r.slot])
             /\ slots' = addToQueue(slots, r.user, r.slot)
             /\ users' = addQueuedSlot(users, r.user, r.slot)
    BY <2>1, <2>4, QueueAgrees
  <2> QED
    BY <1>3, <2>2, <2>3, <2>4 DEF joinQueue
<1>4. CASE leaveQueue(r, a)
  <2>1. r.user \in Users /\ r.slot \in Slots
    BY <1>4, RequestFields DEF leaveQueue, SeatOps
  <2>2. CASE UNCHANGED vars
    BY <2>2
  <2>3. CASE /\ slots' = removeFromQueue(slots, r.user, r.slot)
             /\ users' = removeQueuedSlot(users, r.user, r.slot)
    BY <2>1, <2>3, UnqueueAgrees
  <2> QED
    BY <1>4, <2>2, <2>3 DEF leaveQueue
<1>5. CASE createSlot(r, a)
  BY <1>5, RequestFields, CreateAgrees DEF createSlot, Serve, Nameable
<1>6. CASE patchSlot(r, a)
  BY <1>6, RequestFields, PatchAgrees DEF patchSlot
<1>7. CASE deleteSlot(r, a)
  BY <1>7, RequestFields, StrikeAgrees DEF deleteSlot
<1>8. CASE deleteUser(r, a)
  BY <1>8, RequestFields, DeleteUserAgrees DEF deleteUser
<1> QED
  BY <1>1, <1>2, <1>3, <1>4, <1>5, <1>6, <1>7, <1>8 DEF Serve

(* Types are kept and the two copies of every booking agree, whatever the  *)
(* kinds of request in play.                                               *)
THEOREM Agreement == Spec => [](TypeOK /\ RowsAgree)
<1>1. Init => Consistent(slots, users)
  BY InitAgrees DEF Init
<1>2. Consistent(slots, users) /\ [Next]_vars => Consistent(slots, users)'
  BY StepConsistent DEF Next, vars
<1>3. Consistent(slots, users) => TypeOK /\ RowsAgree
  BY ConsistentMeans
<1> QED
  BY <1>1, <1>2, <1>3, PTL DEF Spec

-----------------------------------------------------------------------------
(* Seats and queues.  Three facts hold each other up while no capacity     *)
(* changes and no account is deleted: the lists of a user say where its    *)
(* places are, no user has two places of a slot, and a slot with a queue   *)
(* is full.  addUserEntry, for one, never asks for the queue: that its     *)
(* caller is not in it follows from the capacity it asks for.              *)
Distinct(arr) == \A i, j \in DOMAIN arr : arr[i] = arr[j] => i = j

LEMMA AppendDistinct ==
  ASSUME NEW S, NEW arr \in Seq(S), NEW e \in S
  PROVE  /\ Len(Append(arr, e)) = Len(arr) + 1
         /\ Append(arr, e) # << >>
         /\ Distinct(arr) /\ e \notin Members(arr) => Distinct(Append(arr, e))
<1>1. /\ DOMAIN Append(arr, e) = 1..(Len(arr) + 1)
      /\ Len(Append(arr, e)) = Len(arr) + 1
      /\ DOMAIN arr = 1..Len(arr)
      /\ Len(arr) \in Nat
  OBVIOUS
<1>2. \A i \in 1..(Len(arr) + 1) :
        Append(arr, e)[i] = IF i = Len(arr) + 1 THEN e ELSE arr[i]
  OBVIOUS
<1>3. ASSUME Distinct(arr), e \notin Members(arr),
             NEW i \in 1..(Len(arr) + 1), NEW j \in 1..(Len(arr) + 1),
             Append(arr, e)[i] = Append(arr, e)[j]
      PROVE  i = j
  <2>1. \A k \in 1..Len(arr) : arr[k] # e
    BY <1>1, <1>3 DEF Members
  <2>2. \A k \in 1..(Len(arr) + 1) : k = Len(arr) + 1 \/ k \in 1..Len(arr)
    BY <1>1
  <2> QED
    BY <1>1, <1>2, <1>3, <2>1, <2>2 DEF Distinct
<1>4. Append(arr, e) # << >>
  BY <1>1
<1> QED
  BY <1>1, <1>3, <1>4 DEF Distinct

LEMMA ConcatDistinct ==
  ASSUME NEW S, NEW a \in Seq(S), NEW b \in Seq(S), Distinct(a), Distinct(b),
         Members(a) \cap Members(b) = {}
  PROVE  Distinct(a \o b)
<1>1. /\ DOMAIN (a \o b) = 1..(Len(a) + Len(b))
      /\ Len(a) \in Nat /\ Len(b) \in Nat
      /\ DOMAIN a = 1..Len(a) /\ DOMAIN b = 1..Len(b)
  OBVIOUS
<1>2. \A i \in 1..(Len(a) + Len(b)) :
        (a \o b)[i] = IF i <= Len(a) THEN a[i] ELSE b[i - Len(a)]
  OBVIOUS
<1>3. \A i \in 1..Len(a), j \in 1..Len(b) : a[i] # b[j]
  BY <1>1 DEF Members
<1>4. ASSUME NEW i \in 1..(Len(a) + Len(b)), NEW j \in 1..(Len(a) + Len(b)),
             (a \o b)[i] = (a \o b)[j]
      PROVE  i = j
  <2>1. \A k \in 1..(Len(a) + Len(b)) :
          IF k <= Len(a) THEN k \in 1..Len(a) ELSE k - Len(a) \in 1..Len(b)
    BY <1>1
  <2>2. CASE i <= Len(a) /\ j <= Len(a)
    BY <1>1, <1>2, <1>4, <2>1, <2>2 DEF Distinct
  <2>3. CASE ~(i <= Len(a)) /\ ~(j <= Len(a))
    <3>1. i - Len(a) = j - Len(a)
      BY <1>1, <1>2, <1>4, <2>1, <2>3 DEF Distinct
    <3> QED
      BY <1>1, <3>1
  <2> QED
    BY <1>2, <1>3, <1>4, <2>1, <2>2, <2>3
<1> QED
  BY <1>1, <1>4 DEF Distinct

(* array_remove makes an array no longer, and one of different ids shorter *)
(* by at most one.                                                         *)
LEMMA RemoveAllLength ==
  ASSUME NEW S, NEW arr \in Seq(S), NEW e
  PROVE  /\ Len(RemoveAll(arr, e)) \in Nat
         /\ Len(RemoveAll(arr, e)) <= Len(arr)
         /\ Distinct(arr) => /\ Distinct(RemoveAll(arr, e))
                             /\ Len(RemoveAll(arr, e)) >= Len(arr) - 1
<1>1. PICK f : KeptUpTo(f, arr, e, Len(arr)) /\ RemoveAll(arr, e) = f[Len(arr)]
  BY RemoveAllDef
<1> DEFINE Upto(n) == {arr[i] : i \in 1..n}
           Short(n) == Len(f[n]) <= n
           Whole(n) == e \notin Upto(n) => Len(f[n]) = n
           Kept(n) == Distinct(f[n]) /\ Len(f[n]) >= n - 1 /\ Whole(n)
           Good(n) == /\ f[n] \in Seq(S) /\ Members(f[n]) \subseteq Upto(n)
                      /\ Short(n)
                      /\ Distinct(arr) => Kept(n)
           B == {n \in 0..Len(arr) : ~Good(n)}
<1>2. /\ Len(arr) \in Nat
      /\ DOMAIN arr = 1..Len(arr)
      /\ \A i \in 1..Len(arr) : arr[i] \in S
  OBVIOUS
<1>3. B = {}
  <2> SUFFICES ASSUME B # {} PROVE FALSE
    OBVIOUS
  <2>1. B \subseteq Nat
    BY <1>2
  <2>2. PICK n \in B : \A m \in B : n <= m
    <3> HIDE DEF B
    <3> QED
      BY LeastNatural, <2>1
  <2>3. n # 0
    <3>1. f[0] = << >>
      BY <1>1, <1>2 DEF KeptUpTo
    <3>2. << >> \in Seq(S) /\ Members(<< >>) = {} /\ Len(<< >>) = 0 /\ Distinct(<< >>)
      BY DEF Members, Distinct
    <3>3. Good(0)
      BY <3>1, <3>2
    <3> HIDE DEF Good
    <3> QED
      BY <3>3
  <2>4. n \in 1..Len(arr) /\ n \in Nat /\ n - 1 \in Nat /\ Good(n - 1)
    <3>1. n \in 0..Len(arr)
      OBVIOUS
    <3>2. n \in 1..Len(arr) /\ n \in Nat /\ n - 1 \in Nat /\ n - 1 \in 0..Len(arr) /\ ~(n <= n - 1)
      BY <1>2, <2>3, <3>1
    <3> HIDE DEF Good
    <3> QED
      BY <3>2, <2>2
  <2>5. f[n] = IF arr[n] = e THEN f[n - 1] ELSE Append(f[n - 1], arr[n])
    BY <1>1, <1>2, <2>3, <2>4 DEF KeptUpTo
  <2>6. Upto(n) = Upto(n - 1) \cup {arr[n]}
    <3>1. \A i \in Nat : i \in 1..n <=> (i \in 1..(n - 1) \/ i = n)
      BY <1>2, <2>4
    <3> QED
      BY <3>1, <1>2, <2>4
  <2>7. Distinct(arr) => arr[n] \notin Upto(n - 1)
    <3>1. \A i \in 1..(n - 1) : i \in DOMAIN arr /\ i # n
      BY <1>2, <2>4
    <3>2. n \in DOMAIN arr
      BY <1>2, <2>4
    <3> QED
      BY <3>1, <3>2 DEF Distinct
  <2>8. arr[n] \in S
    BY <1>2, <2>4
  <2>9. /\ f[n - 1] \in Seq(S) /\ Members(f[n - 1]) \subseteq Upto(n - 1)
        /\ Short(n - 1) /\ (Distinct(arr) => Kept(n - 1))
    BY <2>4
  <2>10. Len(f[n - 1]) \in Nat
    BY <2>9
  <2> HIDE DEF Upto, B
  <2>11. CASE arr[n] = e
    <3>1. f[n] = f[n - 1]
      BY <2>5, <2>11
    <3>2. f[n] \in Seq(S) /\ Members(f[n]) \subseteq Upto(n) /\ e \in Upto(n)
      BY <2>6, <2>9, <2>11, <3>1
    <3>3. Short(n)
      BY <2>4, <2>9, <2>10, <3>1
    <3>4. Distinct(arr) => Kept(n)
      <4> SUFFICES ASSUME Distinct(arr) PROVE Kept(n)
        OBVIOUS
      <4>1. Len(f[n]) = n - 1 /\ Distinct(f[n])
        BY <2>7, <2>9, <2>11, <3>1
      <4> QED
        BY <2>4, <3>2, <4>1
    <3>5. Good(n)
      BY <3>2, <3>3, <3>4
    <3> QED
      BY <3>5 DEF B
  <2>12. CASE arr[n] # e
    <3>1. f[n] = Append(f[n - 1], arr[n])
      BY <2>5, <2>12
    <3>2. /\ f[n] \in Seq(S) /\ Members(f[n]) = Members(f[n - 1]) \cup {arr[n]}
          /\ Len(f[n]) = Len(f[n - 1]) + 1
          /\ Distinct(f[n - 1]) /\ arr[n] \notin Members(f[n - 1]) => Distinct(f[n])
      BY <2>8, <2>9, <3>1, AppendMembers, AppendDistinct
    <3>3. Members(f[n]) \subseteq Upto(n)
      BY <2>6, <2>9, <3>2
    <3>4. Short(n)
      BY <2>4, <2>9, <2>10, <3>2
    <3>5. Distinct(arr) => Kept(n)
      <4> SUFFICES ASSUME Distinct(arr) PROVE Kept(n)
        OBVIOUS
      <4>1. Distinct(f[n])
        BY <2>7, <2>9, <3>2
      <4>2. Len(f[n]) >= n - 1
        BY <2>4, <2>9, <2>10, <3>2
      <4>3. Whole(n)
        BY <2>4, <2>6, <2>9, <2>10, <3>2
      <4> QED
        BY <4>1, <4>2, <4>3
    <3>6. Good(n)
      BY <3>2, <3>3, <3>4, <3>5
    <3> QED
      BY <3>6 DEF B
  <2> QED
    BY <2>11, <2>12
<1>4. Good(Len(arr))
  <2>1. Len(arr) \in 0..Len(arr)
    BY <1>2
  <2> HIDE DEF Good
  <2> QED
    BY <1>3, <2>1
<1>5. Len(RemoveAll(arr, e)) \in Nat
  BY RemoveAllMembers
<1> QED
  BY <1>1, <1>4, <1>5

LEMMA HeadMember ==
  ASSUME NEW S, NEW q \in Seq(S), q # << >>
  PROVE  Head(q) \in S /\ Head(q) \in Members(q)
<1>1. 1 \in DOMAIN q /\ Head(q) = q[1]
  OBVIOUS
<1> QED
  BY <1>1 DEF Members

-----------------------------------------------------------------------------
(* What the statements make of the row of a live slot.                     *)
LEMMA AddEntryRow ==
  ASSUME NEW sl, SlotsOK(sl), NEW s \in Slots, NEW u \in Users, Live(sl[s])
  PROVE  LET new == addEntry(sl, u, s)[s] IN
           /\ new.st = sl[s].st /\ new.cap = sl[s].cap /\ new.queue = sl[s].queue
           /\ new.enrolled = Append(sl[s].enrolled, u)
<1> DEFINE row == [sl[s] EXCEPT !.enrolled = Append(@, u)]
<1>1. Append(sl[s].enrolled, u) \in Seq(Users)
  BY SlotFields, AppendMembers, RemoveAllMembers
<1>2. row \in SlotRow /\ row.st = sl[s].st /\ row.cap = sl[s].cap
      /\ row.queue = sl[s].queue /\ row.enrolled = Append(sl[s].enrolled, u)
  BY <1>1, SlotFields DEF SlotRow
<1>3. addEntry(sl, u, s) = OnSlot(sl, s, row)
  BY DEF addEntry
<1> HIDE DEF row
<1> QED
  BY <1>2, <1>3, OnSlotRow

LEMMA RemoveEntryRow ==
  ASSUME NEW sl, SlotsOK(sl), NEW s \in Slots, NEW u \in Users, Live(sl[s])
  PROVE  LET new == removeEntry(sl, u, s)[s] IN
           /\ new.st = sl[s].st /\ new.cap = sl[s].cap /\ new.queue = sl[s].queue
           /\ new.enrolled = RemoveAll(sl[s].enrolled, u)
<1> DEFINE row == [sl[s] EXCEPT !.enrolled = RemoveAll(@, u)]
<1>1. RemoveAll(sl[s].enrolled, u) \in Seq(Users)
  BY SlotFields, AppendMembers, RemoveAllMembers
<1>2. row \in SlotRow /\ row.st = sl[s].st /\ row.cap = sl[s].cap
      /\ row.queue = sl[s].queue /\ row.enrolled = RemoveAll(sl[s].enrolled, u)
  BY <1>1, SlotFields DEF SlotRow
<1>3. removeEntry(sl, u, s) = OnSlot(sl, s, row)
  BY DEF removeEntry
<1> HIDE DEF row
<1> QED
  BY <1>2, <1>3, OnSlotRow

LEMMA AddToQueueRow ==
  ASSUME NEW sl, SlotsOK(sl), NEW s \in Slots, NEW u \in Users, Live(sl[s])
  PROVE  LET new == addToQueue(sl, u, s)[s] IN
           /\ new.st = sl[s].st /\ new.cap = sl[s].cap /\ new.enrolled = sl[s].enrolled
           /\ new.queue = Append(sl[s].queue, u)
<1> DEFINE row == [sl[s] EXCEPT !.queue = Append(@, u)]
<1>1. Append(sl[s].queue, u) \in Seq(Users)
  BY SlotFields, AppendMembers, RemoveAllMembers
<1>2. row \in SlotRow /\ row.st = sl[s].st /\ row.cap = sl[s].cap
      /\ row.enrolled = sl[s].enrolled /\ row.queue = Append(sl[s].queue, u)
  BY <1>1, SlotFields DEF SlotRow
<1>3. addToQueue(sl, u, s) = OnSlot(sl, s, row)
  BY DEF addToQueue
<1> HIDE DEF row
<1> QED
  BY <1>2, <1>3, OnSlotRow

LEMMA RemoveFromQueueRow ==
  ASSUME NEW sl, SlotsOK(sl), NEW s \in Slots, NEW u \in Users, Live(sl[s])
  PROVE  LET new == removeFromQueue(sl, u, s)[s] IN
           /\ new.st = sl[s].st /\ new.cap = sl[s].cap /\ new.enrolled = sl[s].enrolled
           /\ new.queue = RemoveAll(sl[s].queue, u)
<1> DEFINE row == [sl[s] EXCEPT !.queue = RemoveAll(@, u)]
<1>1. RemoveAll(sl[s].queue, u) \in Seq(Users)
  BY SlotFields, AppendMembers, RemoveAllMembers
<1>2. row \in SlotRow /\ row.st = sl[s].st /\ row.cap = sl[s].cap
      /\ row.enrolled = sl[s].enrolled /\ row.queue = RemoveAll(sl[s].queue, u)
  BY <1>1, SlotFields DEF SlotRow
<1>3. removeFromQueue(sl, u, s) = OnSlot(sl, s, row)
  BY DEF removeFromQueue
<1> HIDE DEF row
<1> QED
  BY <1>2, <1>3, OnSlotRow

LEMMA PromotedRow ==
  ASSUME NEW sl, SlotsOK(sl), NEW s \in Slots, NEW u \in Users, Live(sl[s])
  PROVE  LET new == promoteSlots(sl, u, s)[s] IN
           /\ new.st = sl[s].st /\ new.cap = sl[s].cap
           /\ new.enrolled = Append(sl[s].enrolled, u)
           /\ new.queue = RemoveAll(sl[s].queue, u)
<1> DEFINE mid == removeFromQueue(sl, u, s)
<1>1. SlotsOK(mid)
  BY RemoveFromQueue
<1>2. /\ mid[s].st = sl[s].st /\ mid[s].cap = sl[s].cap /\ mid[s].enrolled = sl[s].enrolled
      /\ mid[s].queue = RemoveAll(sl[s].queue, u)
  BY RemoveFromQueueRow
<1>3. promoteSlots(sl, u, s) = addEntry(mid, u, s)
  BY DEF promoteSlots
<1> HIDE DEF mid
<1>4. Live(mid[s])
  BY <1>2 DEF Live
<1> QED
  BY <1>1, <1>2, <1>3, <1>4, AddEntryRow

LEMMA PatchedRow ==
  ASSUME NEW sl, SlotsOK(sl), NEW s \in Slots, NEW c \in Capacities
  PROVE  \A t \in Slots : /\ changeSlotInfo(sl, s, c)[t].enrolled = sl[t].enrolled
                          /\ changeSlotInfo(sl, s, c)[t].queue = sl[t].queue
BY ChangeSlotInfo

-----------------------------------------------------------------------------
(* What a request may make of a slot row.                                  *)
SameFrame(old, new) == new.st = old.st /\ new.cap = old.cap

SeatTaken(u, old, new) ==
  /\ SameFrame(old, new) /\ Len(old.enrolled) < old.cap
  /\ new.enrolled = Append(old.enrolled, u) /\ new.queue = old.queue

PlaceTaken(u, old, new) ==
  /\ SameFrame(old, new) /\ Len(old.enrolled) >= old.cap
  /\ new.queue = Append(old.queue, u) /\ new.enrolled = old.enrolled

SeatGivenUp(u, old, new) ==
  /\ SameFrame(old, new) /\ old.queue = << >> /\ new.queue = << >>
  /\ new.enrolled = RemoveAll(old.enrolled, u)

HeadPromoted(u, old, new) ==
  /\ SameFrame(old, new) /\ old.queue # << >>
  /\ new.enrolled = Append(RemoveAll(old.enrolled, u), Head(old.queue))
  /\ new.queue = RemoveAll(old.queue, Head(old.queue))

PlaceGivenUp(u, old, new) ==
  SameFrame(old, new) /\ new.enrolled = old.enrolled /\ new.queue = RemoveAll(old.queue, u)

Emptied(old, new) == new.enrolled = << >> /\ new.queue = << >>

Patched(old, new) == new.enrolled = old.enrolled /\ new.queue = old.queue

(* With what the user's own lists said.                                    *)
SlotStep(r, s, old, new) ==
  \/ new = old
  \/ SeatTaken(r.user, old, new) /\ r.user \in Users
       /\ s \notin users[r.user].enrolled
  \/ PlaceTaken(r.user, old, new) /\ r.user \in Users
       /\ s \notin users[r.user].enrolled /\ s \notin users[r.user].queued
  \/ (SeatGivenUp(r.user, old, new) \/ HeadPromoted(r.user, old, new)
        \/ PlaceGivenUp(r.user, old, new)) /\ r.user \in Users
  \/ Emptied(old, new)
  \/ r.op = "patchSlot" /\ Patched(old, new)

LEMMA CancelStep ==
  ASSUME Consistent(slots, users), NEW r \in Requests, NEW a \in Answers, deleteUserEntry(r, a),
         NEW t \in Slots
  PROVE  SlotStep(r, t, slots[t], slots'[t])
<1>1. r.user \in Users /\ r.slot \in Slots
  BY RequestFields DEF deleteUserEntry, SeatOps
<1> DEFINE u == r.user
           s == r.slot
           left == removeEntry(slots, u, s)
           next == getFirstInQueue(left, s)
<1>2. SlotsOK(slots)
  BY DEF Consistent
<1>3. SlotsOK(left) /\ OneSlotRow(slots, left, s)
  BY <1>1, <1>2, RemoveEntry, OneSlotWritten, CapacitiesAssumption
<1>4. Live(slots[s]) => /\ left[s].st = slots[s].st /\ left[s].cap = slots[s].cap
                        /\ left[s].queue = slots[s].queue
                        /\ left[s].enrolled = RemoveAll(slots[s].enrolled, u)
  BY <1>1, <1>2, RemoveEntryRow
<1>5. \/ next = NoUser /\ slots' = left
      \/ next # NoUser /\ slots' = promoteSlots(left, next, s)
  BY DEF deleteUserEntry
<1>6. next # NoUser => next \in Users /\ Live(left[s]) /\ next = Head(left[s].queue)
                       /\ left[s].queue # << >>
  <2> HIDE DEF left
  <2> QED
    BY <1>1, <1>3, FirstInQueue DEF getFirstInQueue
<1>7. next = NoUser => ~Live(left[s]) \/ left[s].queue = << >>
  <2> HIDE DEF left
  <2>1. SUFFICES ASSUME Live(left[s]), left[s].queue # << >> PROVE next # NoUser
    OBVIOUS
  <2>2. next = Head(left[s].queue) /\ left[s].queue \in Seq(Users)
    BY <1>1, <1>3, <2>1, SlotFields DEF getFirstInQueue
  <2> QED
    BY <2>1, <2>2, NoUserAssumption, HeadMember
<1> HIDE DEF left, next
<1>8. CASE t # s
  <2>1. left[t] = slots[t]
    BY <1>3, <1>8 DEF OneSlotRow
  <2>2. next # NoUser => promoteSlots(left, next, s)[t] = left[t]
    <3>1. ASSUME next # NoUser PROVE OneSlotRow(left, promoteSlots(left, next, s), s)
      BY <1>1, <1>3, <1>6, <3>1, OneSlotWritten, CapacitiesAssumption
    <3> QED
      BY <1>8, <3>1 DEF OneSlotRow
  <2> QED
    BY <1>5, <2>1, <2>2 DEF SlotStep
<1>9. CASE t = s /\ ~Live(slots[s])
  <2>1. left[s] = slots[s]
    BY <1>3, <1>9 DEF OneSlotRow
  <2> QED
    BY <1>5, <1>6, <1>9, <2>1 DEF SlotStep
<1>10. CASE t = s /\ Live(slots[s])
  <2>1. CASE next = NoUser
    <3>1. slots'[s] = left[s] /\ slots[s].queue = << >>
      BY <1>4, <1>5, <1>7, <1>10, <2>1 DEF Live
    <3>2. SeatGivenUp(u, slots[s], slots'[s])
      BY <1>4, <1>10, <3>1 DEF SeatGivenUp, SameFrame
    <3> QED
      BY <1>1, <1>10, <3>2 DEF SlotStep
  <2>2. CASE next # NoUser
    <3>1. /\ slots'[s].st = left[s].st /\ slots'[s].cap = left[s].cap
          /\ slots'[s].enrolled = Append(left[s].enrolled, next)
          /\ slots'[s].queue = RemoveAll(left[s].queue, next)
      BY <1>1, <1>3, <1>5, <1>6, <2>2, PromotedRow
    <3>2. next = Head(slots[s].queue) /\ slots[s].queue # << >>
      BY <1>4, <1>6, <1>10, <2>2
    <3>3. HeadPromoted(u, slots[s], slots'[s])
      BY <1>4, <1>10, <3>1, <3>2 DEF HeadPromoted, SameFrame
    <3> QED
      BY <1>1, <1>10, <3>3 DEF SlotStep
  <2> QED
    BY <2>1, <2>2
<1> QED
  BY <1>8, <1>9, <1>10

LEMMA SeatTakenStep ==
  ASSUME Consistent(slots, users), NEW r \in Requests, r.op \in SeatOps,
         Live(slots[r.slot]), r.slot \notin users[r.user].enrolled,
         ~isAtCapacity(slots, r.slot), slots' = addEntry(slots, r.user, r.slot),
         NEW t \in Slots
  PROVE  SlotStep(r, t, slots[t], slots'[t])
<1>1. r.user \in Users /\ r.slot \in Slots /\ SlotsOK(slots)
  BY RequestFields DEF Consistent
<1>2. OneSlotRow(slots, slots', r.slot)
  BY <1>1, OneSlotWritten, CapacitiesAssumption
<1>3. CASE t # r.slot
  BY <1>2, <1>3 DEF OneSlotRow, SlotStep
<1>4. CASE t = r.slot
  <2>1. Len(slots[t].enrolled) < slots[t].cap
    <3>1. Len(slots[t].enrolled) \in Nat /\ slots[t].cap \in Int
      BY SlotFields, <1>1, CapacitiesAssumption
    <3> QED
      BY <1>4, <3>1 DEF isAtCapacity
  <2>2. SeatTaken(r.user, slots[t], slots'[t])
    BY <1>1, <1>4, <2>1, AddEntryRow DEF SeatTaken, SameFrame
  <2> QED
    BY <1>1, <1>4, <2>2 DEF SlotStep
<1> QED
  BY <1>3, <1>4

LEMMA SlotSteps ==
  ASSUME Consistent(slots, users), NEW r \in Requests, NEW a \in Answers, Serve(r, a),
         NEW t \in Slots
  PROVE  SlotStep(r, t, slots[t], slots'[t])
<1>1. SlotsOK(slots)
  BY DEF Consistent
<1>2. CASE UNCHANGED slots
  BY <1>2 DEF SlotStep
<1>3. CASE addUserEntry(r, a)
  BY <1>2, <1>3, SeatTakenStep DEF addUserEntry, getUserEnrollments, vars, SeatOps
<1>4. CASE deleteUserEntry(r, a)
  BY <1>4, CancelStep
<1>5. CASE joinQueue(r, a)
  <2>1. r.user \in Users /\ r.slot \in Slots /\ r.op \in SeatOps
    BY <1>5, RequestFields DEF joinQueue, SeatOps
  <2>2. \/ UNCHANGED slots
        \/ /\ Live(slots[r.slot])
           /\ r.slot \notin users[r.user].enrolled /\ r.slot \notin users[r.user].queued
           /\ IF isAtCapacity(slots, r.slot)
              THEN slots' = addToQueue(slots, r.user, r.slot)
              ELSE slots' = addEntry(slots, r.user, r.slot)
    BY <1>5 DEF joinQueue, getUserEnrollments, getUserQueuedSlots, vars
  <2>3. CASE /\ Live(slots[r.slot]) /\ isAtCapacity(slots, r.slot)
             /\ r.slot \notin users[r.user].enrolled /\ r.slot \notin users[r.user].queued
             /\ slots' = addToQueue(slots, r.user, r.slot)
    <3>1. OneSlotRow(slots, slots', r.slot)
      BY <1>1, <2>1, <2>3, OneSlotWritten, CapacitiesAssumption
    <3>2. CASE t # r.slot
      BY <3>1, <3>2 DEF OneSlotRow, SlotStep
    <3>3. CASE t = r.slot
      <4>1. PlaceTaken(r.user, slots[t], slots'[t])
        BY <1>1, <2>1, <2>3, <3>3, AddToQueueRow DEF PlaceTaken, SameFrame, isAtCapacity
      <4> QED
        BY <2>1, <2>3, <3>3, <4>1 DEF SlotStep
    <3> QED
      BY <3>2, <3>3
  <2> QED
    BY <1>2, <2>1, <2>2, <2>3, SeatTakenStep
<1>6. CASE leaveQueue(r, a)
  <2>1. r.user \in Users /\ r.slot \in Slots
    BY <1>6, RequestFields DEF leaveQueue, SeatOps
  <2>2. CASE slots' = removeFromQueue(slots, r.user, r.slot)
    <3>1. OneSlotRow(slots, slots', r.slot)
      BY <1>1, <2>1, <2>2, OneSlotWritten, CapacitiesAssumption
    <3>2. CASE t # r.slot \/ ~Live(slots[r.slot])
      BY <3>1, <3>2 DEF OneSlotRow, SlotStep
    <3>3. CASE t = r.slot /\ Live(slots[r.slot])
      <4>1. PlaceGivenUp(r.user, slots[t], slots'[t])
        BY <1>1, <2>1, <2>2, <3>3, RemoveFromQueueRow DEF PlaceGivenUp, SameFrame
      <4> QED
        BY <2>1, <4>1 DEF SlotStep
    <3> QED
      BY <3>2, <3>3
  <2> QED
    BY <1>2, <1>6, <2>2 DEF leaveQueue, vars
<1>7. CASE createSlot(r, a)
  <2>1. r.slot \in Slots /\ r.cap \in Capacities /\ slots' = insertSlot(slots, r.slot, r.cap)
    BY <1>7, RequestFields DEF createSlot
  <2>2. slots'[t] = IF t = r.slot THEN EmptySlot("live", r.cap) ELSE slots[t]
    BY <1>1, <2>1, InsertSlot
  <2> QED
    BY <2>2 DEF SlotStep, Emptied, EmptySlot
<1>8. CASE patchSlot(r, a)
  <2>1. r.slot \in Slots /\ r.cap \in Capacities /\ slots' = changeSlotInfo(slots, r.slot, r.cap)
        /\ r.op = "patchSlot"
    BY <1>8, RequestFields DEF patchSlot
  <2> QED
    BY <1>1, <2>1, PatchedRow DEF SlotStep, Patched
<1>9. CASE deleteSlot(r, a)
  <2>1. r.slot \in Slots /\ slots' = deleteSlotRow(slots, r.slot)
    BY <1>9, RequestFields DEF deleteSlot
  <2> QED
    BY <1>1, <2>1, DeleteSlotRow DEF SlotStep, Emptied
<1>10. CASE deleteUser(r, a)
  BY <1>2, <1>10 DEF deleteUser
<1> QED
  BY <1>3, <1>4, <1>5, <1>6, <1>7, <1>8, <1>9, <1>10 DEF Serve

-----------------------------------------------------------------------------
(* Only deleteUser ends an account.                                        *)
LEMMA UsersStay ==
  ASSUME Consistent(slots, users), NEW r \in Requests, NEW a \in Answers, Serve(r, a),
         ~deleteUser(r, a), NEW v \in Users
  PROVE  users'[v].st = users[v].st
<1>1. SlotsOK(slots) /\ UsersOK(users)
  BY DEF Consistent
<1>2. ASSUME NEW us, UsersOK(us), NEW u \in Users, NEW s \in Slots
      PROVE  /\ addEnrollment(us, u, s)[v].st = us[v].st
             /\ removeEnrollment(us, u, s)[v].st = us[v].st
             /\ addQueuedSlot(us, u, s)[v].st = us[v].st
             /\ removeQueuedSlot(us, u, s)[v].st = us[v].st
  BY <1>2, UserLists DEF ListsAfter
<1>3. CASE UNCHANGED users
  BY <1>3
<1>4. CASE addUserEntry(r, a) \/ joinQueue(r, a)
  <2>1. r.user \in Users /\ r.slot \in Slots
    BY <1>4, RequestFields DEF addUserEntry, joinQueue, SeatOps
  <2>2. \/ UNCHANGED users
        \/ users' = addEnrollment(users, r.user, r.slot)
        \/ users' = addQueuedSlot(users, r.user, r.slot)
    BY <1>4 DEF addUserEntry, joinQueue, vars
  <2> QED
    BY <1>1, <1>2, <2>1, <2>2
<1>5. CASE leaveQueue(r, a)
  <2>1. r.user \in Users /\ r.slot \in Slots
    BY <1>5, RequestFields DEF leaveQueue, SeatOps
  <2> QED
    BY <1>1, <1>2, <1>5, <2>1 DEF leaveQueue, vars
<1>6. CASE deleteUserEntry(r, a)
  <2>1. r.user \in Users /\ r.slot \in Slots
    BY <1>6, RequestFields DEF deleteUserEntry, SeatOps
  <2> DEFINE left == removeEntry(slots, r.user, r.slot)
             freed == removeEnrollment(users, r.user, r.slot)
             next == getFirstInQueue(left, r.slot)
             mid == removeQueuedSlot(freed, next, r.slot)
  <2>2. UsersOK(freed) /\ freed[v].st = users[v].st
    BY <1>1, <1>2, <2>1, UserStatements
  <2>3. SlotsOK(left)
    BY <1>1, <2>1, RemoveEntry
  <2>4. \/ users' = freed
        \/ next # NoUser /\ users' = addEnrollment(mid, next, r.slot)
    BY <1>6 DEF deleteUserEntry, promoteUsers
  <2>5. next # NoUser => next \in Users
    <3> HIDE DEF left
    <3> QED
      BY <2>1, <2>3, FirstInQueue
  <2> HIDE DEF left, freed, next
  <2>6. next # NoUser => UsersOK(mid) /\ mid[v].st = freed[v].st
    BY <1>2, <2>1, <2>2, <2>5, UserStatements
  <2> HIDE DEF mid
  <2>7. next # NoUser => addEnrollment(mid, next, r.slot)[v].st = mid[v].st
    BY <1>2, <2>1, <2>5, <2>6
  <2> QED
    BY <2>2, <2>4, <2>6, <2>7
<1>7. CASE deleteSlot(r, a)
  <2>1. users' = strike(slots, users, r.slot)
    BY <1>7 DEF deleteSlot
  <2>2. users[v] \in UserRow
    BY <1>1 DEF UsersOK
  <2>3. strike(slots, users, r.slot)[v].st = users[v].st
    BY <2>2 DEF strike, UserRow
  <2> QED
    BY <2>1, <2>3
<1> QED
  BY <1>3, <1>4, <1>5, <1>6, <1>7 DEF Serve, createSlot, patchSlot

-----------------------------------------------------------------------------
(* One row: different ids, no user twice, and full while somebody waits.   *)
RowOK(row) ==
  /\ Distinct(row.enrolled) /\ Distinct(row.queue)
  /\ Members(row.enrolled) \cap Members(row.queue) = {}
  /\ row.queue # << >> => Len(row.enrolled) >= row.cap

SeatsOK ==
  /\ Consistent(slots, users)
  /\ \A u \in Users : Live(users[u])
  /\ \A s \in Slots : RowOK(slots[s])

Steady == Ops \cap {"patchSlot", "deleteUser"} = {}

LEMMA RowStep ==
  ASSUME Steady, SeatsOK, NEW r \in Requests, NEW t \in Slots,
         SlotStep(r, t, slots[t], slots'[t]), slots'[t] \in SlotRow
  PROVE  RowOK(slots'[t])
<1> DEFINE old == slots[t]
           new == slots'[t]
<1>1. RowOK(old) /\ SlotsOK(slots)
  BY DEF SeatsOK, Consistent
<1>2. /\ old.enrolled \in Seq(Users) /\ old.queue \in Seq(Users) /\ old.cap \in Int
      /\ Len(old.enrolled) \in Nat
  <2>1. old.enrolled \in Seq(Users) /\ old.queue \in Seq(Users) /\ old.cap \in Capacities
    BY <1>1, SlotFields
  <2>2. Len(old.enrolled) \in Nat
    BY <2>1
  <2>3. old.cap \in Int
    BY <2>1, CapacitiesAssumption
  <2> QED
    BY <2>1, <2>2, <2>3
<1>3. r.user \in Users =>
        /\ t \in users[r.user].enrolled <=> r.user \in Members(old.enrolled)
        /\ t \in users[r.user].queued <=> r.user \in Members(old.queue)
  BY DEF SeatsOK, Consistent, Agree
<1>4. r.op # "patchSlot"
  BY DEF Steady, Requests
<1>5. Distinct(<< >>) /\ Members(<< >>) = {}
  BY DEF Distinct, Members
<1> SUFFICES RowOK(new)
  OBVIOUS
<1> HIDE DEF old, new
<1>6. ASSUME NEW q \in Seq(Users), NEW u, Distinct(q)
      PROVE  /\ RemoveAll(q, u) \in Seq(Users)
             /\ Members(RemoveAll(q, u)) = Members(q) \ {u}
             /\ Distinct(RemoveAll(q, u))
             /\ Len(RemoveAll(q, u)) >= Len(q) - 1
             /\ Len(RemoveAll(q, u)) \in Nat
  BY <1>6, RemoveAllMembers, RemoveAllLength
<1>7. CASE new = old
  BY <1>1, <1>7
<1>8. CASE SeatTaken(r.user, old, new) /\ r.user \in Users /\ t \notin users[r.user].enrolled
  <2>1. old.queue = << >>
    BY <1>1, <1>2, <1>8 DEF RowOK, SeatTaken
  <2>2. Distinct(new.enrolled) /\ new.queue = << >>
    BY <1>1, <1>2, <1>3, <1>8, <2>1, AppendDistinct DEF RowOK, SeatTaken
  <2> QED
    BY <1>5, <2>2 DEF RowOK
<1>9. CASE PlaceTaken(r.user, old, new) /\ r.user \in Users
             /\ t \notin users[r.user].enrolled /\ t \notin users[r.user].queued
  <2>1. /\ Distinct(new.queue) /\ Members(new.queue) = Members(old.queue) \cup {r.user}
    BY <1>1, <1>2, <1>3, <1>9, AppendDistinct, AppendMembers DEF RowOK, PlaceTaken
  <2> QED
    BY <1>1, <1>3, <1>9, <2>1 DEF RowOK, PlaceTaken, SameFrame
<1>10. CASE SeatGivenUp(r.user, old, new)
  BY <1>1, <1>2, <1>5, <1>6, <1>10 DEF RowOK, SeatGivenUp
<1>11. CASE HeadPromoted(r.user, old, new)
  <2> DEFINE next == Head(old.queue)
             left == RemoveAll(old.enrolled, r.user)
             rest == RemoveAll(old.queue, next)
  <2>1. old.queue # << >> /\ new.enrolled = Append(left, next) /\ new.queue = rest
        /\ new.cap = old.cap
    BY <1>11 DEF HeadPromoted, SameFrame
  <2>2. next \in Users /\ next \in Members(old.queue)
    BY <1>2, <2>1, HeadMember
  <2>3. /\ left \in Seq(Users) /\ Members(left) \subseteq Members(old.enrolled)
        /\ Distinct(left) /\ Len(left) \in Nat /\ Len(left) >= Len(old.enrolled) - 1
    BY <1>1, <1>2, <1>6 DEF RowOK
  <2>4. Members(rest) = Members(old.queue) \ {next} /\ Distinct(rest)
    BY <1>1, <1>2, <1>6 DEF RowOK
  <2> HIDE DEF next, left, rest
  <2>5. /\ Distinct(new.enrolled) /\ Members(new.enrolled) = Members(left) \cup {next}
        /\ Len(new.enrolled) = Len(left) + 1
    BY <1>1, <2>1, <2>2, <2>3, AppendDistinct, AppendMembers DEF RowOK
  <2>6. Len(new.enrolled) >= new.cap
    BY <1>1, <1>2, <2>1, <2>3, <2>5 DEF RowOK
  <2>7. Members(new.enrolled) \cap Members(new.queue) = {}
    BY <1>1, <2>1, <2>2, <2>3, <2>4, <2>5 DEF RowOK
  <2> QED
    BY <2>1, <2>4, <2>5, <2>6, <2>7 DEF RowOK
<1>12. CASE PlaceGivenUp(r.user, old, new)
  <2>1. old.queue = << >> => new.queue = << >>
    <3>1. SUFFICES ASSUME old.queue = << >> PROVE Len(RemoveAll(old.queue, r.user)) = 0
      BY <1>1, <1>2, <1>6, <1>12 DEF PlaceGivenUp, RowOK
    <3>2. Len(old.queue) = 0 /\ Len(RemoveAll(old.queue, r.user)) \in Nat
          /\ Len(RemoveAll(old.queue, r.user)) <= Len(old.queue)
      BY <1>2, <3>1, RemoveAllLength
    <3> QED
      BY <3>2
  <2> QED
    BY <1>1, <1>2, <1>6, <1>12, <2>1 DEF RowOK, PlaceGivenUp, SameFrame
<1>13. CASE Emptied(old, new)
  BY <1>5, <1>13 DEF Emptied, RowOK
<1> QED
  BY <1>4, <1>7, <1>8, <1>9, <1>10, <1>11, <1>12, <1>13 DEF SlotStep, old, new

LEMMA NextSeatsOK ==
  ASSUME Steady, SeatsOK, [Next]_vars
  PROVE  SeatsOK'
<1>1. CASE UNCHANGED vars
  BY <1>1 DEF vars, SeatsOK
<1>2. CASE Next
  <2>1. PICK r \in Requests, a \in Answers : Serve(r, a)
    BY <1>2 DEF Next
  <2>2. Consistent(slots, users)'
    BY <2>1, StepConsistent DEF SeatsOK
  <2>3. r.op # "deleteUser"
    BY DEF Steady, Requests
  <2>4. \A u \in Users : Live(users[u])'
    BY <2>1, <2>3, UsersStay DEF SeatsOK, Live, deleteUser
  <2>5. \A t \in Slots : slots'[t] \in SlotRow
    BY <2>2 DEF Consistent, SlotsOK
  <2>6. \A t \in Slots : SlotStep(r, t, slots[t], slots'[t])
    BY <2>1, SlotSteps DEF SeatsOK
  <2>7. \A t \in Slots : RowOK(slots'[t])
    BY <2>5, <2>6, RowStep
  <2> QED
    BY <2>2, <2>4, <2>7 DEF SeatsOK
<1> QED
  BY <1>1, <1>2

LEMMA InitSeatsOK ==
  ASSUME Init
  PROVE  SeatsOK
<1>1. Consistent(slots, users)
  BY InitAgrees DEF Init
<1>2. \A u \in Users : Live(users[u])
  BY DEF Init, InitUsers, Live
<1>3. ASSUME NEW s \in Slots PROVE RowOK(slots[s])
  <2>1. PICK st \in {"unborn", "live"}, c \in Capacities : slots[s] = EmptySlot(st, c)
    BY DEF Init, InitSlots
  <2>2. slots[s].enrolled = << >> /\ slots[s].queue = << >>
    BY <2>1 DEF EmptySlot
  <2> QED
    BY <2>2 DEF RowOK, Distinct, Members
<1> QED
  BY <1>1, <1>2, <1>3 DEF SeatsOK

LEMMA SeatsInvariance ==
  ASSUME Steady
  PROVE  Spec => []SeatsOK
<1>1. Init => SeatsOK
  BY InitSeatsOK
<1>2. SeatsOK /\ [Next]_vars => SeatsOK'
  BY NextSeatsOK
<1> QED
  BY <1>1, <1>2, PTL DEF Spec

(* While no capacity is changed and no account deleted, a slot with a      *)
(* queue has no free seat, and no user has two places of a slot            *)
(* (slot_routes.cpp:69-74, 97-105; queue_routes.cpp:21-28).                *)
THEOREM QueuesAndPlaces ==
  ASSUME Steady
  PROVE  Spec => [](QueueOnlyWhenFull /\ OnePlaceEach)
<1>1. SeatsOK => QueueOnlyWhenFull
  BY DEF SeatsOK, RowOK, QueueOnlyWhenFull, isAtCapacity
<1>2. SeatsOK => OnePlaceEach
  <2> SUFFICES ASSUME SeatsOK, NEW s \in Slots
               PROVE  Distinct(slots[s].enrolled \o slots[s].queue)
    BY DEF OnePlaceEach, Distinct
  <2>1. slots[s].enrolled \in Seq(Users) /\ slots[s].queue \in Seq(Users)
    BY SlotFields DEF SeatsOK, Consistent
  <2> QED
    BY <2>1, ConcatDistinct DEF SeatsOK, RowOK
<1> QED
  BY <1>1, <1>2, SeatsInvariance, PTL

(* Nobody overtakes the head of a queue (slot_routes.cpp:72-74, 97-105).   *)
THEOREM NoOvertaking ==
  ASSUME Steady
  PROVE  Spec => SeatsGoToTheHead
<1> DEFINE ToTheHead ==
      \A s \in Slots :
        slots[s].queue # << >> =>
          Members(slots[s].enrolled)' \ Members(slots[s].enrolled) \subseteq {Head(slots[s].queue)}
<1>1. SeatsOK /\ [Next]_vars => [ToTheHead]_vars
  <2> SUFFICES ASSUME SeatsOK, Next, NEW s \in Slots, slots[s].queue # << >>,
                      NEW u \in Members(slots'[s].enrolled) \ Members(slots[s].enrolled)
               PROVE  u = Head(slots[s].queue)
    BY DEF Members
  <2>1. PICK r \in Requests, a \in Answers : Serve(r, a)
    BY DEF Next
  <2>2. SlotStep(r, s, slots[s], slots'[s])
    BY <2>1, SlotSteps DEF SeatsOK
  <2>3. /\ RowOK(slots[s])
        /\ slots[s].enrolled \in Seq(Users) /\ slots[s].queue \in Seq(Users)
        /\ slots[s].cap \in Capacities
    BY SlotFields DEF SeatsOK, Consistent
  <2>4. ~SeatTaken(r.user, slots[s], slots'[s])
    <3>1. Len(slots[s].enrolled) \in Nat /\ slots[s].cap \in Int
      BY <2>3, CapacitiesAssumption
    <3> QED
      BY <2>3, <3>1 DEF RowOK, SeatTaken
  <2>5. CASE HeadPromoted(r.user, slots[s], slots'[s])
    <3>2. Head(slots[s].queue) \in Users
      BY <2>3, HeadMember
    <3>3. RemoveAll(slots[s].enrolled, r.user) \in Seq(Users)
          /\ Members(RemoveAll(slots[s].enrolled, r.user)) \subseteq Members(slots[s].enrolled)
      BY <2>3, RemoveAllMembers
    <3>4. Members(slots'[s].enrolled)
            = Members(RemoveAll(slots[s].enrolled, r.user)) \cup {Head(slots[s].queue)}
      BY <2>5, <3>2, <3>3, AppendMembers DEF HeadPromoted
    <3> QED
      BY <3>3, <3>4
  <2>6. Members(<< >>) = {}
    BY DEF Members
  <2> QED
    BY <2>2, <2>4, <2>5, <2>6
       DEF SlotStep, PlaceTaken, SeatGivenUp, PlaceGivenUp, Emptied, Patched
<1> QED
  BY <1>1, SeatsInvariance, PTL DEF Spec, SeatsGoToTheHead

-----------------------------------------------------------------------------
LEMMA Consistency == Spec => []Consistent(slots, users)
<1>1. Init => Consistent(slots, users)
  BY InitAgrees DEF Init
<1>2. Consistent(slots, users) /\ [Next]_vars => Consistent(slots, users)'
  BY StepConsistent DEF Next, vars
<1> QED
  BY <1>1, <1>2, PTL DEF Spec

(* Whatever the requests, seats beyond the capacity come from promotions   *)
(* only (slot_routes.cpp:72-74, 97-105).                                   *)
THEOREM PromotionsOverfill == Spec => OnlyPromotionOverfills
<1> DEFINE Overfills ==
      \A s \in Slots :
        LET before == slots[s] after == slots'[s]
        IN  /\ Live(before) /\ Len(after.enrolled) > Len(before.enrolled)
            /\ Len(after.enrolled) > after.cap
            => before.queue # << >> /\ Head(before.queue) \notin Members(after.queue)
<1>1. Consistent(slots, users) /\ [Next]_vars => [Overfills]_vars
  <2> SUFFICES ASSUME Consistent(slots, users), Next, NEW s \in Slots,
                      Len(slots'[s].enrolled) > Len(slots[s].enrolled),
                      Len(slots'[s].enrolled) > slots'[s].cap
               PROVE  slots[s].queue # << >> /\ Head(slots[s].queue) \notin Members(slots'[s].queue)
    OBVIOUS
  <2>1. PICK r \in Requests, a \in Answers : Serve(r, a)
    BY DEF Next
  <2>2. SlotStep(r, s, slots[s], slots'[s])
    BY <2>1, SlotSteps
  <2>3. /\ slots[s].enrolled \in Seq(Users) /\ slots[s].queue \in Seq(Users)
        /\ slots[s].cap \in Capacities
    BY SlotFields DEF Consistent
  <2>4. /\ slots[s].enrolled \in Seq(Users) /\ slots[s].queue \in Seq(Users)
        /\ Len(slots[s].enrolled) \in Nat /\ slots[s].cap \in Int
    <3>1. slots[s].cap \in Int
      BY ONLY <2>3, CapacitiesAssumption
    <3>2. \A q \in Seq(Users) : Len(q) \in Nat
      OBVIOUS
    <3> QED
      BY <2>3, <3>1, <3>2, Zenon
  <2>5. ~(SeatTaken(r.user, slots[s], slots'[s]) /\ r.user \in Users)
    BY <2>4, AppendDistinct DEF SeatTaken, SameFrame
  <2>6. ~SeatGivenUp(r.user, slots[s], slots'[s])
    <3>1. /\ Len(RemoveAll(slots[s].enrolled, r.user)) \in Nat
          /\ Len(RemoveAll(slots[s].enrolled, r.user)) <= Len(slots[s].enrolled)
      BY <2>4, RemoveAllLength
    <3> QED
      BY <2>4, <3>1 DEF SeatGivenUp
  <2>7. ~Emptied(slots[s], slots'[s])
    BY <2>4 DEF Emptied
  <2>8. slots'[s].enrolled # slots[s].enrolled
    BY <2>4
  <2>9. HeadPromoted(r.user, slots[s], slots'[s])
    BY <2>2, <2>5, <2>6, <2>7, <2>8 DEF SlotStep, PlaceTaken, PlaceGivenUp, Patched
  <2>10. Members(RemoveAll(slots[s].queue, Head(slots[s].queue)))
           = Members(slots[s].queue) \ {Head(slots[s].queue)}
    BY <2>4, RemoveAllMembers
  <2> QED
    BY <2>9, <2>10 DEF HeadPromoted
<1> QED
  BY <1>1, Consistency, PTL DEF Spec, OnlyPromotionOverfills

(* An account without a place is in no array, so nobody notices that it    *)
(* has gone (user_routes.cpp:58-63, slot_manager.cpp:49-87).               *)
THEOREM EmptyAccountsLeave == Spec => EmptyAccountsLeaveCleanly
<1> DEFINE Cleanly ==
      \A u \in Users :
        /\ Live(users[u]) /\ ~Live(users'[u])
        /\ getUserEnrollments(users, u) = {} /\ getUserQueuedSlots(users, u) = {}
        /\ getGymSlotsAnswers(slots, users)
        => getGymSlotsAnswers(slots', users')
<1>1. Consistent(slots, users) /\ [Next]_vars => [Cleanly]_vars
  <2> SUFFICES ASSUME Consistent(slots, users), Next, NEW u \in Users,
                      Live(users[u]), ~Live(users'[u]),
                      users[u].enrolled = {}, users[u].queued = {},
                      getGymSlotsAnswers(slots, users)
               PROVE  getGymSlotsAnswers(slots', users')
    BY DEF getUserEnrollments, getUserQueuedSlots
  <2>1. PICK r \in Requests, a \in Answers : Serve(r, a)
    BY DEF Next
  <2>2. deleteUser(r, a)
    BY <2>1, UsersStay DEF Live
  <2>3. r.user \in Users /\ users' = deleteUserRow(users, r.user) /\ slots' = slots
    BY <2>2, RequestFields DEF deleteUser
  <2>4. OneUserRow(users, users', r.user)
    <3>1. UsersOK(users)
      BY DEF Consistent
    <3> QED
      BY <2>3, <3>1 DEF OneUserRow, UsersOK, Live, OnUser, deleteUserRow
  <2>5. \A v \in Users \ {u} : users'[v] = users[v]
    BY <2>4 DEF OneUserRow, Live
  <2>6. ASSUME NEW s \in Slots, Live(slots[s]),
               NEW v \in Members(slots[s].enrolled) \cup Members(slots[s].queue)
        PROVE  Live(users'[v])
    <3>1. v \in Users
      BY SlotFields DEF Consistent, Members
    <3>2. Live(users[v])
      BY <2>6 DEF getGymSlotsAnswers, getSlotInfoAnswers, loadUserListAnswers
    <3>3. v # u
      BY <2>6 DEF Consistent, Agree
    <3> QED
      BY <2>5, <3>1, <3>2, <3>3
  <2> QED
    BY <2>3, <2>6 DEF getGymSlotsAnswers, getSlotInfoAnswers, loadUserListAnswers
<1> QED
  BY <1>1, Consistency, PTL DEF Spec, EmptyAccountsLeaveCleanly
=============================================================================
