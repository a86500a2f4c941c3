---------------------------- MODULE AtomicBooking ----------------------------
(***************************************************************************)
(* What the booking requests promise: each of them acts on the tables      *)
(* slots and users in one step, as if it ran alone, and its answer is the  *)
(* one that step gives.  Booking implements this with transactions and row *)
(* locks.                                                                  *)
(***************************************************************************)
EXTENDS BookingRows

VARIABLES slots, users

vars == << slots, users >>

Init ==
  /\ slots \in InitSlots
  /\ users = InitUsers

-----------------------------------------------------------------------------
addUserEntry(r, a) ==
  /\ r.op = "addUserEntry"
  /\ \/ ~Live(slots[r.slot]) /\ a = "error" /\ UNCHANGED vars
     \/ /\ Live(slots[r.slot])
        /\ r.slot \in getUserEnrollments(users, r.user)
        /\ a = "alreadyEnrolled"
        /\ UNCHANGED vars
     \/ /\ Live(slots[r.slot])
        /\ r.slot \notin getUserEnrollments(users, r.user)
        /\ isAtCapacity(slots, r.slot)
        /\ a = "full"
        /\ UNCHANGED vars
     \/ /\ Live(slots[r.slot])
        /\ r.slot \notin getUserEnrollments(users, r.user)
        /\ ~isAtCapacity(slots, r.slot)
        /\ slots' = addEntry(slots, r.user, r.slot)
        /\ users' = addEnrollment(users, r.user, r.slot)
        /\ a = "ok"

deleteUserEntry(r, a) ==
  LET left == removeEntry(slots, r.user, r.slot)
      freed == removeEnrollment(users, r.user, r.slot)
      next == getFirstInQueue(left, r.slot)
  IN  /\ r.op = "deleteUserEntry"
      /\ a = "ok"
      /\ \/ next = NoUser /\ slots' = left /\ users' = freed
         \/ /\ next # NoUser
            /\ slots' = promoteSlots(left, next, r.slot)
            /\ users' = promoteUsers(freed, next, r.slot)

joinQueue(r, a) ==
  /\ r.op = "joinQueue"
  /\ \/ ~Live(slots[r.slot]) /\ a = "error" /\ UNCHANGED vars
     \/ /\ Live(slots[r.slot])
        /\ r.slot \in getUserEnrollments(users, r.user)
        /\ a = "alreadyEnrolled"
        /\ UNCHANGED vars
     \/ /\ Live(slots[r.slot])
        /\ r.slot \notin getUserEnrollments(users, r.user)
        /\ r.slot \in getUserQueuedSlots(users, r.user)
        /\ a = "alreadyQueued"
        /\ UNCHANGED vars
     \/ /\ Live(slots[r.slot])
        /\ r.slot \notin getUserEnrollments(users, r.user) \cup getUserQueuedSlots(users, r.user)
        /\ IF isAtCapacity(slots, r.slot)
           THEN /\ slots' = addToQueue(slots, r.user, r.slot)
                /\ users' = addQueuedSlot(users, r.user, r.slot)
                /\ a = "queued"
           ELSE /\ slots' = addEntry(slots, r.user, r.slot)
                /\ users' = addEnrollment(users, r.user, r.slot)
                /\ a = "enrolled"

leaveQueue(r, a) ==
  /\ r.op = "leaveQueue"
  /\ \/ r.slot \notin getUserQueuedSlots(users, r.user) /\ a = "notQueued" /\ UNCHANGED vars
     \/ /\ r.slot \in getUserQueuedSlots(users, r.user)
        /\ slots' = removeFromQueue(slots, r.user, r.slot)
        /\ users' = removeQueuedSlot(users, r.user, r.slot)
        /\ a = "ok"

createSlot(r, a) ==
  /\ r.op = "createSlot"
  /\ slots' = insertSlot(slots, r.slot, r.cap)
  /\ a = "ok"
  /\ UNCHANGED users

patchSlot(r, a) ==
  /\ r.op = "patchSlot"
  /\ slots' = changeSlotInfo(slots, r.slot, r.cap)
  /\ a = "ok"
  /\ UNCHANGED users

deleteSlot(r, a) ==
  /\ r.op = "deleteSlot"
  /\ users' = strike(slots, users, r.slot)
  /\ slots' = deleteSlotRow(slots, r.slot)
  /\ a = "ok"

(* The arrays of the slots keep the deleted id.                            *)
deleteUser(r, a) ==
  /\ r.op = "deleteUser"
  /\ users' = deleteUserRow(users, r.user)
  /\ a = "ok"
  /\ UNCHANGED slots

Serve(r, a) ==
  /\ Nameable(slots, r)
  /\ \/ addUserEntry(r, a) \/ deleteUserEntry(r, a)
     \/ joinQueue(r, a) \/ leaveQueue(r, a)
     \/ createSlot(r, a) \/ patchSlot(r, a)
     \/ deleteSlot(r, a) \/ deleteUser(r, a)

Next == \E r \in Requests, a \in Answers : Serve(r, a)

Spec == Init /\ [][Next]_vars

-----------------------------------------------------------------------------
(* The tables hold rows of their types, and an absent row holds nothing.   *)
TypeOK ==
  /\ slots \in [Slots -> SlotRow]
  /\ users \in [Users -> UserRow]
  /\ \A s \in Slots : ~Live(slots[s]) => slots[s].enrolled = << >> /\ slots[s].queue = << >>
  /\ \A u \in Users : ~Live(users[u]) => users[u].enrolled = {} /\ users[u].queued = {}

(* The two copies of a booking agree: a user's own lists name exactly the  *)
(* live slots whose enrolled (queue) array holds the user.  The routes     *)
(* read one copy to decide and the other to promote, and the client shows  *)
(* both (slot_routes.cpp:63-78, queue_routes.cpp:14-44).                   *)
RowsAgree ==
  \A u \in {v \in Users : Live(users[v])} :
    /\ users[u].enrolled = {s \in Slots : u \in Members(slots[s].enrolled)}
    /\ users[u].queued = {s \in Slots : u \in Members(slots[s].queue)}

(* While nobody changes a capacity and no account is deleted, a seat is    *)
(* never left free while somebody waits for it: addUserEntry and joinQueue *)
(* test the capacity, deleteUserEntry promotes (slot_routes.cpp:97-105).   *)
QueueOnlyWhenFull ==
  \A s \in Slots : slots[s].queue # << >> => isAtCapacity(slots, s)

(* A user holds at most one place in a slot: one seat, or one place in its *)
(* queue (slot_routes.cpp:69-71, queue_routes.cpp:21-28).                  *)
OnePlaceEach ==
  \A s \in Slots :
    LET places == slots[s].enrolled \o slots[s].queue
    IN  \A i, j \in DOMAIN places : places[i] = places[j] => i = j

(* While users wait for a slot, the only one who can get a seat is the one *)
(* at the head of its queue: nobody overtakes, newcomers are refused       *)
(* (slot_routes.cpp:72-74, 97-105).                                        *)
SeatsGoToTheHead ==
  [][\A s \in Slots :
       slots[s].queue # << >> =>
         Members(slots[s].enrolled)' \ Members(slots[s].enrolled) \subseteq {Head(slots[s].queue)}]_vars

(* Seats are given out beyond the capacity only by a promotion, never by   *)
(* addUserEntry or joinQueue, whatever patchSlot did to the capacity.      *)
OnlyPromotionOverfills ==
  [][\A s \in Slots :
       LET before == slots[s] after == slots'[s]
       IN  /\ Live(before) /\ Len(after.enrolled) > Len(before.enrolled)
           /\ Len(after.enrolled) > after.cap
           => before.queue # << >> /\ Head(before.queue) \notin Members(after.queue)]_vars

(* The capacity bounds the seats (api.yaml:350-352; a full slot answers    *)
(* "Slot is full. Join the queue instead.", slot_routes.cpp:72-74).        *)
NeverOverbooked == \A s \in Slots : Live(slots[s]) => Len(slots[s].enrolled) <= slots[s].cap

(* Deleting an account that has no booking and no place in a queue leaves  *)
(* the lists of slots, with the names of their participants, answerable:   *)
(* its id is in no array (user_routes.cpp:58-63, slot_manager.cpp:49-87).  *)
EmptyAccountsLeaveCleanly ==
  [][\A u \in Users :
       /\ Live(users[u]) /\ ~Live(users'[u])
       /\ getUserEnrollments(users, u) = {} /\ getUserQueuedSlots(users, u) = {}
       /\ getGymSlotsAnswers(slots, users)
       => getGymSlotsAnswers(slots', users')]_vars
=============================================================================
