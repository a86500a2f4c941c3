----------------------------- MODULE BookingRows -----------------------------
(***************************************************************************)
(* The rows of the tables slots and users that the booking requests touch, *)
(* and the single-row statements SlotManager and UserManager issue on them *)
(* (src/server/src/dbmanagers/).  Each operator maps a table to the table  *)
(* after the statement; a statement on an absent row changes nothing.      *)
(*                                                                         *)
(* An operator whose comment starts with "Bug:" is a faulty variant of the *)
(* one below it.  Nothing uses it: it is put in that one's place to see    *)
(* that a property notices (PROJECT.json, "mutants").                      *)
(***************************************************************************)
EXTENDS Integers, Sequences, FiniteSets

CONSTANTS
  Slots,       \* ids of slots rows (UUIDs, never reused)
  Users,       \* ids of users rows
  Capacities,  \* the capacities administrators give to slots
  NoUser,      \* the empty string getFirstInQueue returns
  Ops          \* the kinds of request the clients send

ASSUME NoUserAssumption == NoUser \notin Users
ASSUME CapacitiesAssumption == Capacities \subseteq Int /\ Capacities # {}

SeatOps == {"addUserEntry", "deleteUserEntry", "joinQueue", "leaveQueue"}
AllOps == SeatOps \cup {"createSlot", "patchSlot", "deleteSlot", "deleteUser"}

ASSUME OpsAssumption == Ops \subseteq AllOps

(* A request that reaches its handler with every field it requires.        *)
Requests ==
  {r \in [op : SeatOps, user : Users, slot : Slots]
         \cup [op : {"createSlot", "patchSlot"}, slot : Slots, cap : Capacities]
         \cup [op : {"deleteSlot"}, slot : Slots]
         \cup [op : {"deleteUser"}, user : Users] : r.op \in Ops}

(* What the handlers answer; "error" is the 500 of an exception.           *)
Answers == {"ok", "enrolled", "queued", "alreadyEnrolled", "alreadyQueued",
            "full", "notQueued", "error"}

(* A slot row is absent before createSlot and after deleteSlot; a users    *)
(* row is absent after deleteUser.  A NULL array reads as the empty one.   *)
(* The order and multiplicity of users.enrolled_slots / queued_slots are   *)
(* never looked at (std::find), so they are sets.                          *)
SlotRow == [st : {"unborn", "live", "gone"}, cap : Capacities,
            enrolled : Seq(Users), queue : Seq(Users)]

UserRow == [st : {"live", "gone"}, enrolled : SUBSET Slots, queued : SUBSET Slots]

Live(row) == row.st = "live"

EmptySlot(st, c) == [st |-> st, cap |-> c, enrolled |-> << >>, queue |-> << >>]

(* The slots that exist when the model starts are empty.                   *)
InitSlots == [Slots -> {EmptySlot(st, c) : st \in {"unborn", "live"}, c \in Capacities}]
InitUsers == [u \in Users |-> [st |-> "live", enrolled |-> {}, queued |-> {}]]

(* Only createSlot chooses an id; every other request names a slot that    *)
(* some client has read from the database.                                 *)
Nameable(tbl, r) ==
  CASE r.op = "createSlot" -> tbl[r.slot].st = "unborn"
    [] r.op = "deleteUser" -> TRUE
    [] OTHER               -> tbl[r.slot].st # "unborn"

Members(arr) == {arr[i] : i \in DOMAIN arr}

(* array_remove(arr, e): every occurrence of e is dropped.                 *)
RemoveAll(arr, e) ==
  LET kept[n \in 0..Len(arr)] ==
        IF n = 0 THEN << >>
        ELSE IF arr[n] = e THEN kept[n - 1] ELSE Append(kept[n - 1], arr[n])
  IN  kept[Len(arr)]

-----------------------------------------------------------------------------
(* SlotManager                                                             *)

OnSlot(tbl, s, row) == IF Live(tbl[s]) THEN [tbl EXCEPT ![s] = row] ELSE tbl

removeEntry(tbl, u, s) ==
  OnSlot(tbl, s, [tbl[s] EXCEPT !.enrolled = RemoveAll(@, u)])

addEntry(tbl, u, s) ==
  OnSlot(tbl, s, [tbl[s] EXCEPT !.enrolled = Append(@, u)])

addToQueue(tbl, u, s) ==
  OnSlot(tbl, s, [tbl[s] EXCEPT !.queue = Append(@, u)])

(* Bug: the other array.                                                   *)
removeFromQueueOfEnrolled(tbl, u, s) ==
  OnSlot(tbl, s, [tbl[s] EXCEPT !.enrolled = RemoveAll(@, u)])

removeFromQueue(tbl, u, s) ==
  OnSlot(tbl, s, [tbl[s] EXCEPT !.queue = RemoveAll(@, u)])

(* Bug: the capacity is added to the old one.                              *)
changeSlotInfoByAdding(tbl, s, c) == OnSlot(tbl, s, [tbl[s] EXCEPT !.cap = @ + c])

(* The start and end times are not modelled: no handler reads them.        *)
changeSlotInfo(tbl, s, c) == OnSlot(tbl, s, [tbl[s] EXCEPT !.cap = c])

insertSlot(tbl, s, c) == [tbl EXCEPT ![s] = EmptySlot("live", c)]

(* Bug: the slot is closed but not emptied.                                *)
deleteSlotRowKeepingArrays(tbl, s) == OnSlot(tbl, s, [tbl[s] EXCEPT !.st = "gone"])

deleteSlotRow(tbl, s) == OnSlot(tbl, s, EmptySlot("gone", tbl[s].cap))

(* Bug: off by one.                                                        *)
isAtCapacityOffByOne(tbl, s) == Len(tbl[s].enrolled) > tbl[s].cap

(* Defined for a live slot only: on an absent row the code throws.         *)
isAtCapacity(tbl, s) == Len(tbl[s].enrolled) >= tbl[s].cap

(* Bug: queue[0], which is NULL since SQL arrays start at 1.               *)
getFirstInQueueFromZero(tbl, s) == NoUser

(* Bug: the newest place of the queue instead of the oldest.               *)
getLastInQueue(tbl, s) ==
  IF Live(tbl[s]) /\ tbl[s].queue # << >> THEN tbl[s].queue[Len(tbl[s].queue)] ELSE NoUser

getFirstInQueue(tbl, s) ==
  IF Live(tbl[s]) /\ tbl[s].queue # << >> THEN Head(tbl[s].queue) ELSE NoUser

-----------------------------------------------------------------------------
(* UserManager                                                             *)

OnUser(tbl, u, row) == IF Live(tbl[u]) THEN [tbl EXCEPT ![u] = row] ELSE tbl

addEnrollment(tbl, u, s) == OnUser(tbl, u, [tbl[u] EXCEPT !.enrolled = @ \cup {s}])

removeEnrollment(tbl, u, s) == OnUser(tbl, u, [tbl[u] EXCEPT !.enrolled = @ \ {s}])

addQueuedSlot(tbl, u, s) == OnUser(tbl, u, [tbl[u] EXCEPT !.queued = @ \cup {s}])

removeQueuedSlot(tbl, u, s) == OnUser(tbl, u, [tbl[u] EXCEPT !.queued = @ \ {s}])

deleteUserRow(tbl, u) ==
  OnUser(tbl, u, [st |-> "gone", enrolled |-> {}, queued |-> {}])

(* Bug: the places in the queue are forgotten.                             *)
strikeEnrolledOnly(sl, us, s) ==
  [u \in Users |->
     IF u \in Members(sl[s].enrolled) THEN [us[u] EXCEPT !.enrolled = @ \ {s}] ELSE us[u]]

(* The users rows that deleteSlot changes are found through the slot's own *)
(* arrays.                                                                 *)
strike(sl, us, s) ==
  [u \in Users |->
     [us[u] EXCEPT
        !.enrolled = IF u \in Members(sl[s].enrolled) THEN @ \ {s} ELSE @,
        !.queued = IF u \in Members(sl[s].queue) THEN @ \ {s} ELSE @]]

(* Both read a missing row as the empty list.                              *)
getUserEnrollments(tbl, u) == tbl[u].enrolled
getUserQueuedSlots(tbl, u) == tbl[u].queued

(* Bug: the promoted user stays in the queue.                              *)
promoteSlotsKeepingPlace(tbl, next, s) == addEntry(tbl, next, s)

(* The list of an array's users asks for the name of each: it throws, and  *)
(* the whole answer is a 500, when one of them has no row.                 *)
loadUserListAnswers(us, arr) == \A u \in Members(arr) : Live(us[u])

getSlotInfoAnswers(sl, us, s) ==
  loadUserListAnswers(us, sl[s].enrolled) /\ loadUserListAnswers(us, sl[s].queue)

getGymSlotsAnswers(sl, us) ==
  \A s \in Slots : Live(sl[s]) => getSlotInfoAnswers(sl, us, s)

(* Promotion of the queue head: the four statements after lockUser(next).  *)
promoteSlots(tbl, next, s) == addEntry(removeFromQueue(tbl, next, s), next, s)
promoteUsers(tbl, next, s) == addEnrollment(removeQueuedSlot(tbl, next, s), next, s)
=============================================================================
