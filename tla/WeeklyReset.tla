----------------------------- MODULE WeeklyReset -----------------------------
(***************************************************************************)
(* The scheduler thread (src/server/src/scheduler.cpp): every Monday after *)
(* 11:00 it moves all slots to the next week and empties them, by two      *)
(* statements that commit one after the other, while the booking requests  *)
(* go on.  What it has done it remembers in a local variable only.         *)
(***************************************************************************)
EXTENDS AtomicBooking

CONSTANTS
  MaxWeek,      \* bound: the week the clock stops in
  MaxFailures,  \* bound: statements of the scheduler that fail
  MaxRestarts   \* bound: restarts of the server

ASSUME WeeksAssumption == MaxWeek \in Nat \ {0} /\ MaxFailures \in Nat /\ MaxRestarts \in Nat

VARIABLES
  week, morning,     \* this_monday, and whether it is Monday before 11:00
  last_reset,        \* 0 stands for the epoch
  resetting,         \* 0, or the week whose reset has done its first statement
  shifts,            \* history: resets of the slots since Monday 11:00
  failures, restarts \* what has happened of what is bounded

clock == << week, morning >>
bounded == << failures, restarts >>
scheduler == << last_reset, resetting >>
resetVars == << vars, clock, scheduler, shifts, bounded >>

ResetInit ==
  /\ Init
  /\ week = 1 /\ morning = TRUE
  /\ last_reset = 0
  /\ resetting = 0
  /\ shifts = 0
  /\ failures = 0 /\ restarts = 0

-----------------------------------------------------------------------------
Clock ==
  /\ \/ morning /\ morning' = FALSE /\ shifts' = 0 /\ UNCHANGED week
     \/ ~morning /\ week < MaxWeek /\ morning' = TRUE /\ week' = week + 1 /\ UNCHANGED shifts
  /\ UNCHANGED << vars, scheduler, bounded >>

Request == Next /\ UNCHANGED << clock, scheduler, shifts, bounded >>

Due == ~morning /\ week > last_reset

(* The first statement of SlotManager::resetWeekly.                        *)
resetSlots ==
  /\ resetting = 0
  /\ Due
  /\ slots' = [s \in Slots |-> IF Live(slots[s]) THEN EmptySlot("live", slots[s].cap) ELSE slots[s]]
  /\ shifts' = shifts + 1
  /\ resetting' = week
  /\ UNCHANGED << users, clock, last_reset, bounded >>

(* Bug: queued_slots, a later addition to the table, is left alone.        *)
resetUsersEnrolledOnly ==
  /\ resetting # 0
  /\ users' = [u \in Users |-> [users[u] EXCEPT !.enrolled = {}]]
  /\ last_reset' = resetting
  /\ resetting' = 0
  /\ UNCHANGED << slots, clock, shifts, bounded >>

(* Bug: what was done is not remembered.                                   *)
resetUsersForgettingWeek ==
  /\ resetting # 0
  /\ users' = [u \in Users |-> [users[u] EXCEPT !.enrolled = {}, !.queued = {}]]
  /\ resetting' = 0
  /\ UNCHANGED << slots, clock, last_reset, shifts, bounded >>

(* Bug: the Monday to come is remembered, as if it had passed.             *)
resetUsersRememberingNext ==
  /\ resetting # 0
  /\ users' = [u \in Users |-> [users[u] EXCEPT !.enrolled = {}, !.queued = {}]]
  /\ last_reset' = resetting + 1
  /\ resetting' = 0
  /\ UNCHANGED << slots, clock, shifts, bounded >>

(* The second statement, and the assignment to last_reset.                 *)
resetUsers ==
  /\ resetting # 0
  /\ users' = [u \in Users |-> [users[u] EXCEPT !.enrolled = {}, !.queued = {}]]
  /\ last_reset' = resetting
  /\ resetting' = 0
  /\ UNCHANGED << slots, clock, shifts, bounded >>

(* Bug: the week counts as done whether or not the reset succeeded.        *)
resetFailsForGood ==
  /\ failures < MaxFailures
  /\ failures' = failures + 1
  /\ resetting # 0 \/ Due
  /\ resetting' = 0
  /\ last_reset' = week
  /\ UNCHANGED << vars, clock, shifts, restarts >>

(* A statement throws: the loop tries again from the beginning in 30 s.    *)
resetFails ==
  /\ failures < MaxFailures
  /\ failures' = failures + 1
  /\ resetting # 0 \/ Due
  /\ resetting' = 0
  /\ UNCHANGED << vars, clock, last_reset, shifts, restarts >>

Restart ==
  /\ restarts < MaxRestarts
  /\ restarts' = restarts + 1
  /\ last_reset' = 0
  /\ resetting' = 0
  /\ UNCHANGED << vars, clock, shifts, failures >>

ResetNext == Clock \/ Request \/ resetSlots \/ resetUsers \/ resetFails \/ Restart

ResetSpec == ResetInit /\ [][ResetNext]_resetVars

(* The scheduler thread goes on; nothing is assumed of the clock, of the   *)
(* requests, or of failures beyond their bound.                            *)
ResetFairSpec == ResetSpec /\ WF_resetVars(resetSlots) /\ WF_resetVars(resetUsers)

-----------------------------------------------------------------------------
(* The week in which slots were last due to be reset.                      *)
DueWeek == IF morning THEN week - 1 ELSE week

ResetTypeOK ==
  /\ TypeOK
  /\ week \in 1..MaxWeek /\ morning \in BOOLEAN
  /\ last_reset \in 0..MaxWeek /\ resetting \in 0..MaxWeek
  /\ shifts \in Nat
  /\ failures \in 0..MaxFailures /\ restarts \in 0..MaxRestarts

(* When no reset is outstanding, what a user's lists show is in the arrays *)
(* of the slots, although requests came between the two statements of the  *)
(* reset; the arrays may hold more (slot_manager.cpp:159-167).             *)
ListsAreHonoured ==
  last_reset >= DueWeek =>
    \A u \in {v \in Users : Live(users[v])} :
      /\ users[u].enrolled \subseteq {s \in Slots : u \in Members(slots[s].enrolled)}
      /\ users[u].queued \subseteq {s \in Slots : u \in Members(slots[s].queue)}

(* Only a failed statement or a restart makes the scheduler move the slots *)
(* more than once a week, and each of them once more at the most.          *)
RepeatsNeedFaults == shifts <= 1 + failures + restarts

(* A reset that is due is made, and a statement of it that failed is made  *)
(* up for, unless the next Monday comes before (scheduler.cpp:32-43).      *)
ResetHappens == Due ~> morning \/ (shifts > 0 /\ ~Due)
=============================================================================
