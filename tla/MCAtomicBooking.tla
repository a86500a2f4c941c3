--------------------------- MODULE MCAtomicBooking ---------------------------
(* AtomicBooking for TLC.  Only the id of a deleted account can be entered *)
(* in the arrays of a slot again and again (its own lists read as empty),  *)
(* so the arrays need a bound when accounts are deleted.                   *)
EXTENDS AtomicBooking, TLC

CONSTANT MaxPlaces     \* bound: joinQueue is sent while a slot's arrays hold fewer ids

MCAllOps == AllOps
MCSeatOps == SeatOps \cup {"createSlot"}
MCSlotOps == SeatOps \cup {"createSlot", "deleteSlot"}

MCNext ==
  \E r \in Requests, a \in Answers :
    /\ r.op = "joinQueue" =>
         Len(slots[r.slot].enrolled) + Len(slots[r.slot].queue) < MaxPlaces
    /\ Serve(r, a)

MCSpec == Init /\ [][MCNext]_vars

Symmetry == Permutations(Slots) \cup Permutations(Users)
=============================================================================
