------------------------------ MODULE MCBooking ------------------------------
(* Booking for TLC.                                                        *)
EXTENDS Booking, TLC

MCAllOps == AllOps
MCSeatOps == SeatOps \cup {"createSlot"}

Symmetry == Permutations(Slots) \cup Permutations(Users) \cup Permutations(Workers)
=============================================================================
