---------------------------- MODULE MCWeeklyReset ----------------------------
(* WeeklyReset for TLC.                                                    *)
EXTENDS WeeklyReset, TLC

MCResetOps == SeatOps \cup {"createSlot", "deleteSlot"}
MCFewOps == {"createSlot", "joinQueue"}

Symmetry == Permutations(Slots) \cup Permutations(Users)
=============================================================================
