------------------------------ MODULE MCNotifier ------------------------------
(* Notifier for TLC.                                                       *)
EXTENDS Notifier, TLC

MCNotifierOps == {"addUserEntry", "deleteUserEntry", "patchSlot", "deleteSlot", "deleteUser"}
MCStarts == 0..5

Symmetry == Permutations(Users)
=============================================================================
