---------------------------- MODULE MCClientView ----------------------------
(* ClientView for TLC.                                                     *)
EXTENDS ClientView, TLC

(* The calls whose replies make the view send different requests; what a   *)
(* join sends is what a booking and a leave send together.                 *)
MCCalls == {"book", "leave", "createGym"}

Symmetry == Permutations(Gyms)
=============================================================================
