------------------------------ MODULE MCAccounts ------------------------------
(* Accounts for TLC.  Hours reach the bound of their type after one        *)
(* addition of two; minus five hours are beyond it.                        *)
EXTENDS Accounts, TLC

MCAmounts == {2, -5}

Symmetry ==
  Permutations(Accounts) \cup Permutations(Emails) \cup Permutations(Passwords)
    \cup Permutations(Workers)
=============================================================================
