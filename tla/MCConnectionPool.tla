--------------------------- MODULE MCConnectionPool ---------------------------
(* ConnectionPool for TLC.                                                 *)
EXTENDS ConnectionPool, TLC

Symmetry == Permutations(Threads) \cup Permutations(Conns)
=============================================================================
