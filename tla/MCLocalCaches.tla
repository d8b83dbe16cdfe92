--------------------------- MODULE MCLocalCaches ---------------------------
(* TLC instances of LocalCaches: two threads whose caches hold two of      *)
(* three vectors, and triggers every two queries.  Neither threads nor ids *)
(* are told apart, so that both are symmetric.                             *)
EXTENDS LocalCaches, TLC

Symmetry == Permutations(Threads) \cup Permutations(Ids)
=============================================================================
