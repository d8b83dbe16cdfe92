--------------------------- MODULE MCOnDiskLists ---------------------------
(* TLC instances of OnDiskLists: two lists, one-byte codes, and sizes that *)
(* make a list grow, shrink, move, and get the slot it has just released.  *)
EXTENDS OnDiskLists
=============================================================================
