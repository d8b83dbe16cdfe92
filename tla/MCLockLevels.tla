---------------------------- MODULE MCLockLevels ----------------------------
(* TLC instances of LockLevels: three threads on three lists, so that one  *)
(* thread can be inside lock_3 while another waits in lock_2 and a third   *)
(* is active, waits for a list, or arrives.                                *)
EXTENDS LockLevels
=============================================================================
