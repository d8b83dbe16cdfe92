---------------------------- MODULE MCDiskSubmit ----------------------------
(* TLC instance of DiskSubmit: three batches of up to four reads, on       *)
(* either processor, and a context that admits three.                      *)
EXTENDS DiskSubmit
=============================================================================
