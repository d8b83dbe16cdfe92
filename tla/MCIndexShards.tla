--------------------------- MODULE MCIndexShards ---------------------------
(* Two sub-indexes with their workers, four calls, batches of three        *)
(* vectors, which two shards cannot share evenly.                          *)
EXTENDS IndexShards

MCTasks == (1 .. MaxCalls) \X Workers
=============================================================================
