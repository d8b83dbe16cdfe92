---------------------------- MODULE MCShardCache ----------------------------
(* TLC instance of ShardCache: the warm-up content and the batches are     *)
(* what the module enumerates; Ids covers both shards with two ids each.   *)
EXTENDS ShardCache

MCIds == 0 .. 3
=============================================================================
