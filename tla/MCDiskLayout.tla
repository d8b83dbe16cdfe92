---------------------------- MODULE MCDiskLayout ----------------------------
(* Four lists, so that an order of the centroids need not be its own       *)
(* inverse; three vectors, in batches of one or two, in up to two lists    *)
(* each, so that there may be a batch after the last one; two entries on a *)
(* page.                                                                   *)
EXTENDS DiskLayout

MCBatchSizes == {1, 2}
MCBatchNums  == {1, 2, 3}
MCNoIds      == {}
MCXids       == 0 .. 2
=============================================================================
