--------------------------- MODULE MCSearchRounds ---------------------------
(* Three ids stored two or three times, in three lists of different        *)
(* lengths, all of them probed; two queries, one list in the full stage,   *)
(* one or two in every round.                                              *)
EXTENDS SearchRounds, TLC

CONSTANTS A, B, C

MCListIds == A :> <<1, 2>> @@ B :> <<2, 3, 1>> @@ C :> <<3>>
=============================================================================
