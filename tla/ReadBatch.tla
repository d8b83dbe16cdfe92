----------------------------- MODULE ReadBatch -----------------------------
(***************************************************************************)
(* What the search pipeline relies on when it calls submit(): the abstract *)
(* behaviour of a batch of reads, whatever device serves it.               *)
(*                                                                         *)
(*   - a read is ranked (cal_callback) once, after its data has arrived    *)
(*     and after the batch's decoding (pq_callback) is over;               *)
(*   - decoding is done at most once;                                      *)
(*   - duplicates are marked (dp_callback) once, when all is ranked, and a *)
(*     batch that had reads does not return before that.                   *)
(*                                                                         *)
(* Arrivals are the device's, all the rest is the calling thread's.        *)
(***************************************************************************)
EXTENDS Naturals

CONSTANT MaxReads    (* bound: reads of a batch                            *)

VARIABLES
  status,   (* whether a batch is running, or its submit() has failed       *)
  batch,    (* the reads of the batch                                       *)
  arrived,  (* those whose data is in memory                                *)
  ranked,   (* how often a read has been ranked                             *)
  decoded,  (* pq_callback has run for this batch                           *)
  marked    (* dp_callback has run for this batch                           *)

vars == <<status, batch, arrived, ranked, decoded, marked>>

Reads == 1 .. MaxReads

Init ==
  /\ status = "idle"
  /\ batch = {} /\ arrived = {}
  /\ ranked = [r \in Reads |-> 0]
  /\ decoded = FALSE /\ marked = FALSE

(* The caller decodes before it submits, or leaves it to the batch.        *)
Submit ==
  /\ status = "idle"
  /\ status' = "running"
  /\ batch' \in SUBSET Reads /\ arrived' = {}
  /\ ranked' = [r \in Reads |-> 0]
  /\ decoded' \in BOOLEAN /\ marked' = FALSE

Arrive(r) ==
  /\ status # "idle"
  /\ r \in batch \ arrived
  /\ arrived' = arrived \cup {r}
  /\ UNCHANGED <<status, batch, ranked, decoded, marked>>

Decode ==
  /\ status = "running" /\ ~decoded
  /\ decoded' = TRUE
  /\ UNCHANGED <<status, batch, arrived, ranked, marked>>

Rank(r) ==
  /\ status = "running" /\ decoded
  /\ r \in arrived /\ ranked[r] = 0
  /\ ranked' = [ranked EXCEPT ![r] = 1]
  /\ UNCHANGED <<status, batch, arrived, decoded, marked>>

AllRanked == \A r \in batch : ranked[r] = 1

Mark ==
  /\ status = "running" /\ decoded /\ AllRanked /\ ~marked
  /\ marked' = TRUE
  /\ UNCHANGED <<status, batch, arrived, ranked, decoded>>

Return ==
  /\ status = "running" /\ decoded
  /\ batch # {} => marked
  /\ status' = "idle"
  /\ UNCHANGED <<batch, arrived, ranked, decoded, marked>>

(* The device refuses the batch, or stops answering.                       *)
Fail ==
  /\ status = "running" /\ ~AllRanked
  /\ status' = "failed"
  /\ UNCHANGED <<batch, arrived, ranked, decoded, marked>>

Next ==
  \/ Submit \/ Decode \/ Mark \/ Return \/ Fail
  \/ \E r \in Reads : Arrive(r) \/ Rank(r)

Spec == Init /\ [][Next]_vars
=============================================================================
