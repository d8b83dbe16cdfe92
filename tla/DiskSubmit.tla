----------------------------- MODULE DiskSubmit -----------------------------
(***************************************************************************)
(* submit() of the two DiskIOProcessors, on batches of reads.              *)
(*                                                                         *)
(* "AIO", the local disk: the reads are handed to the kernel by io_submit, *)
(* which may take some of them only, and reaped by io_getevents, which     *)
(* waits for all that are missing but gives up after AIOTimeout with those *)
(* that are there.  What a poll has reaped is ranked before the next poll. *)
(* "S3", the object store: one std::async task a read; when all are over,  *)
(* the reads are ranked in their order.                                    *)
(*                                                                         *)
(* A batch is "full" (search_o has decoded for it before) or "partial" (it *)
(* decodes while its reads are under way).  The batches of a search follow *)
(* one another on one processor, and on one AIO context.                   *)
(*                                                                         *)
(* A read that ends with an error is not told from one that succeeds: the  *)
(* code looks neither at io_event.res nor at what the futures return.      *)
(***************************************************************************)
EXTENDS Integers, FiniteSets

CONSTANTS
  MaxReads,       (* bound: reads of a batch                                *)
  MaxBatches,     (* bound: batches                                         *)
  MaxInterrupts,  (* bound: interrupted waits of a batch                    *)
  RingSize        (* reads the AIO context admits (io_setup)                *)

ASSUME MaxReadsAssumption == MaxReads \in Nat
ASSUME BoundsAssumption   == MaxBatches \in Nat /\ MaxInterrupts \in Nat
ASSUME RingSizeAssumption == RingSize \in Nat \ {0}

VARIABLES
  backend,      (* the processor get_DiskIOSearchProcessor made             *)
  batches,      (* batches submitted so far                                 *)
  kind, n,      (* the batch: its kind and its number of reads              *)
  pc,
  submitted,    (* reads handed over                                        *)
  flight,       (* reads the device works at                                *)
  completed,    (* reads that are over and not reaped                       *)
  reaped,       (* reads reaped and not ranked                              *)
  done,         (* totalDone: a count, and an int                           *)
  ranked,       (* calls of cal_callback                                    *)
  decoded,      (* pq_callback has run                                      *)
  marked,       (* dp_callback has run                                      *)
  interrupts    (* interrupted waits of this batch                          *)

vars == <<backend, batches, kind, n, pc, submitted, flight, completed, reaped, done,
          ranked, decoded, marked, interrupts>>

job       == <<backend, batches, kind, n>>
device    == <<submitted, flight, completed>>
callbacks == <<ranked, decoded, marked>>

Reads == 1 .. MaxReads

Least(a, b) == IF a <= b THEN a ELSE b

(* Requests the context still admits: an event leaves it when it is reaped.*)
Room == RingSize - Cardinality(flight) - Cardinality(completed)

(* Mutant: a single io_submit per batch.                                   *)
AfterSubmitOnce(k) == IF kind = "partial" THEN "decode" ELSE "rank"

(* Where a thread goes when k reads are handed over.                       *)
AfterSubmit(k) ==
  IF k < n THEN "submit" ELSE IF kind = "partial" THEN "decode" ELSE "rank"

(* Mutant: totalDone survives from one batch to the next.                  *)
NothingDoneYet == done

NothingDone == 0

(* Mutant: leave the loop one event early.                                 *)
AllButOneDone == done + 1 >= n

AllDone == done >= n

(* Mutant: an event is handled again with those of the next poll.          *)
StillUnranked(r) == reaped

Unranked(r) == reaped \ {r}

-----------------------------------------------------------------------------
Init ==
  /\ backend \in {"AIO", "S3"}
  /\ batches = 0
  /\ kind = "partial" /\ n = 0
  /\ pc = "idle"
  /\ submitted = 0 /\ flight = {} /\ completed = {}
  /\ reaped = {} /\ done = 0
  /\ ranked = [r \in Reads |-> 0]
  /\ decoded = FALSE /\ marked = FALSE
  /\ interrupts = 0

(* disk_io_partial_async_pq or disk_io_full_async_pq, and submit().        *)
Submit(k, m) ==
  /\ pc = "idle" /\ batches < MaxBatches
  /\ batches' = batches + 1
  /\ kind' = k /\ n' = m
  /\ pc' = IF m = 0 THEN "empty" ELSE "submit"
  /\ submitted' = 0 /\ reaped' = {} /\ done' = NothingDone
  /\ ranked' = [r \in Reads |-> 0]
  /\ decoded' = (k = "full") /\ marked' = FALSE
  /\ interrupts' = 0
  /\ UNCHANGED <<backend, flight, completed>>

(* No reads: a partial batch decodes and skips dp_callback; of a full one  *)
(* only the object-store processor calls it.                               *)
Empty ==
  /\ pc = "empty"
  /\ decoded' = TRUE
  /\ marked' = (kind = "full" /\ backend = "S3")
  /\ pc' = "leave"
  /\ UNCHANGED <<job, device, reaped, done, ranked, interrupts>>

(* io_submit takes k of the reads that are left.                           *)
IoSubmit(k) ==
  /\ backend = "AIO" /\ pc = "submit"
  /\ k \in 1 .. Least(n - submitted, Room)
  /\ flight' = flight \cup (submitted + 1 .. submitted + k)
  /\ submitted' = submitted + k
  /\ pc' = AfterSubmit(submitted + k)
  /\ UNCHANGED <<job, completed, reaped, done, callbacks, interrupts>>

(* io_submit takes none: FAISS_THROW_FMT.  Nothing is reaped before all    *)
(* are submitted, so there will be no more room.                           *)
IoSubmitFails ==
  /\ backend = "AIO" /\ pc = "submit"
  /\ Room <= 0
  /\ pc' = "failed"
  /\ UNCHANGED <<job, device, reaped, done, callbacks, interrupts>>

(* The tasks of the object-store processor.                                *)
Launch ==
  /\ backend = "S3" /\ pc = "submit"
  /\ flight' = 1 .. n
  /\ submitted' = n
  /\ pc' = IF kind = "partial" THEN "decode" ELSE "wait"
  /\ UNCHANGED <<job, completed, reaped, done, callbacks, interrupts>>

(* pq_callback, while the reads are under way.                             *)
Decode ==
  /\ pc = "decode"
  /\ decoded' = TRUE
  /\ pc' = IF backend = "AIO" THEN "rank" ELSE "wait"
  /\ UNCHANGED <<job, device, reaped, done, ranked, marked, interrupts>>

(* The device is through with a read.                                      *)
Complete(r) ==
  /\ r \in flight
  /\ flight' = flight \ {r}
  /\ completed' = completed \cup {r}
  /\ UNCHANGED <<job, pc, submitted, reaped, done, callbacks, interrupts>>

(* io_getevents: all that is missing, or after the timeout what is there.  *)
Poll ==
  /\ backend = "AIO" /\ pc = "poll"
  /\ reaped' = reaped \cup completed
  /\ done' = done + Cardinality(completed)
  /\ completed' = {}
  /\ pc' = "rank"
  /\ UNCHANGED <<job, submitted, flight, callbacks, interrupts>>

(* io_getevents returns -1, which submit_partially looks for and           *)
(* submit_fully adds to its counters.                                      *)
Interrupted ==
  /\ backend = "AIO" /\ pc = "poll" /\ completed = {}
  /\ interrupts < MaxInterrupts
  /\ interrupts' = interrupts + 1
  /\ IF kind = "partial" THEN pc' = "failed" /\ UNCHANGED done
                         ELSE pc' = "rank" /\ done' = done - 1
  /\ UNCHANGED <<job, device, reaped, callbacks>>

(* f.get() of every task                                                   *)
JoinAll ==
  /\ backend = "S3" /\ pc = "wait" /\ flight = {}
  /\ reaped' = completed
  /\ done' = n
  /\ completed' = {}
  /\ pc' = "rank"
  /\ UNCHANGED <<job, submitted, flight, callbacks, interrupts>>

(* cal_callback: in the order of the reads, or in that of the events.      *)
Rank(r) ==
  /\ pc = "rank" /\ r \in reaped
  /\ backend = "S3" => \A q \in reaped : r <= q
  /\ ranked' = [ranked EXCEPT ![r] = @ + 1]
  /\ reaped' = Unranked(r)
  /\ UNCHANGED <<job, pc, device, done, decoded, marked, interrupts>>

RankOver ==
  /\ pc = "rank" /\ reaped = {}
  /\ pc' = IF AllDone THEN "mark" ELSE "poll"
  /\ UNCHANGED <<job, device, reaped, done, callbacks, interrupts>>

(* dp_callback                                                             *)
Mark ==
  /\ pc = "mark"
  /\ marked' = TRUE
  /\ pc' = "leave"
  /\ UNCHANGED <<job, device, reaped, done, ranked, decoded, interrupts>>

(* submit() returns; the page buffers are freed.                           *)
Return ==
  /\ pc = "leave"
  /\ pc' = "idle"
  /\ UNCHANGED <<job, device, reaped, done, callbacks, interrupts>>

(* The search is over, or an exception has ended the program.              *)
Stopped ==
  /\ pc = "idle" => batches = MaxBatches
  /\ pc \in {"idle", "failed"}
  /\ UNCHANGED vars

Thread ==
  \/ Empty \/ (\E k \in Reads : IoSubmit(k)) \/ IoSubmitFails \/ Launch \/ Decode
  \/ Poll \/ JoinAll \/ (\E r \in Reads : Rank(r)) \/ RankOver \/ Mark \/ Return

Next ==
  \/ \E k \in {"partial", "full"} : \E m \in 0 .. MaxReads : Submit(k, m)
  \/ Thread \/ Interrupted
  \/ \E r \in Reads : Complete(r)
  \/ Stopped

(* The calling thread goes on, and the device ends what it has begun.      *)
Spec ==
  Init /\ [][Next]_vars /\ WF_vars(Thread) /\ \A r \in Reads : WF_vars(Complete(r))

-----------------------------------------------------------------------------
TypeOK ==
  /\ backend \in {"AIO", "S3"} /\ kind \in {"partial", "full"}
  /\ batches \in 0 .. MaxBatches /\ n \in 0 .. MaxReads
  /\ pc \in {"idle", "empty", "submit", "decode", "wait", "rank", "poll", "mark",
             "leave", "failed"}
  /\ submitted \in 0 .. n
  /\ flight \subseteq Reads /\ completed \subseteq Reads /\ reaped \subseteq Reads
  /\ done \in -MaxInterrupts .. n
  /\ ranked \in [Reads -> Nat]
  /\ decoded \in BOOLEAN /\ marked \in BOOLEAN
  /\ interrupts \in 0 .. MaxInterrupts

(***************************************************************************)
(* Both processors are what ReadBatch says: every read is ranked once,     *)
(* after it has ended and after the decoding, and duplicates are marked    *)
(* when all are.  In particular submit() never returns, and so frees the   *)
(* page buffers, while the device still writes to one of them.             *)
(***************************************************************************)
Abstract == INSTANCE ReadBatch WITH
  status  <- IF pc \in {"idle", "failed"} THEN pc ELSE "running",
  batch   <- 1 .. n,
  arrived <- (1 .. submitted) \ flight

Implements == Abstract!Spec

(***************************************************************************)
(* A batch that fits the AIO context is not refused: whatever batches came *)
(* before it, they have left nothing in the context.                       *)
(***************************************************************************)
Accepted == pc = "failed" => n > RingSize \/ interrupts > 0

(***************************************************************************)
(* A batch ends, by a return or by an exception, unless the wait of a full *)
(* one is interrupted: submit_fully then waits for one event more than     *)
(* there are reads.                                                        *)
(***************************************************************************)
Ends ==
  pc = "submit" ~> pc \in {"idle", "failed"} \/ (kind = "full" /\ interrupts > 0)

(***************************************************************************)
(* io_getevents is asked for wait = submitted - done events: those of the  *)
(* reads the device still owes, so that the wait is never for a read that  *)
(* was reaped before, plus one that never comes for every interrupted wait *)
(* of a full batch, whose -1 submit_fully takes off its counters.          *)
(***************************************************************************)
WaitsForReads ==
  pc = "poll" =>
    /\ n - done = Cardinality(flight) + Cardinality(completed) + interrupts
    /\ flight \cup completed = {} => kind = "full" /\ interrupts > 0
=============================================================================
