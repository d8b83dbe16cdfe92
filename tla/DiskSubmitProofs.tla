-------------------------- MODULE DiskSubmitProofs --------------------------
(***************************************************************************)
(* Proofs about DiskSubmit, for batches and contexts of any size: its      *)
(* types, that a batch that fits is accepted, and that it implements       *)
(* ReadBatch.                                                              *)
(***************************************************************************)
EXTENDS DiskSubmit, FiniteSetTheorems, TLAPS

-----------------------------------------------------------------------------
(***************************************************************************)
(* The inductive invariant.                                                *)
(***************************************************************************)

(* A read handed over is at one place, or it has been ranked, once.        *)
Places ==
  /\ flight \cup completed \cup reaped \subseteq 1 .. submitted
  /\ flight \cap completed = {} /\ flight \cap reaped = {} /\ completed \cap reaped = {}
  /\ \A r \in Reads :
       ranked[r] = IF r \in (1 .. submitted) \ (flight \cup completed \cup reaped)
                   THEN 1 ELSE 0

(* totalDone counts the reads that have left the device, less one for      *)
(* every interrupted wait.                                                 *)
Balance ==
  /\ -interrupts <= done /\ done <= n
  /\ backend = "AIO" /\ pc # "failed" =>
       done + Cardinality(flight) + Cardinality(completed) + interrupts = submitted
  /\ kind = "partial" /\ pc # "failed" => interrupts = 0

(* What holds at each place of the code.                                   *)
Stages ==
  /\ pc \in {"idle", "empty", "mark", "leave"} =>
       flight = {} /\ completed = {} /\ reaped = {} /\ submitted = n
  /\ pc \in {"submit", "decode", "wait", "poll"} => reaped = {}
  /\ pc \in {"decode", "wait", "rank", "poll", "mark"} => submitted = n /\ n > 0
  /\ pc \in {"empty", "submit"} => (decoded <=> kind = "full")
  /\ pc = "decode" => kind = "partial" /\ ~decoded
  /\ pc \in {"wait", "rank", "poll", "mark", "leave"} => decoded
  /\ pc \in {"empty", "submit", "decode", "wait", "rank", "poll", "mark"} => ~marked
  /\ pc = "leave" /\ n > 0 => marked
  /\ pc = "empty" => n = 0
  /\ pc = "submit" => submitted < n /\ done = 0 /\ interrupts = 0
  /\ pc = "submit" /\ backend = "S3" => submitted = 0
  /\ pc = "wait" => backend = "S3"
  /\ pc = "poll" => backend = "AIO" /\ done < n
  /\ pc = "rank" /\ backend = "S3" => flight = {} /\ completed = {} /\ done = n

IInv == TypeOK /\ Places /\ Balance /\ Stages /\ Accepted

-----------------------------------------------------------------------------
(* The sets of reads are finite, and their sizes are numbers.              *)
LEMMA Sizes ==
  ASSUME TypeOK
  PROVE  /\ IsFiniteSet(flight) /\ Cardinality(flight) \in Nat
         /\ IsFiniteSet(completed) /\ Cardinality(completed) \in Nat
         /\ Cardinality(flight) = 0 <=> flight = {}
         /\ Cardinality(completed) = 0 <=> completed = {}
<1>1. IsFiniteSet(Reads)
  BY FS_Interval, MaxReadsAssumption DEF Reads
<1>2. flight \in SUBSET Reads /\ completed \in SUBSET Reads
  BY DEF TypeOK
<1>3. IsFiniteSet(flight) /\ IsFiniteSet(completed)
  BY <1>1, <1>2, FS_Subset
<1> QED BY <1>3, FS_CardinalityType, FS_EmptySet

(* k more reads in flight count k.                                         *)
LEMMA Handed ==
  ASSUME TypeOK, Places, NEW k \in Nat, submitted + k <= n
  PROVE  /\ IsFiniteSet(flight \cup (submitted + 1 .. submitted + k))
         /\ Cardinality(flight \cup (submitted + 1 .. submitted + k))
              = Cardinality(flight) + k
<1> DEFINE new == submitted + 1 .. submitted + k
<1>1. submitted \in Nat
  BY DEF TypeOK
<1>2. IsFiniteSet(new) /\ Cardinality(new) = k
  <2>1. submitted + 1 \in Int /\ submitted + k \in Int
    BY <1>1
  <2>2. IsFiniteSet(new)
        /\ Cardinality(new) = IF submitted + 1 > submitted + k THEN 0
                              ELSE (submitted + k) - (submitted + 1) + 1
    BY <2>1, FS_Interval
  <2> QED BY <1>1, <2>2
<1>3. flight \cap new = {}
  BY <1>1 DEF Places
<1>4. IsFiniteSet(flight) /\ Cardinality(flight) \in Nat
  BY Sizes
<1>5. IsFiniteSet(flight \cup new)
      /\ Cardinality(flight \cup new)
           = Cardinality(flight) + Cardinality(new) - Cardinality(flight \cap new)
  BY <1>2, <1>4, FS_Union
<1>6. Cardinality(flight \cap new) = 0
  BY <1>3, FS_EmptySet
<1> HIDE DEF new
<1>7. QED BY <1>2, <1>4, <1>5, <1>6 DEF new

(* A read that ends moves from one set to the other.                       *)
LEMMA Moved ==
  ASSUME TypeOK, Places, NEW r \in flight
  PROVE  /\ Cardinality(flight \ {r}) = Cardinality(flight) - 1
         /\ Cardinality(completed \cup {r}) = Cardinality(completed) + 1
<1>1. r \notin completed
  BY DEF Places
<1>2. Cardinality(flight \ {r}) = Cardinality(flight) - 1
  BY Sizes, FS_RemoveElement
<1>3. Cardinality(completed \cup {r}) = Cardinality(completed) + 1
  BY <1>1, Sizes, FS_AddElement
<1> QED BY <1>2, <1>3

-----------------------------------------------------------------------------
(* The initial states satisfy the invariant.                               *)
LEMMA InitIInv == Init => IInv
<1> SUFFICES ASSUME Init PROVE IInv
  OBVIOUS
<1>1. TypeOK
  <2>1. n \in 0 .. MaxReads /\ batches \in 0 .. MaxBatches /\ submitted \in 0 .. n
        /\ done \in -MaxInterrupts .. n /\ interrupts \in 0 .. MaxInterrupts
    BY MaxReadsAssumption, BoundsAssumption DEF Init
  <2>2. ranked \in [Reads -> Nat]
    BY DEF Init
  <2> QED BY <2>1, <2>2 DEF Init, TypeOK
<1>2. Places
  BY DEF Init, Places, Reads
<1>3. Balance
  BY FS_EmptySet DEF Init, Balance
<1> QED BY <1>1, <1>2, <1>3 DEF Init, IInv, Stages, Accepted

LEMMA SubmitIInv ==
  ASSUME IInv, NEW k \in {"partial", "full"}, NEW m \in 0 .. MaxReads, Submit(k, m)
  PROVE  IInv'
<1> USE MaxReadsAssumption, BoundsAssumption, RingSizeAssumption
<1>1. TypeOK'
  <2>1. /\ n' \in 0 .. MaxReads /\ batches' \in 0 .. MaxBatches
        /\ submitted' \in 0 .. n' /\ done' \in -MaxInterrupts .. n'
        /\ interrupts' \in 0 .. MaxInterrupts
    BY DEF IInv, TypeOK, Submit, NothingDone
  <2>2. ranked' \in [Reads -> Nat]
    BY DEF Submit
  <2>3. kind' \in {"partial", "full"} /\ pc' \in {"empty", "submit"}
        /\ decoded' \in BOOLEAN /\ marked' \in BOOLEAN
    BY DEF Submit
  <2> QED BY <2>1, <2>2, <2>3 DEF IInv, TypeOK, Submit
<1>2. Places'
  BY DEF IInv, TypeOK, Places, Stages, Reads, Submit, NothingDone
<1>3. Balance'
  BY Sizes, FS_EmptySet DEF IInv, TypeOK, Places, Balance, Stages, Submit, NothingDone
<1>4. Stages'
  <2>1. flight' = {} /\ completed' = {} /\ reaped' = {}
    BY DEF IInv, Stages, Submit
  <2>2. pc' = IF m = 0 THEN "empty" ELSE "submit"
    BY DEF Submit
  <2>3. n' = m /\ submitted' = 0 /\ done' = 0 /\ interrupts' = 0
    BY DEF Submit, NothingDone
  <2>4. (decoded' <=> kind' = "full") /\ ~marked'
    BY DEF Submit
  <2>5. CASE m = 0
    BY <2>1, <2>2, <2>3, <2>4, <2>5 DEF Stages
  <2>6. CASE m # 0
    BY <2>1, <2>2, <2>3, <2>4, <2>6 DEF Stages
  <2> QED BY <2>5, <2>6
<1>5. Accepted'
  BY DEF Accepted, Submit
<1> QED BY <1>1, <1>2, <1>3, <1>4, <1>5 DEF IInv

LEMMA EmptyIInv ==
  ASSUME IInv, Empty
  PROVE  IInv'
<1> USE MaxReadsAssumption, BoundsAssumption, RingSizeAssumption
<1>1. TypeOK'
  BY DEF IInv, TypeOK, Places, Balance, Stages, Reads, Empty, job, device
<1>2. Places'
  BY DEF IInv, TypeOK, Places, Stages, Reads, Empty, job, device
<1>3. Balance'
  BY Sizes, FS_EmptySet DEF IInv, TypeOK, Places, Balance, Stages, Empty, job, device
<1>4. Stages'
  BY Sizes DEF IInv, TypeOK, Places, Balance, Stages, Empty, job, device
<1>5. Accepted'
  BY Sizes DEF IInv, TypeOK, Balance, Stages, Accepted, Empty, job, device
<1> QED BY <1>1, <1>2, <1>3, <1>4, <1>5 DEF IInv

LEMMA IoSubmitFailsIInv ==
  ASSUME IInv, IoSubmitFails
  PROVE  IInv'
<1> USE MaxReadsAssumption, BoundsAssumption, RingSizeAssumption
<1>1. TypeOK'
  BY DEF IInv, TypeOK, Places, Balance, Stages, Reads, IoSubmitFails, job, device, callbacks
<1>2. Places'
  BY DEF IInv, TypeOK, Places, Stages, Reads, IoSubmitFails, job, device, callbacks
<1>3. Balance'
  BY Sizes, FS_EmptySet DEF IInv, TypeOK, Places, Balance, Stages, IoSubmitFails, job, device, callbacks
<1>4. Stages'
  BY Sizes DEF IInv, TypeOK, Places, Balance, Stages, IoSubmitFails, job, device, callbacks
<1>5. Accepted'
  <2>1. Cardinality(flight) \in Nat /\ Cardinality(completed) \in Nat
    BY Sizes DEF IInv
  <2>2. Cardinality(flight) + Cardinality(completed) = submitted /\ submitted < n
    BY <2>1 DEF IInv, TypeOK, Balance, Stages, IoSubmitFails
  <2>3. RingSize <= submitted
    BY <2>1, <2>2 DEF IInv, TypeOK, IoSubmitFails, Room
  <2>4. n > RingSize
    BY <2>2, <2>3 DEF IInv, TypeOK
  <2> QED BY <2>4 DEF Accepted, IoSubmitFails, job
<1> QED BY <1>1, <1>2, <1>3, <1>4, <1>5 DEF IInv

LEMMA LaunchIInv ==
  ASSUME IInv, Launch
  PROVE  IInv'
<1> USE MaxReadsAssumption, BoundsAssumption, RingSizeAssumption
<1>1. TypeOK'
  BY DEF IInv, TypeOK, Places, Balance, Stages, Reads, Launch, job, callbacks
<1>2. Places'
  BY DEF IInv, TypeOK, Places, Stages, Reads, Launch, job, callbacks
<1>3. Balance'
  BY Sizes, FS_EmptySet DEF IInv, TypeOK, Places, Balance, Stages, Launch, job, callbacks
<1>4. Stages'
  BY Sizes DEF IInv, TypeOK, Places, Balance, Stages, Launch, job, callbacks
<1>5. Accepted'
  BY Sizes DEF IInv, TypeOK, Balance, Stages, Accepted, Launch, job, callbacks
<1> QED BY <1>1, <1>2, <1>3, <1>4, <1>5 DEF IInv

LEMMA DecodeIInv ==
  ASSUME IInv, Decode
  PROVE  IInv'
<1> USE MaxReadsAssumption, BoundsAssumption, RingSizeAssumption
<1>1. TypeOK'
  BY DEF IInv, TypeOK, Places, Balance, Stages, Reads, Decode, job, device
<1>2. Places'
  BY DEF IInv, TypeOK, Places, Stages, Reads, Decode, job, device
<1>3. Balance'
  BY Sizes, FS_EmptySet DEF IInv, TypeOK, Places, Balance, Stages, Decode, job, device
<1>4. Stages'
  BY Sizes DEF IInv, TypeOK, Places, Balance, Stages, Decode, job, device
<1>5. Accepted'
  BY Sizes DEF IInv, TypeOK, Balance, Stages, Accepted, Decode, job, device
<1> QED BY <1>1, <1>2, <1>3, <1>4, <1>5 DEF IInv

LEMMA PollIInv ==
  ASSUME IInv, Poll
  PROVE  IInv'
<1> USE MaxReadsAssumption, BoundsAssumption, RingSizeAssumption
<1>1. TypeOK'
  <2>1. Cardinality(flight) \in Nat /\ Cardinality(completed) \in Nat
    BY Sizes DEF IInv
  <2>2. done + Cardinality(completed) \in -MaxInterrupts .. n
    BY <2>1 DEF IInv, TypeOK, Balance, Poll
  <2>3. reaped' \subseteq Reads /\ completed' \subseteq Reads
    BY DEF IInv, TypeOK, Poll
  <2> QED BY <2>2, <2>3 DEF IInv, TypeOK, Poll, job, callbacks
<1>2. Places'
  BY DEF IInv, TypeOK, Places, Stages, Reads, Poll, job, callbacks
<1>3. Balance'
  BY Sizes, FS_EmptySet DEF IInv, TypeOK, Places, Balance, Stages, Poll, job, callbacks
<1>4. Stages'
  BY Sizes DEF IInv, TypeOK, Places, Balance, Stages, Poll, job, callbacks
<1>5. Accepted'
  BY Sizes DEF IInv, TypeOK, Balance, Stages, Accepted, Poll, job, callbacks
<1> QED BY <1>1, <1>2, <1>3, <1>4, <1>5 DEF IInv

LEMMA InterruptedIInv ==
  ASSUME IInv, Interrupted
  PROVE  IInv'
<1> USE MaxReadsAssumption, BoundsAssumption, RingSizeAssumption
<1>1. TypeOK'
  BY DEF IInv, TypeOK, Places, Balance, Stages, Reads, Interrupted, job, device, callbacks
<1>2. Places'
  BY DEF IInv, TypeOK, Places, Stages, Reads, Interrupted, job, device, callbacks
<1>3. Balance'
  BY Sizes, FS_EmptySet DEF IInv, TypeOK, Places, Balance, Stages, Interrupted, job, device, callbacks
<1>4. Stages'
  BY Sizes DEF IInv, TypeOK, Places, Balance, Stages, Interrupted, job, device, callbacks
<1>5. Accepted'
  BY Sizes DEF IInv, TypeOK, Balance, Stages, Accepted, Interrupted, job, device, callbacks
<1> QED BY <1>1, <1>2, <1>3, <1>4, <1>5 DEF IInv

LEMMA JoinAllIInv ==
  ASSUME IInv, JoinAll
  PROVE  IInv'
<1> USE MaxReadsAssumption, BoundsAssumption, RingSizeAssumption
<1>1. TypeOK'
  BY DEF IInv, TypeOK, Places, Balance, Stages, Reads, JoinAll, job, callbacks
<1>2. Places'
  BY DEF IInv, TypeOK, Places, Stages, Reads, JoinAll, job, callbacks
<1>3. Balance'
  BY Sizes, FS_EmptySet DEF IInv, TypeOK, Places, Balance, Stages, JoinAll, job, callbacks
<1>4. Stages'
  BY Sizes DEF IInv, TypeOK, Places, Balance, Stages, JoinAll, job, callbacks
<1>5. Accepted'
  BY Sizes DEF IInv, TypeOK, Balance, Stages, Accepted, JoinAll, job, callbacks
<1> QED BY <1>1, <1>2, <1>3, <1>4, <1>5 DEF IInv

LEMMA RankOverIInv ==
  ASSUME IInv, RankOver
  PROVE  IInv'
<1> USE MaxReadsAssumption, BoundsAssumption, RingSizeAssumption
<1>1. TypeOK'
  BY DEF IInv, TypeOK, Places, Balance, Stages, Reads, RankOver, AllDone, job, device, callbacks
<1>2. Places'
  BY DEF IInv, TypeOK, Places, Stages, Reads, RankOver, AllDone, job, device, callbacks
<1>3. Balance'
  BY Sizes, FS_EmptySet DEF IInv, TypeOK, Places, Balance, Stages, RankOver, AllDone, job, device, callbacks
<1>4. Stages'
  BY Sizes DEF IInv, TypeOK, Places, Balance, Stages, RankOver, AllDone, job, device, callbacks
<1>5. Accepted'
  BY Sizes DEF IInv, TypeOK, Balance, Stages, Accepted, RankOver, AllDone, job, device, callbacks
<1> QED BY <1>1, <1>2, <1>3, <1>4, <1>5 DEF IInv

LEMMA MarkIInv ==
  ASSUME IInv, Mark
  PROVE  IInv'
<1> USE MaxReadsAssumption, BoundsAssumption, RingSizeAssumption
<1>1. TypeOK'
  BY DEF IInv, TypeOK, Places, Balance, Stages, Reads, Mark, job, device
<1>2. Places'
  BY DEF IInv, TypeOK, Places, Stages, Reads, Mark, job, device
<1>3. Balance'
  BY Sizes, FS_EmptySet DEF IInv, TypeOK, Places, Balance, Stages, Mark, job, device
<1>4. Stages'
  BY Sizes DEF IInv, TypeOK, Places, Balance, Stages, Mark, job, device
<1>5. Accepted'
  BY Sizes DEF IInv, TypeOK, Balance, Stages, Accepted, Mark, job, device
<1> QED BY <1>1, <1>2, <1>3, <1>4, <1>5 DEF IInv

LEMMA ReturnIInv ==
  ASSUME IInv, Return
  PROVE  IInv'
<1> USE MaxReadsAssumption, BoundsAssumption, RingSizeAssumption
<1>1. TypeOK'
  BY DEF IInv, TypeOK, Places, Balance, Stages, Reads, Return, job, device, callbacks
<1>2. Places'
  BY DEF IInv, TypeOK, Places, Stages, Reads, Return, job, device, callbacks
<1>3. Balance'
  BY Sizes, FS_EmptySet DEF IInv, TypeOK, Places, Balance, Stages, Return, job, device, callbacks
<1>4. Stages'
  BY Sizes DEF IInv, TypeOK, Places, Balance, Stages, Return, job, device, callbacks
<1>5. Accepted'
  BY Sizes DEF IInv, TypeOK, Balance, Stages, Accepted, Return, job, device, callbacks
<1> QED BY <1>1, <1>2, <1>3, <1>4, <1>5 DEF IInv

LEMMA IoSubmitIInv ==
  ASSUME IInv, NEW k \in Reads, IoSubmit(k)
  PROVE  IInv'
<1> USE MaxReadsAssumption, BoundsAssumption, RingSizeAssumption
<1>1. k \in Nat /\ k > 0 /\ submitted + k <= n
  <2>1. Cardinality(flight) \in Nat /\ Cardinality(completed) \in Nat
    BY Sizes DEF IInv
  <2> QED BY <2>1 DEF IInv, TypeOK, IoSubmit, Least, Room
<1>2. Cardinality(flight') = Cardinality(flight) + k
  BY <1>1, Handed DEF IInv, IoSubmit
<1>3. TypeOK'
  BY <1>1 DEF IInv, TypeOK, Reads, IoSubmit, AfterSubmit, job, callbacks
<1>4. Places'
  BY <1>1 DEF IInv, TypeOK, Places, Stages, Reads, IoSubmit, job, callbacks
<1>5. Balance'
  BY <1>1, <1>2, Sizes DEF IInv, TypeOK, Balance, IoSubmit, AfterSubmit, job, callbacks
<1>6. Stages'
  BY <1>1 DEF IInv, TypeOK, Stages, IoSubmit, AfterSubmit, job, callbacks
<1>7. Accepted'
  BY DEF Accepted, IoSubmit, AfterSubmit
<1> QED BY <1>3, <1>4, <1>5, <1>6, <1>7 DEF IInv

LEMMA CompleteIInv ==
  ASSUME IInv, NEW r \in Reads, Complete(r)
  PROVE  IInv'
<1> USE MaxReadsAssumption, BoundsAssumption, RingSizeAssumption
<1>1. /\ Cardinality(flight') = Cardinality(flight) - 1
      /\ Cardinality(completed') = Cardinality(completed) + 1
  BY Moved DEF IInv, Complete
<1>2. TypeOK'
  BY DEF IInv, TypeOK, Complete, job, callbacks
<1>3. Places'
  BY DEF IInv, TypeOK, Places, Complete, job, callbacks
<1>4. Balance'
  <2>1. Cardinality(flight) \in Nat /\ Cardinality(completed) \in Nat
    BY Sizes DEF IInv
  <2>2. done \in Int /\ interrupts \in Int
    BY DEF IInv, TypeOK
  <2> QED BY <1>1, <2>1, <2>2 DEF IInv, Balance, Complete, job, callbacks
<1>5. Stages'
  BY DEF IInv, Stages, Complete, job, callbacks
<1>6. Accepted'
  BY DEF IInv, Accepted, Complete, job
<1> QED BY <1>2, <1>3, <1>4, <1>5, <1>6 DEF IInv

LEMMA RankIInv ==
  ASSUME IInv, NEW r \in Reads, Rank(r)
  PROVE  IInv'
<1> USE MaxReadsAssumption, BoundsAssumption, RingSizeAssumption
<1>1. ranked[r] = 0
  BY DEF IInv, TypeOK, Places, Rank
<1>2. TypeOK'
  BY <1>1 DEF IInv, TypeOK, Rank, Unranked, job, device
<1>3. Places'
  <2>1. ranked' = [ranked EXCEPT ![r] = 1]
    BY <1>1 DEF IInv, TypeOK, Rank
  <2> QED BY <2>1 DEF IInv, TypeOK, Places, Rank, Unranked, job, device
<1>4. Balance'
  BY DEF IInv, TypeOK, Balance, Rank, job, device
<1>5. Stages'
  BY DEF IInv, Stages, Rank, Unranked, job, device
<1>6. Accepted'
  BY DEF IInv, Accepted, Rank, job
<1> QED BY <1>2, <1>3, <1>4, <1>5, <1>6 DEF IInv

(* A step that changes no variable keeps the invariant.                    *)
LEMMA StutterIInv ==
  ASSUME IInv, UNCHANGED vars
  PROVE  IInv'
<1>1. TypeOK'
  BY DEF IInv, TypeOK, vars
<1>2. Places'
  BY DEF IInv, Places, vars
<1>3. Balance' /\ Accepted'
  BY DEF IInv, Balance, Accepted, vars
<1>4. Stages'
  BY DEF IInv, Stages, vars
<1> QED BY <1>1, <1>2, <1>3, <1>4 DEF IInv

-----------------------------------------------------------------------------
(***************************************************************************)
(* Every state of a run of submit() satisfies the invariant: a read that   *)
(* was handed over is at exactly one place, and totalDone agrees with what *)
(* has left the device.                                                    *)
(***************************************************************************)
THEOREM Invariant == Spec => []IInv
<1>1. IInv /\ [Next]_vars => IInv'
  <2> SUFFICES ASSUME IInv, [Next]_vars PROVE IInv'
    OBVIOUS
  <2>1. ASSUME NEW k \in {"partial", "full"}, NEW m \in 0 .. MaxReads, Submit(k, m)
        PROVE  IInv'
    BY <2>1, SubmitIInv
  <2>2. CASE Thread
    <3>1. ASSUME NEW k \in Reads, IoSubmit(k) PROVE IInv'
      BY <3>1, IoSubmitIInv
    <3>2. ASSUME NEW r \in Reads, Rank(r) PROVE IInv'
      BY <3>2, RankIInv
    <3>3. CASE Empty
      BY <3>3, EmptyIInv
    <3>4. CASE IoSubmitFails
      BY <3>4, IoSubmitFailsIInv
    <3>5. CASE Launch
      BY <3>5, LaunchIInv
    <3>6. CASE Decode
      BY <3>6, DecodeIInv
    <3>7. CASE Poll
      BY <3>7, PollIInv
    <3>8. CASE JoinAll
      BY <3>8, JoinAllIInv
    <3>9. CASE RankOver
      BY <3>9, RankOverIInv
    <3>10. CASE Mark
      BY <3>10, MarkIInv
    <3>11. CASE Return
      BY <3>11, ReturnIInv
    <3> QED
      BY <2>2, <3>1, <3>2, <3>3, <3>4, <3>5, <3>6, <3>7, <3>8, <3>9, <3>10, <3>11 DEF Thread
  <2>3. CASE Interrupted
    BY <2>3, InterruptedIInv
  <2>4. ASSUME NEW r \in Reads, Complete(r) PROVE IInv'
    BY <2>4, CompleteIInv
  <2>5. CASE Stopped \/ UNCHANGED vars
    BY <2>5, StutterIInv DEF Stopped
  <2> QED BY <2>1, <2>2, <2>3, <2>4, <2>5 DEF Next
<1> QED BY <1>1, InitIInv, PTL DEF Spec

(***************************************************************************)
(* The variables keep their types; in particular totalDone, an int that an *)
(* interrupted wait decrements, never exceeds the number of reads.         *)
(***************************************************************************)
THEOREM TypeCorrect == Spec => []TypeOK
<1>1. IInv => TypeOK
  BY DEF IInv
<1> QED BY <1>1, Invariant, PTL

(***************************************************************************)
(* io_submit refuses no batch that fits the context, however many batches  *)
(* the search has submitted before.                                        *)
(***************************************************************************)
THEOREM AcceptedAlways == Spec => []Accepted
<1>1. IInv => Accepted
  BY DEF IInv
<1> QED BY <1>1, Invariant, PTL

(***************************************************************************)
(* A poll waits for the reads under way and for no others, whatever was    *)
(* reaped before; only an interrupted wait of a full batch adds to them.   *)
(***************************************************************************)
THEOREM PollsForReads == Spec => []WaitsForReads
<1>1. IInv => WaitsForReads
  <2> SUFFICES ASSUME IInv, pc = "poll"
               PROVE  /\ n - done = Cardinality(flight) + Cardinality(completed) + interrupts
                      /\ flight \cup completed = {} => kind = "full" /\ interrupts > 0
    BY DEF WaitsForReads
  <2>1. backend = "AIO" /\ done < n /\ submitted = n
    BY DEF IInv, Stages
  <2>2. /\ n \in Nat /\ done \in Int /\ interrupts \in Nat
        /\ kind \in {"partial", "full"}
    BY BoundsAssumption, MaxReadsAssumption DEF IInv, TypeOK
  <2>3. /\ done + Cardinality(flight) + Cardinality(completed) + interrupts = n
        /\ kind = "partial" => interrupts = 0
    BY <2>1 DEF IInv, Balance
  <2>4. /\ Cardinality(flight) \in Nat /\ Cardinality(completed) \in Nat
        /\ flight = {} => Cardinality(flight) = 0
        /\ completed = {} => Cardinality(completed) = 0
    BY Sizes DEF IInv
  <2>5. n - done = Cardinality(flight) + Cardinality(completed) + interrupts
    BY <2>2, <2>3, <2>4
  <2>6. flight \cup completed = {} => interrupts > 0
    BY <2>1, <2>2, <2>4, <2>5
  <2> QED BY <2>2, <2>3, <2>5, <2>6
<1> QED BY <1>1, Invariant, PTL

-----------------------------------------------------------------------------
(***************************************************************************)
(* The refinement.                                                         *)
(***************************************************************************)

(* A failing batch has a read that was not ranked.                         *)
LEMMA FailMaps ==
  ASSUME IInv, IoSubmitFails \/ Interrupted, pc' = "failed"
  PROVE  Abstract!Fail
<1> USE MaxReadsAssumption
<1>1. \E r \in 1 .. n : ranked[r] # 1
  <2>1. CASE IoSubmitFails
    <3>1. submitted + 1 \in (1 .. n) \ (1 .. submitted)
      BY <2>1 DEF IInv, TypeOK, Stages, IoSubmitFails
    <3>2. ranked[submitted + 1] = 0
      BY <3>1 DEF IInv, TypeOK, Places, Reads
    <3> QED BY <3>1, <3>2
  <2>2. CASE Interrupted
    <3>1. pc = "poll" /\ kind = "partial" /\ completed = {}
      BY <2>2 DEF Interrupted
    <3>2. done + Cardinality(flight) = n /\ done < n
      BY <2>2, <3>1, Sizes DEF IInv, TypeOK, Balance, Stages, Interrupted
    <3>3. flight # {}
      BY <3>2, Sizes DEF IInv, TypeOK
    <3>4. PICK r \in flight : TRUE
      BY <3>3
    <3>5. r \in Reads /\ r \in 1 .. n
      BY DEF IInv, TypeOK, Places
    <3>6. ranked[r] = 0
      BY <3>5 DEF IInv, Places
    <3> QED BY <3>5, <3>6
  <2> QED BY <2>1, <2>2
<1>2. pc \notin {"idle", "failed"} /\ UNCHANGED <<n, submitted, flight, ranked, decoded, marked>>
  BY DEF IoSubmitFails, Interrupted, job, device, callbacks
<1> QED BY <1>1, <1>2 DEF Abstract!Fail, Abstract!AllRanked

(* The steps of the caller and of the device, each with what it is in      *)
(* ReadBatch.                                                              *)
LEMMA SubmitMaps ==
  ASSUME IInv, NEW k \in {"partial", "full"}, NEW m \in 0 .. MaxReads, Submit(k, m)
  PROVE  Abstract!Submit
<1> USE MaxReadsAssumption
<1>1. 1 .. m \subseteq Reads
  BY DEF Reads
<1>2. n' = m /\ submitted' = 0 /\ pc' \in {"empty", "submit"} /\ decoded' \in BOOLEAN
  BY DEF Submit
<1> QED BY <1>1, <1>2 DEF Submit, Abstract!Submit, Abstract!Reads, Reads

LEMMA EmptyMaps ==
  ASSUME IInv, Empty
  PROVE  Abstract!Decode \/ Abstract!Mark \/ UNCHANGED Abstract!vars
<1>1. n = 0 /\ ~marked /\ (decoded <=> kind = "full")
  BY DEF IInv, Stages, Empty
<1>2. UNCHANGED <<n, submitted, flight, ranked>> /\ pc = "empty" /\ pc' = "leave"
  BY DEF Empty, job, device
<1>3. marked \in BOOLEAN /\ decoded \in BOOLEAN
  BY DEF IInv, TypeOK
<1>4. CASE kind = "partial"
  BY <1>1, <1>2, <1>3, <1>4 DEF Empty, Abstract!Decode
<1>5. CASE kind = "full" /\ backend = "S3"
  <2>1. decoded = TRUE /\ decoded' = TRUE /\ marked' = TRUE
    BY <1>1, <1>3, <1>5 DEF Empty
  <2>2. \A r \in 1 .. n : ranked[r] = 1
    BY <1>1
  <2> QED BY <1>1, <1>2, <2>1, <2>2 DEF Abstract!Mark, Abstract!AllRanked
<1>6. CASE kind = "full" /\ backend = "AIO"
  BY <1>1, <1>2, <1>3, <1>6 DEF Empty, Abstract!vars
<1> QED BY <1>4, <1>5, <1>6 DEF IInv, TypeOK

LEMMA HandOverMaps ==
  ASSUME IInv, (\E k \in Reads : IoSubmit(k)) \/ Launch
  PROVE  UNCHANGED Abstract!vars
<1>1. (1 .. submitted') \ flight' = (1 .. submitted) \ flight
  <2>1. CASE Launch
    BY <2>1 DEF IInv, TypeOK, Stages, Launch
  <2>2. ASSUME NEW k \in Reads, IoSubmit(k)
        PROVE  (1 .. submitted') \ flight' = (1 .. submitted) \ flight
    BY <2>2, MaxReadsAssumption DEF IInv, TypeOK, Reads, IoSubmit
  <2> QED BY <2>1, <2>2
<1>2. pc \notin {"idle", "failed"} /\ pc' \notin {"idle", "failed"}
  BY DEF IoSubmit, Launch, AfterSubmit
<1>3. UNCHANGED <<n, ranked, decoded, marked>>
  BY DEF IoSubmit, Launch, job, callbacks
<1> QED BY <1>1, <1>2, <1>3 DEF Abstract!vars

LEMMA DecodeMaps ==
  ASSUME IInv, Decode
  PROVE  Abstract!Decode
<1>1. ~decoded /\ pc = "decode" /\ pc' \in {"rank", "wait"}
  BY DEF IInv, Stages, Decode
<1> QED BY <1>1 DEF Decode, Abstract!Decode, job, device

LEMMA CompleteMaps ==
  ASSUME IInv, NEW r \in Reads, Complete(r)
  PROVE  Abstract!Arrive(r)
<1>1. pc # "idle" /\ r \in 1 .. submitted /\ r \in 1 .. n
  BY MaxReadsAssumption DEF IInv, TypeOK, Places, Stages, Complete
<1>2. (1 .. submitted') \ flight' = ((1 .. submitted) \ flight) \cup {r}
  BY <1>1 DEF Complete
<1> QED BY <1>1, <1>2 DEF Complete, Abstract!Arrive, job, callbacks

LEMMA ReapMaps ==
  ASSUME IInv, Poll \/ JoinAll \/ RankOver \/ (Interrupted /\ pc' # "failed")
  PROVE  UNCHANGED Abstract!vars
<1>1. pc \notin {"idle", "failed"} /\ pc' \notin {"idle", "failed"}
  BY DEF Poll, JoinAll, RankOver, Interrupted
<1>2. UNCHANGED <<n, submitted, flight, ranked, decoded, marked>>
  BY DEF Poll, JoinAll, RankOver, Interrupted, job, device, callbacks
<1> QED BY <1>1, <1>2 DEF Abstract!vars

LEMMA RankMaps ==
  ASSUME IInv, NEW r \in Reads, Rank(r)
  PROVE  Abstract!Rank(r)
<1>1. r \in (1 .. submitted) \ flight /\ ranked[r] = 0
  BY DEF IInv, TypeOK, Places, Rank
<1>2. decoded /\ pc = "rank" /\ pc' = "rank"
  BY DEF IInv, Stages, Rank
<1>3. ranked' = [ranked EXCEPT ![r] = 1]
  BY <1>1 DEF IInv, TypeOK, Rank
<1> QED BY <1>1, <1>2, <1>3 DEF Rank, Abstract!Rank, job, device

LEMMA MarkMaps ==
  ASSUME IInv, Mark
  PROVE  Abstract!Mark
<1>1. \A r \in 1 .. n : ranked[r] = 1
  BY MaxReadsAssumption DEF IInv, TypeOK, Places, Stages, Reads, Mark
<1>2. decoded /\ ~marked /\ pc = "mark" /\ pc' = "leave"
  BY DEF IInv, Stages, Mark
<1> QED BY <1>1, <1>2 DEF Mark, Abstract!Mark, Abstract!AllRanked, job, device

LEMMA ReturnMaps ==
  ASSUME IInv, Return
  PROVE  Abstract!Return
<1>1. decoded /\ pc = "leave" /\ pc' = "idle" /\ (n > 0 => marked)
  BY DEF IInv, Stages, Return
<1>2. 1 .. n # {} => n > 0
  BY DEF IInv, TypeOK
<1> QED BY <1>1, <1>2 DEF Return, Abstract!Return, job, device, callbacks

(***************************************************************************)
(* Both processors implement ReadBatch: on the local disk as on the object *)
(* store, a read is ranked once, after its data is there and after the     *)
(* decoding, and submit() does not return before all are ranked.           *)
(***************************************************************************)
THEOREM Implementation == Spec => Implements
<1>1. Init => Abstract!Init
  BY DEF Init, Reads, Abstract!Init, Abstract!Reads
<1>2. IInv /\ [Next]_vars => [Abstract!Next]_(Abstract!vars)
  <2> SUFFICES ASSUME IInv, [Next]_vars PROVE [Abstract!Next]_(Abstract!vars)
    OBVIOUS
  <2> USE DEF Abstract!Next, Abstract!Reads, Reads
  <2>1. ASSUME NEW k \in {"partial", "full"}, NEW m \in 0 .. MaxReads, Submit(k, m)
        PROVE  Abstract!Next
    BY <2>1, SubmitMaps
  <2>2. ASSUME Thread PROVE [Abstract!Next]_(Abstract!vars)
    <3>1. CASE Empty
      BY <3>1, EmptyMaps
    <3>2. CASE (\E k \in Reads : IoSubmit(k)) \/ Launch
      BY <3>2, HandOverMaps
    <3>3. CASE IoSubmitFails
      BY <3>3, FailMaps DEF IoSubmitFails
    <3>4. CASE Decode
      BY <3>4, DecodeMaps
    <3>5. CASE Poll \/ JoinAll \/ RankOver
      BY <3>5, ReapMaps
    <3>6. ASSUME NEW r \in Reads, Rank(r) PROVE Abstract!Next
      BY <3>6, RankMaps
    <3>7. CASE Mark
      BY <3>7, MarkMaps
    <3>8. CASE Return
      BY <3>8, ReturnMaps
    <3> QED BY <2>2, <3>1, <3>2, <3>3, <3>4, <3>5, <3>6, <3>7, <3>8 DEF Thread
  <2>3. CASE Interrupted
    <3>1. CASE pc' = "failed"
      BY <2>3, <3>1, FailMaps
    <3>2. CASE pc' # "failed"
      BY <2>3, <3>2, ReapMaps
    <3> QED BY <3>1, <3>2
  <2>4. ASSUME NEW r \in Reads, Complete(r) PROVE Abstract!Next
    BY <2>4, CompleteMaps
  <2>5. CASE Stopped \/ UNCHANGED vars
    BY <2>5 DEF Stopped, vars, Abstract!vars
  <2> QED BY <2>1, <2>2, <2>3, <2>4, <2>5 DEF Next
<1> QED BY <1>1, <1>2, Invariant, PTL DEF Spec, Implements, Abstract!Spec
=============================================================================
