------------------------- MODULE WorkerThreadProofs -------------------------
(***************************************************************************)
(* Proofs about WorkerThread, for any number of threads and tasks and any  *)
(* callers of add() and stop(): its types, that no wake-up is lost, that   *)
(* the queue is at rest while it is read without the mutex, that every     *)
(* promise is on its way to be kept, and that each step is a step of       *)
(* TaskQueue.  Then about IndexShards: that it uses its workers so, that   *)
(* nothing of a call is left queued or running when it has returned, and   *)
(* that every vector is in one shard and found under its number.           *)
(***************************************************************************)
EXTENDS IndexShards, SequenceTheorems, FiniteSetTheorems, FunctionTheorems,
        WellFoundedInduction, TLAPS

-----------------------------------------------------------------------------
(***************************************************************************)
(* The inductive invariant.  Where a thread is says what its queue and its *)
(* place in it can be: before the loop ends the place is the first one,    *)
(* after it the worker accepts no more, and at the end nothing is left.    *)
(***************************************************************************)
Unstarted(w) ==
  thread[w] = "none" => queue[w] = <<>> /\ next[w] = 1 /\ current[w] = NoTask

InLoop(w) == thread[w] \in {"looping", "asleep"} => next[w] = 1

PastLoop(w) == thread[w] \in {"flushing", "exited"} => wantStop[w]

AtEnd(w) == thread[w] = "exited" => next[w] > Len(queue[w]) /\ current[w] = NoTask

Places ==
  \A w \in Workers :
    /\ Unstarted(w) /\ InLoop(w) /\ PastLoop(w) /\ AtEnd(w)
    /\ next[w] <= Len(queue[w]) + 1

(* The i-th task of the queue has not been begun.                          *)
Queued(w, t) == \E i \in next[w] .. Len(queue[w]) : queue[w][i] = t

(* A promise is made only for a task that is queued or running: none is    *)
(* dropped with the queue of a worker that stops or is replaced.           *)
PromisesHeld ==
  \A t \in Tasks : promise[t] = "pending" =>
    \E w \in Workers : current[w] = t \/ Queued(w, t)

WInv == WorkersTypeOK /\ Places /\ NothingMissed

-----------------------------------------------------------------------------
(* What the steps of one worker leave alone.                               *)

LEMMA InitWInv == WorkersInit => WInv /\ PromisesHeld
BY DEF WorkersInit, WInv, WorkersTypeOK, Places, Unstarted, InLoop, PastLoop, AtEnd,
       NothingMissed, PromisesHeld

(* A thread is notified: it is not asleep any more, and nothing else.      *)
LEMMA NotifyType ==
  ASSUME WorkersTypeOK, NEW w \in Workers, Notify(w)
  PROVE  /\ thread' \in [Workers -> {"none", "looping", "asleep", "flushing", "exited"}]
         /\ thread'[w] # "asleep"
         /\ thread[w] # "asleep" => thread'[w] = thread[w]
         /\ thread[w] = "asleep" => thread'[w] = "looping"
         /\ \A v \in Workers \ {w} : thread'[v] = thread[v]
BY DEF Notify, WorkersTypeOK

LEMMA StartStep ==
  ASSUME WInv, NEW w \in Workers, StartThread(w)
  PROVE  WInv'
BY DEF WInv, WorkersTypeOK, Places, Unstarted, InLoop, PastLoop, AtEnd, NothingMissed,
       StartThread

LEMMA AddStep ==
  ASSUME WInv, NEW w \in Workers, NEW t \in Tasks, Add(w, t)
  PROVE  WInv'
<1>1. CASE wantStop[w]
  BY <1>1 DEF WInv, WorkersTypeOK, Places, Unstarted, InLoop, PastLoop, AtEnd,
              NothingMissed, Add
<1>2. CASE ~wantStop[w]
  <2>1. /\ thread[w] # "none" /\ Notify(w)
        /\ promise' = [promise EXCEPT ![t] = "pending"]
        /\ queue' = [queue EXCEPT ![w] = Append(@, t)]
        /\ UNCHANGED <<wantStop, next, current>>
    BY <1>2 DEF Add
  <2>2. /\ queue'[w] = Append(queue[w], t) /\ queue'[w] \in Seq(Tasks)
        /\ Len(queue'[w]) = Len(queue[w]) + 1 /\ Len(queue[w]) \in Nat
        /\ \A v \in Workers \ {w} : queue'[v] = queue[v]
    BY <2>1 DEF WInv, WorkersTypeOK
  <2>3. WorkersTypeOK'
    BY <2>1, <2>2, NotifyType DEF WInv, WorkersTypeOK
  <2>4. Places'
    BY <1>2, <2>1, <2>2, NotifyType
       DEF WInv, WorkersTypeOK, Places, Unstarted, InLoop, PastLoop, AtEnd
  <2>5. NothingMissed'
    BY <2>1, <2>2, NotifyType DEF WInv, NothingMissed
  <2> QED BY <2>3, <2>4, <2>5 DEF WInv
<1> QED BY <1>1, <1>2

LEMMA StopStep ==
  ASSUME WInv, NEW w \in Workers, Stop(w)
  PROVE  WInv'
<1>1. /\ thread[w] # "none" /\ Notify(w)
      /\ wantStop' = [wantStop EXCEPT ![w] = TRUE]
      /\ UNCHANGED <<queue, next, current, promise>>
  BY DEF Stop, tasks
<1>2. WorkersTypeOK'
  BY <1>1, NotifyType DEF WInv, WorkersTypeOK
<1>3. Places'
  BY <1>1, NotifyType
     DEF WInv, WorkersTypeOK, Places, Unstarted, InLoop, PastLoop, AtEnd
<1>4. NothingMissed'
  BY <1>1, NotifyType DEF WInv, WorkersTypeOK, NothingMissed
<1> QED BY <1>2, <1>3, <1>4 DEF WInv

LEMMA ThreadStepStep ==
  ASSUME WInv, NEW w \in Workers, ThreadStep(w) \/ WakeSpuriously(w)
  PROVE  WInv'
<1> USE DEF WInv, WorkersTypeOK, Places, Unstarted, InLoop, PastLoop, AtEnd,
            NothingMissed, tasks, control
<1>1. CASE Wait(w)
  BY <1>1 DEF Wait
<1>2. CASE Take(w)
  <2>1. /\ Head(queue[w]) \in Tasks /\ Tail(queue[w]) \in Seq(Tasks)
        /\ Len(Tail(queue[w])) = Len(queue[w]) - 1 /\ Len(queue[w]) >= 1
    BY <1>2, HeadTailProperties DEF Take
  <2> QED BY <1>2, <2>1 DEF Take
<1>3. CASE LeaveLoop(w)
  BY <1>3 DEF LeaveLoop
<1>4. CASE FlushNext(w)
  <2>1. queue[w][next[w]] \in Tasks
    BY <1>4 DEF FlushNext
  <2> QED BY <1>4, <2>1 DEF FlushNext
<1>5. CASE Exit(w)
  BY <1>5 DEF Exit
<1>6. CASE WakeSpuriously(w)
  BY <1>6 DEF WakeSpuriously
<1> QED BY <1>1, <1>2, <1>3, <1>4, <1>5, <1>6 DEF ThreadStep

LEMMA CallbackStep ==
  ASSUME WInv, NEW w \in Workers, NEW answer \in Answers, RunCallback(w, answer)
  PROVE  WInv'
BY DEF WInv, WorkersTypeOK, Places, Unstarted, InLoop, PastLoop, AtEnd, NothingMissed,
       RunCallback, Answers, control

LEMMA NextWInv == WInv /\ [WorkersNext]_workers => WInv'
<1> SUFFICES ASSUME WInv, [WorkersNext]_workers PROVE WInv'
  OBVIOUS
<1>1. CASE WorkersNext
  BY <1>1, StartStep, AddStep, StopStep, ThreadStepStep, CallbackStep DEF WorkersNext
<1>2. CASE UNCHANGED workers
  BY <1>2 DEF workers, control, tasks, WInv, WorkersTypeOK, Places, Unstarted, InLoop,
              PastLoop, AtEnd, NothingMissed
<1> QED BY <1>1, <1>2

(* The inductive invariant holds of every use of the worker threads.       *)
THEOREM WorkersInvariant == WorkersSpec => []WInv
<1>1. WorkersInit => WInv
  BY InitWInv
<1> QED BY <1>1, NextWInv, PTL DEF WorkersSpec

(* Types: next moves only while the thread flushes, and never past the end.*)
THEOREM WorkersTypes == WorkersSpec => []WorkersTypeOK
<1>1. WInv => WorkersTypeOK
  BY DEF WInv
<1> QED BY <1>1, WorkersInvariant, PTL

(* No wake-up is lost, whoever adds and stops: a sleeping thread has       *)
(* nothing to do.                                                          *)
THEOREM WakeUpsKept == WorkersSpec => []NothingMissed
<1>1. WInv => NothingMissed
  BY DEF WInv
<1> QED BY <1>1, WorkersInvariant, PTL

-----------------------------------------------------------------------------
(* The queue is at rest while it is read without the mutex.                *)

LEMMA QuietStep ==
  ASSUME WInv, [WorkersNext]_workers,
         NEW w \in Workers, thread[w] = "flushing"
  PROVE  queue'[w] = queue[w]
<1>1. wantStop[w]
  BY DEF WInv, Places, PastLoop
<1>2. CASE UNCHANGED workers
  BY <1>2 DEF workers, tasks
<1>3. ASSUME NEW v \in Workers, StartThread(v)
      PROVE  queue'[w] = queue[w]
  BY <1>3 DEF StartThread, WInv, WorkersTypeOK
<1>4. ASSUME NEW v \in Workers, NEW t \in Tasks, Add(v, t)
      PROVE  queue'[w] = queue[w]
  BY <1>1, <1>4 DEF Add, WInv, WorkersTypeOK
<1>5. ASSUME NEW v \in Workers, ThreadStep(v)
      PROVE  queue'[w] = queue[w]
  BY <1>5 DEF ThreadStep, Wait, Take, LeaveLoop, FlushNext, Exit, tasks, WInv, WorkersTypeOK
<1>6. ASSUME NEW v \in Workers, Stop(v) \/ WakeSpuriously(v)
      PROVE  queue'[w] = queue[w]
  BY <1>6 DEF Stop, WakeSpuriously, tasks
<1>7. ASSUME NEW v \in Workers, NEW answer \in Answers, RunCallback(v, answer)
      PROVE  queue'[w] = queue[w]
  BY <1>7 DEF RunCallback
<1> QED BY <1>2, <1>3, <1>4, <1>5, <1>6, <1>7 DEF WorkersNext

(* threadMain goes over what is left of the queue without the mutex, while *)
(* other threads may call add() and stop(): nobody changes it any more.    *)
THEOREM QueueAtRest == WorkersSpec => QuietQueue
<1>1. WInv /\ [WorkersNext]_workers =>
        [\A w \in Workers : thread[w] = "flushing" => queue'[w] = queue[w]]_workers
  BY QuietStep
<1> QED BY <1>1, WorkersInvariant, PTL DEF WorkersSpec, QuietQueue

-----------------------------------------------------------------------------
(* Every promise is on its way.                                            *)

LEMMA PromisesStep == WInv /\ PromisesHeld /\ [WorkersNext]_workers => PromisesHeld'
<1> SUFFICES ASSUME WInv, PromisesHeld, [WorkersNext]_workers,
                    NEW t \in Tasks, promise'[t] = "pending"
             PROVE  \E w \in Workers : (current[w] = t \/ Queued(w, t))'
  BY DEF PromisesHeld
<1> USE DEF Queued
<1>1. CASE UNCHANGED workers
  BY <1>1 DEF workers, tasks, PromisesHeld
<1>2. ASSUME NEW v \in Workers, StartThread(v)
      PROVE  \E w \in Workers : (current[w] = t \/ Queued(w, t))'
  <2>1. PICK w \in Workers : current[w] = t \/ Queued(w, t)
    BY <1>2 DEF PromisesHeld, StartThread
  <2>2. w # v
    BY <1>2, <2>1, TaskAssumption
       DEF StartThread, WInv, WorkersTypeOK, Places, Unstarted, AtEnd
  <2> QED BY <1>2, <2>1, <2>2 DEF StartThread, WInv, WorkersTypeOK
<1>3. ASSUME NEW v \in Workers, NEW u \in Tasks, Add(v, u)
      PROVE  \E w \in Workers : (current[w] = t \/ Queued(w, t))'
  <2>1. CASE wantStop[v]
    <3>1. promise' = [promise EXCEPT ![u] = "false"] /\ UNCHANGED <<queue, next, current>>
      BY <1>3, <2>1 DEF Add
    <3>2. promise[t] = "pending"
      BY <3>1 DEF WInv, WorkersTypeOK
    <3> QED BY <3>1, <3>2 DEF PromisesHeld
  <2>2. CASE ~wantStop[v]
    <3>1. /\ queue' = [queue EXCEPT ![v] = Append(@, u)]
          /\ promise' = [promise EXCEPT ![u] = "pending"]
          /\ UNCHANGED <<next, current>>
      BY <1>3, <2>2 DEF Add
    <3>2. queue[v] \in Seq(Tasks) /\ next[v] \in Nat /\ next[v] <= Len(queue[v]) + 1
      BY DEF WInv, WorkersTypeOK, Places
    <3>3. /\ Len(queue'[v]) = Len(queue[v]) + 1 /\ queue'[v][Len(queue[v]) + 1] = u
          /\ \A i \in 1 .. Len(queue[v]) : queue'[v][i] = queue[v][i]
          /\ \A w \in Workers \ {v} : queue'[w] = queue[w]
      BY <3>1, <3>2 DEF WInv, WorkersTypeOK
    <3>4. CASE t = u
      BY <3>1, <3>2, <3>3, <3>4
    <3>5. CASE t # u
      <4>1. PICK w \in Workers : current[w] = t \/ Queued(w, t)
        BY <3>1, <3>5 DEF PromisesHeld, WInv, WorkersTypeOK
      <4>2. next[w] \in Nat \ {0} /\ queue[w] \in Seq(Tasks)
        BY DEF WInv, WorkersTypeOK
      <4> QED BY <3>1, <3>3, <4>1, <4>2
    <3> QED BY <3>4, <3>5
  <2> QED BY <2>1, <2>2
<1>4. ASSUME NEW v \in Workers,
             Stop(v) \/ WakeSpuriously(v) \/ Wait(v) \/ LeaveLoop(v) \/ Exit(v)
      PROVE  \E w \in Workers : (current[w] = t \/ Queued(w, t))'
  BY <1>4 DEF Stop, WakeSpuriously, Wait, LeaveLoop, Exit, tasks, PromisesHeld
<1>5. ASSUME NEW v \in Workers, Take(v)
      PROVE  \E w \in Workers : (current[w] = t \/ Queued(w, t))'
  <2>1. PICK w \in Workers : current[w] = t \/ Queued(w, t)
    BY <1>5 DEF PromisesHeld, Take
  <2>2. /\ current' = [current EXCEPT ![v] = Head(queue[v])]
        /\ queue' = [queue EXCEPT ![v] = Tail(@)]
        /\ next' = next /\ current[v] = NoTask /\ queue[v] # <<>> /\ next[v] = 1
    BY <1>5 DEF Take, WInv, Places, InLoop
  <2>3. queue[v] \in Seq(Tasks)
    BY DEF WInv, WorkersTypeOK
  <2>4. /\ Head(queue[v]) = queue[v][1] /\ Len(Tail(queue[v])) = Len(queue[v]) - 1
        /\ \A i \in 1 .. Len(queue[v]) - 1 : Tail(queue[v])[i] = queue[v][i + 1]
    BY <2>2, <2>3, HeadTailProperties
  <2>5. CASE w # v
    BY <2>1, <2>2, <2>5 DEF WInv, WorkersTypeOK
  <2>6. CASE w = v
    <3>1. PICK i \in 1 .. Len(queue[v]) : queue[v][i] = t
      BY <2>1, <2>2, <2>6, TaskAssumption
    <3>2. CASE i = 1
      BY <2>2, <2>4, <3>1, <3>2 DEF WInv, WorkersTypeOK
    <3>3. CASE i # 1
      <4>1. i - 1 \in 1 .. Len(queue[v]) - 1 /\ Tail(queue[v])[i - 1] = t
        BY <2>3, <2>4, <3>1, <3>3
      <4>2. queue'[v] = Tail(queue[v]) /\ next'[v] = 1
        BY <2>2 DEF WInv, WorkersTypeOK
      <4> QED BY <2>4, <4>1, <4>2
    <3> QED BY <3>2, <3>3
  <2> QED BY <2>5, <2>6
<1>6. ASSUME NEW v \in Workers, FlushNext(v)
      PROVE  \E w \in Workers : (current[w] = t \/ Queued(w, t))'
  <2>1. PICK w \in Workers : current[w] = t \/ Queued(w, t)
    BY <1>6 DEF PromisesHeld, FlushNext
  <2>2. /\ current' = [current EXCEPT ![v] = queue[v][next[v]]]
        /\ next' = [next EXCEPT ![v] = @ + 1]
        /\ queue' = queue /\ current[v] = NoTask
    BY <1>6 DEF FlushNext
  <2>3. CASE w # v
    BY <2>1, <2>2, <2>3 DEF WInv, WorkersTypeOK
  <2>4. CASE w = v
    <3>1. PICK i \in next[v] .. Len(queue[v]) : queue[v][i] = t
      BY <2>1, <2>2, <2>4, TaskAssumption
    <3>2. next[v] \in Nat /\ Len(queue[v]) \in Nat
      BY DEF WInv, WorkersTypeOK
    <3>3. next'[v] = next[v] + 1 /\ current'[v] = queue[v][next[v]]
      BY <2>2 DEF WInv, WorkersTypeOK
    <3>4. i = next[v] \/ i \in next'[v] .. Len(queue'[v])
      BY <2>2, <3>1, <3>2, <3>3
    <3> QED BY <2>2, <3>1, <3>3, <3>4
  <2> QED BY <2>3, <2>4
<1>7. ASSUME NEW v \in Workers, NEW answer \in Answers, RunCallback(v, answer)
      PROVE  \E w \in Workers : (current[w] = t \/ Queued(w, t))'
  <2>1. /\ promise' = [promise EXCEPT ![current[v]] = answer]
        /\ current' = [current EXCEPT ![v] = NoTask]
        /\ UNCHANGED <<queue, next>>
    BY <1>7 DEF RunCallback
  <2>2. t # current[v] /\ promise[t] = "pending"
    BY <2>1 DEF WInv, WorkersTypeOK, Answers
  <2>3. PICK w \in Workers : current[w] = t \/ Queued(w, t)
    BY <2>2 DEF PromisesHeld
  <2> QED BY <2>1, <2>2, <2>3 DEF WInv, WorkersTypeOK
<1> QED BY <1>1, <1>2, <1>3, <1>4, <1>5, <1>6, <1>7 DEF WorkersNext, ThreadStep

(* No promise is broken: as long as a task has not been answered, it is in *)
(* the queue of a worker or running, also when workers are stopped,        *)
(* replaced or asked by several threads at once.                           *)
THEOREM PromisesKept == WorkersSpec => []PromisesHeld
<1>1. WorkersInit => PromisesHeld
  BY InitWInv
<1> QED BY <1>1, PromisesStep, WorkersInvariant, PTL DEF WorkersSpec

-----------------------------------------------------------------------------
(* The refinement: a worker accepts tasks while its thread is there and    *)
(* has not been told to stop, and what waits is the queue from next on.    *)

Accepting  == {w \in Workers : thread[w] # "none" /\ ~wantStop[w]}
AllWaiting == [w \in Workers |-> Waiting(w)]

LEMMA WaitingAfterAdd ==
  ASSUME NEW q \in Seq(Tasks), NEW t \in Tasks, NEW n \in Nat \ {0}, n <= Len(q) + 1
  PROVE  SubSeq(Append(q, t), n, Len(Append(q, t))) = Append(SubSeq(q, n, Len(q)), t)
<1> DEFINE a == SubSeq(Append(q, t), n, Len(Append(q, t)))
           s == SubSeq(q, n, Len(q))
<1>1. Append(q, t) \in Seq(Tasks) /\ Len(Append(q, t)) = Len(q) + 1 /\ Len(q) \in Nat
  OBVIOUS
<1>2. /\ a \in Seq(Tasks) /\ Len(a) = Len(q) + 1 - n + 1
      /\ \A i \in 1 .. Len(a) : a[i] = Append(q, t)[n + i - 1]
  BY <1>1
<1>3. s \in Seq(Tasks) /\ Len(s) = Len(q) - n + 1 /\ \A i \in 1 .. Len(s) : s[i] = q[n + i - 1]
  BY <1>1
<1>4. Append(s, t) \in Seq(Tasks) /\ Len(Append(s, t)) = Len(a)
  BY <1>2, <1>3
<1>5. ASSUME NEW i \in 1 .. Len(a) PROVE a[i] = Append(s, t)[i]
  <2>1. CASE i = Len(s) + 1
    BY <1>1, <1>2, <1>3, <2>1
  <2>2. CASE i \in 1 .. Len(s)
    BY <1>1, <1>2, <1>3, <2>2
  <2> QED BY <1>2, <1>3, <2>1, <2>2
<1> HIDE DEF a, s
<1>6. a = Append(s, t)
  BY <1>2, <1>4, <1>5, SeqEqual
<1> QED BY <1>6 DEF a, s

LEMMA WaitingHead ==
  ASSUME NEW q \in Seq(Tasks), NEW n \in 1 .. Len(q)
  PROVE  /\ SubSeq(q, n, Len(q)) # <<>>
         /\ Head(SubSeq(q, n, Len(q))) = q[n]
         /\ Tail(SubSeq(q, n, Len(q))) = SubSeq(q, n + 1, Len(q))
<1>1. Len(q) \in Nat /\ n \in Int
  OBVIOUS
<1>2. Len(SubSeq(q, n, Len(q))) = Len(q) - n + 1
  BY <1>1, SubSeqProperties
<1>3. Len(q) \in n .. Len(q)
  BY <1>1
<1>4. /\ Head(SubSeq(q, n, Len(q))) = q[n]
      /\ Tail(SubSeq(q, n, Len(q))) = SubSeq(q, n + 1, Len(q))
  BY <1>3, HeadTailOfSubSeq
<1>5. SubSeq(q, n, Len(q)) # <<>>
  <2>1. Len(SubSeq(q, n, Len(q))) # 0
    BY <1>1, <1>2
  <2> QED BY <2>1, EmptySeq
<1> QED BY <1>4, <1>5

LEMMA TypesOf ==
  ASSUME WInv, NEW w \in Workers
  PROVE  /\ queue[w] \in Seq(Tasks) /\ next[w] \in Nat \ {0}
         /\ next[w] <= Len(queue[w]) + 1 /\ Len(queue[w]) \in Nat
         /\ thread \in [Workers -> {"none", "looping", "asleep", "flushing", "exited"}]
         /\ wantStop \in [Workers -> BOOLEAN]
         /\ queue \in [Workers -> Seq(Tasks)] /\ next \in [Workers -> Nat \ {0}]
BY DEF WInv, WorkersTypeOK, Places

LEMMA StartRefines ==
  ASSUME WInv, NEW w \in Workers, StartThread(w)
  PROVE  TQ!Open(w)
<1>1. /\ thread[w] \in {"none", "exited"} /\ thread' = [thread EXCEPT ![w] = "looping"]
      /\ wantStop' = [wantStop EXCEPT ![w] = FALSE]
      /\ queue' = [queue EXCEPT ![w] = <<>>] /\ next' = [next EXCEPT ![w] = 1]
      /\ UNCHANGED <<current, promise>>
  BY DEF StartThread
<1>2. current[w] = NoTask /\ next[w] > Len(queue[w])
  BY <1>1 DEF WInv, Places, Unstarted, AtEnd
<1>3. Waiting(w) = <<>> /\ Waiting(w)' = <<>>
  <2>1. queue'[w] = <<>> /\ next'[w] = 1
    BY <1>1, TypesOf
  <2>2. <<>> \in Seq(Tasks) /\ Len(<<>>) = 0
    OBVIOUS
  <2> QED BY <1>2, <2>1, <2>2, TypesOf, SubSeqEmpty DEF Waiting
<1>4. w \notin Accepting /\ Accepting' = Accepting \cup {w}
  BY <1>1, TypesOf DEF Accepting, WInv, Places, PastLoop
<1>5. AllWaiting' = AllWaiting
  BY <1>1, <1>3, TypesOf DEF AllWaiting, Waiting
<1>6. AllWaiting[w] = <<>>
  BY <1>3 DEF AllWaiting
<1> QED BY <1>1, <1>2, <1>4, <1>5, <1>6 DEF TQ!Open, Accepting, AllWaiting

LEMMA AddRefines ==
  ASSUME WInv, NEW w \in Workers, NEW t \in Tasks, Add(w, t)
  PROVE  TQ!Accept(w, t) \/ TQ!Refuse(w, t)
<1>1. CASE wantStop[w]
  <2>1. /\ promise[t] = "none" /\ promise' = [promise EXCEPT ![t] = "false"]
        /\ UNCHANGED <<thread, wantStop, queue, next, current>>
    BY <1>1 DEF Add
  <2>2. w \notin Accepting /\ Accepting' = Accepting /\ AllWaiting' = AllWaiting
    BY <1>1, <2>1 DEF Accepting, AllWaiting, Waiting
  <2> QED BY <2>1, <2>2 DEF TQ!Refuse, Accepting, AllWaiting
<1>2. CASE ~wantStop[w]
  <2>1. /\ thread[w] # "none" /\ promise[t] = "none" /\ Notify(w)
        /\ promise' = [promise EXCEPT ![t] = "pending"]
        /\ queue' = [queue EXCEPT ![w] = Append(@, t)]
        /\ UNCHANGED <<wantStop, next, current>>
    BY <1>2 DEF Add
  <2>2. w \in Accepting /\ Accepting' = Accepting
    BY <1>2, <2>1, NotifyType, TypesOf DEF Accepting, WInv
  <2>3. Waiting(w)' = Append(Waiting(w), t)
    <3>1. queue'[w] = Append(queue[w], t) /\ next'[w] = next[w]
      BY <2>1, TypesOf
    <3> QED BY <3>1, WaitingAfterAdd, TypesOf DEF Waiting
  <2>4. \A v \in Workers \ {w} : Waiting(v)' = Waiting(v)
    BY <2>1, TypesOf DEF Waiting
  <2>5. AllWaiting' = [AllWaiting EXCEPT ![w] = Append(@, t)]
    BY <2>3, <2>4 DEF AllWaiting
  <2> QED BY <2>1, <2>2, <2>5 DEF TQ!Accept, Accepting, AllWaiting
<1> QED BY <1>1, <1>2

LEMMA StopRefines ==
  ASSUME WInv, NEW w \in Workers, Stop(w)
  PROVE  TQ!Close(w)
<1>1. /\ thread[w] # "none" /\ Notify(w)
      /\ wantStop' = [wantStop EXCEPT ![w] = TRUE]
      /\ UNCHANGED <<queue, next, current, promise>>
  BY DEF Stop, tasks
<1>2. Accepting' = Accepting \ {w}
  BY <1>1, NotifyType, TypesOf DEF Accepting, WInv
<1>3. AllWaiting' = AllWaiting
  BY <1>1 DEF AllWaiting, Waiting
<1> QED BY <1>1, <1>2, <1>3 DEF TQ!Close, Accepting, AllWaiting

(* The steps in which a thread only moves are steps of nothing.            *)
LEMMA MoveRefines ==
  ASSUME WInv, NEW w \in Workers, Wait(w) \/ LeaveLoop(w) \/ Exit(w) \/ WakeSpuriously(w)
  PROVE  UNCHANGED TQ!queues
<1>1. /\ UNCHANGED <<wantStop, queue, next, current, promise>>
      /\ thread[w] # "none"
      /\ \E to \in {"asleep", "looping", "flushing", "exited"} :
           thread' = [thread EXCEPT ![w] = to]
  BY DEF Wait, LeaveLoop, Exit, WakeSpuriously, tasks
<1>2. Accepting' = Accepting
  BY <1>1, TypesOf DEF Accepting
<1>3. AllWaiting' = AllWaiting
  BY <1>1 DEF AllWaiting, Waiting
<1> QED BY <1>1, <1>2, <1>3 DEF TQ!queues, Accepting, AllWaiting

LEMMA BeginRefines ==
  ASSUME WInv, NEW w \in Workers, Take(w) \/ FlushNext(w)
  PROVE  TQ!Begin(w)
<1>1. /\ UNCHANGED <<thread, wantStop, promise>> /\ current[w] = NoTask
      /\ next[w] \in 1 .. Len(queue[w])
      /\ current' = [current EXCEPT ![w] = queue[w][next[w]]]
      /\ \/ queue' = [queue EXCEPT ![w] = Tail(@)] /\ next' = next /\ next[w] = 1
         \/ next' = [next EXCEPT ![w] = @ + 1] /\ queue' = queue
  <2>1. CASE Take(w)
    <3>1. next[w] = 1 /\ queue[w] # <<>>
      BY <2>1 DEF Take, WInv, Places, InLoop
    <3>2. Head(queue[w]) = queue[w][1] /\ Len(queue[w]) >= 1
      BY <3>1, TypesOf
    <3> QED BY <2>1, <3>1, <3>2, TypesOf DEF Take, control
  <2>2. CASE FlushNext(w)
    BY <2>2, TypesOf DEF FlushNext, control
  <2> QED BY <2>1, <2>2
<1>2. /\ Waiting(w) # <<>> /\ Head(Waiting(w)) = queue[w][next[w]]
      /\ Tail(Waiting(w)) = SubSeq(queue[w], next[w] + 1, Len(queue[w]))
  BY <1>1, WaitingHead, TypesOf DEF Waiting
<1>3. Waiting(w)' = Tail(Waiting(w))
  <2>1. CASE queue' = [queue EXCEPT ![w] = Tail(@)] /\ next' = next /\ next[w] = 1
    <3>1. queue'[w] = Tail(queue[w]) /\ next'[w] = 1
      BY <2>1, TypesOf
    <3>2. queue[w] \in Seq(Tasks) /\ queue[w] # <<>> /\ Len(queue[w]) \in Nat
      BY <1>1, TypesOf
    <3>3. Tail(queue[w]) \in Seq(Tasks) /\ Tail(queue[w]) = SubSeq(queue[w], 2, Len(queue[w]))
      BY <3>2, TailIsSubSeq, HeadTailProperties
    <3>4. SubSeq(Tail(queue[w]), 1, Len(Tail(queue[w]))) = Tail(queue[w])
      BY <3>3, SubSeqFull
    <3>5. Waiting(w)' = Tail(queue[w])
      BY <3>1, <3>4 DEF Waiting
    <3>6. Tail(Waiting(w)) = SubSeq(queue[w], 2, Len(queue[w]))
      BY <1>2, <2>1
    <3> QED BY <3>3, <3>5, <3>6
  <2>2. CASE next' = [next EXCEPT ![w] = @ + 1] /\ queue' = queue
    <3>1. next'[w] = next[w] + 1
      BY <2>2, TypesOf
    <3> QED BY <1>2, <2>2, <3>1 DEF Waiting
  <2> QED BY <1>1, <2>1, <2>2
<1>4. \A v \in Workers \ {w} : Waiting(v)' = Waiting(v)
  BY <1>1, TypesOf DEF Waiting
<1>5. AllWaiting' = [AllWaiting EXCEPT ![w] = Tail(@)]
  BY <1>3, <1>4 DEF AllWaiting
<1>6. Accepting' = Accepting
  BY <1>1 DEF Accepting
<1>7. AllWaiting[w] = Waiting(w)
  BY DEF AllWaiting
<1> QED BY <1>1, <1>2, <1>5, <1>6, <1>7 DEF TQ!Begin, Accepting, AllWaiting

LEMMA EndRefines ==
  ASSUME NEW w \in Workers, NEW answer \in Answers, RunCallback(w, answer)
  PROVE  TQ!End(w)
<1>1. Accepting' = Accepting /\ AllWaiting' = AllWaiting
  BY DEF RunCallback, control, Accepting, AllWaiting, Waiting
<1> QED BY <1>1 DEF RunCallback, Answers, TQ!End, Accepting, AllWaiting

LEMMA NextRefines ==
  ASSUME WInv, [WorkersNext]_workers
  PROVE  [TQ!QueueNext]_TQ!queues
<1>1. CASE UNCHANGED workers
  BY <1>1 DEF workers, control, tasks, TQ!queues, Waiting
<1>2. CASE WorkersNext
  <2> USE DEF TQ!QueueNext
  <2>1. ASSUME NEW w \in Workers, StartThread(w) PROVE TQ!QueueNext
    BY <2>1, StartRefines
  <2>2. ASSUME NEW w \in Workers, NEW t \in Tasks, Add(w, t) PROVE TQ!QueueNext
    BY <2>2, AddRefines
  <2>3. ASSUME NEW w \in Workers, Stop(w) PROVE TQ!QueueNext
    BY <2>3, StopRefines
  <2>4. ASSUME NEW w \in Workers, Take(w) \/ FlushNext(w) PROVE TQ!QueueNext
    BY <2>4, BeginRefines
  <2>5. ASSUME NEW w \in Workers, NEW answer \in Answers, RunCallback(w, answer)
        PROVE  TQ!QueueNext
    BY <2>5, EndRefines
  <2>6. ASSUME NEW w \in Workers, Wait(w) \/ LeaveLoop(w) \/ Exit(w) \/ WakeSpuriously(w)
        PROVE  UNCHANGED TQ!queues
    BY <2>6, MoveRefines
  <2> QED BY <1>2, <2>1, <2>2, <2>3, <2>4, <2>5, <2>6 DEF WorkersNext, ThreadStep
<1> QED BY <1>1, <1>2

LEMMA InitRefines == WorkersInit => TQ!QueueInit
<1> SUFFICES ASSUME WorkersInit PROVE TQ!QueueInit
  OBVIOUS
<1>1. \A w \in Workers : queue[w] = <<>> /\ next[w] = 1 /\ thread[w] = "none"
  BY DEF WorkersInit
<1>2. SubSeq(<<>>, 1, 0) = <<>> /\ Len(<<>>) = 0
  OBVIOUS
<1>3. \A w \in Workers : Waiting(w) = <<>>
  BY <1>1, <1>2 DEF Waiting
<1> QED BY <1>1, <1>3 DEF WorkersInit, TQ!QueueInit

(* Every step of a worker thread and of those who use it is a step of      *)
(* TaskQueue or none: tasks run once, in order, one at a time, and a       *)
(* worker that has been told to stop runs what it had accepted and         *)
(* refuses the rest.  (That it does run them is for TLC.)                  *)
THEOREM QueueSteps == WorkersSpec => TQ!QueueInit /\ [][TQ!QueueNext]_TQ!queues
<1>1. WorkersInit => TQ!QueueInit
  BY InitRefines
<1>2. WInv /\ [WorkersNext]_workers => [TQ!QueueNext]_TQ!queues
  BY NextRefines
<1> QED BY <1>1, <1>2, WorkersInvariant, PTL DEF WorkersSpec
-----------------------------------------------------------------------------
(***************************************************************************)
(* The index over the workers.  Its calls are uses of the workers, so what *)
(* is proved above holds of them; IInv relates where the calling thread is *)
(* to what the workers may be doing, so that nothing is queued or running  *)
(* once a call has returned.                                               *)
(***************************************************************************)

Threadless(w) == thread[w] \in {"none", "exited"}

(* Nothing waits for the worker and nothing runs on it.                    *)
Quiet(w) == current[w] = NoTask /\ next[w] > Len(queue[w])

(* The task of this call, and nothing else, waits or runs.                 *)
Asked(w) ==
  /\ promise[Task(w)] = "pending"
  /\ \/ current[w] = Task(w) /\ next[w] > Len(queue[w])
     \/ /\ current[w] = NoTask /\ next[w] = Len(queue[w])
        /\ queue[w][next[w]] = Task(w)

(* The workers that have been asked and whose future has not been got.     *)
Awaited(w) ==
  \/ pc = "started" /\ w = target
  \/ pc = "posting" /\ \E i \in 1 .. pos - 1 : indices[i] = w
  \/ pc = "waiting" /\ isThreaded /\ \E i \in pos .. count : indices[i] = w

Shapes ==
  /\ pc \in {"idle", "starting", "started", "posting", "waiting", "removing",
             "destroying", "joining", "destroyed", "crashed"}
  /\ indices \in Seq(Workers) /\ IsInjective(indices)
  /\ pos \in Nat \ {0} /\ calls \in 0 .. MaxCalls /\ isThreaded \in BOOLEAN
  /\ deleted \subseteq Workers

Stations ==
  /\ pc # "idle" => calls # 0
  /\ pc \in {"starting", "started", "posting"} => isThreaded
  /\ pc \in {"starting", "started"} => target \in Workers /\ target \notin ToSet(indices) \cup deleted
  /\ pc = "removing" => target \in ToSet(indices)
  /\ pc \in {"posting", "joining"} => pos <= count
  /\ pc = "destroying" => pos <= count + 1

OneTask == \A w \in Workers : Quiet(w) \/ (Awaited(w) /\ Asked(w))

(* Threads run only for sub-indexes of the index, or on their way into it. *)
ThreadsOwned ==
  /\ \A w \in Workers :
       \/ w \in ToSet(indices) \/ Threadless(w)
       \/ pc \in {"starting", "started"} /\ w = target
  /\ pc \in {"destroying", "joining"} => \A i \in 1 .. pos - 1 : Threadless(indices[i])
  /\ pc = "destroyed" => \A w \in Workers : Threadless(w)
  /\ \A w \in deleted : Threadless(w)
  /\ ~isThreaded => \A w \in Workers : thread[w] = "none"

OwnParts == Shapes /\ Stations /\ OneTask /\ ThreadsOwned

IInv ==
  /\ WInv
  /\ \/ owner = "others" /\ pc = "idle" /\ calls \in 0 .. MaxCalls
     \/ owner = "index" /\ OwnParts

LEMMA InitIInv == Init => IInv
<1> SUFFICES ASSUME Init PROVE IInv
  OBVIOUS
<1>1. WInv
  BY InitWInv DEF Init
<1>2. /\ pc = "idle" /\ indices = <<>> /\ pos = 1 /\ calls = 0 /\ deleted = {}
      /\ isThreaded \in BOOLEAN /\ WorkersInit
      /\ owner \in {"index", "others"}
  BY DEF Init
<1>3. Shapes
  BY <1>2, ShardsAssumption DEF Shapes, IsInjective
<1>4. Stations
  BY <1>2 DEF Stations
<1>5. OneTask
  <2>1. \A w \in Workers : current[w] = NoTask /\ next[w] = 1 /\ queue[w] = <<>>
    BY <1>2 DEF WorkersInit
  <2>2. Len(<<>>) = 0 /\ 1 > 0
    OBVIOUS
  <2>3. \A w \in Workers : Len(queue[w]) = 0
    BY <2>1, <2>2, Zenon
  <2>4. ASSUME NEW w \in Workers PROVE Quiet(w)
    <3>1. current[w] = NoTask /\ next[w] = 1 /\ Len(queue[w]) = 0
      BY <2>1, <2>3, Zenon
    <3> QED BY <3>1 DEF Quiet
  <2> QED BY <2>4 DEF OneTask
<1>6. ThreadsOwned
  BY <1>2 DEF WorkersInit, ThreadsOwned, Threadless
<1>7. OwnParts
  BY <1>3, <1>4, <1>5, <1>6 DEF OwnParts
<1>8. calls \in 0 .. MaxCalls
  BY <1>3 DEF Shapes
<1> QED BY <1>1, <1>2, <1>7, <1>8 DEF IInv

-----------------------------------------------------------------------------
(* What a step of the worker v leaves of another, w.                       *)

Moves(v) ==
  \/ ThreadStep(v) \/ WakeSpuriously(v)
  \/ \E answer \in Answers : RunCallback(v, answer)

LEMMA OthersLeftAlone ==
  ASSUME WInv, NEW v \in Workers, NEW w \in Workers \ {v},
         Moves(v) \/ Stop(v) \/ StartThread(v) \/ \E t \in Tasks : Add(v, t)
  PROVE  /\ thread'[w] = thread[w] /\ queue'[w] = queue[w]
         /\ next'[w] = next[w] /\ current'[w] = current[w]
<1> USE DEF WInv, WorkersTypeOK, tasks, control
<1>1. CASE ThreadStep(v) \/ WakeSpuriously(v)
  BY <1>1 DEF ThreadStep, WakeSpuriously, Wait, Take, LeaveLoop, FlushNext, Exit
<1>2. CASE \E answer \in Answers : RunCallback(v, answer)
  BY <1>2 DEF RunCallback
<1>3. CASE Stop(v)
  BY <1>3 DEF Stop, Notify
<1>4. CASE StartThread(v)
  BY <1>4 DEF StartThread
<1>5. ASSUME NEW t \in Tasks, Add(v, t)
      PROVE  /\ thread'[w] = thread[w] /\ queue'[w] = queue[w]
             /\ next'[w] = next[w] /\ current'[w] = current[w]
  BY <1>5 DEF Add, Notify
<1> QED BY <1>1, <1>2, <1>3, <1>4, <1>5 DEF Moves

(* Only a new object gives a worker a thread.                              *)
LEMMA ThreadlessStays ==
  ASSUME WInv, NEW v \in Workers, NEW w \in Workers, Threadless(w),
         Moves(v) \/ Stop(v) \/ \E t \in Tasks : Add(v, t)
  PROVE  thread'[w] = thread[w]
<1> USE DEF WInv, WorkersTypeOK, tasks, control, Threadless
<1>1. CASE ThreadStep(v) \/ WakeSpuriously(v)
  <2>1. CASE Wait(v) \/ LeaveLoop(v) \/ WakeSpuriously(v)
    BY <2>1 DEF WakeSpuriously, Wait, LeaveLoop
  <2>2. CASE Take(v) \/ FlushNext(v)
    BY <2>2 DEF Take, FlushNext
  <2>3. CASE Exit(v)
    BY <2>3 DEF Exit
  <2> QED BY <1>1, <2>1, <2>2, <2>3 DEF ThreadStep
<1>2. CASE \E answer \in Answers : RunCallback(v, answer)
  BY <1>2 DEF RunCallback
<1>3. CASE Stop(v)
  BY <1>3 DEF Stop, Notify
<1>4. ASSUME NEW t \in Tasks, Add(v, t) PROVE thread'[w] = thread[w]
  BY <1>4 DEF Add, Notify
<1> QED BY <1>1, <1>2, <1>3, <1>4 DEF Moves

(* A quiet worker stays so until it is given a task.                       *)
LEMMA QuietStays ==
  ASSUME WInv, NEW v \in Workers, NEW w \in Workers, Quiet(w),
         Moves(v) \/ Stop(v) \/ StartThread(v)
  PROVE  Quiet(w)'
<1> USE DEF Quiet
<1>1. CASE w # v
  BY <1>1, OthersLeftAlone
<1>2. CASE w = v
  <2> USE DEF WInv, WorkersTypeOK, tasks, control
  <2>1. CASE Wait(v) \/ LeaveLoop(v) \/ WakeSpuriously(v) \/ Exit(v) \/ Stop(v)
    BY <1>2, <2>1 DEF WakeSpuriously, Wait, LeaveLoop, Exit, Stop
  <2>2. ~Take(v)
    <3>1. thread[v] = "looping" => next[v] = 1
      BY DEF Places, InLoop
    <3>2. queue[v] # <<>> => Len(queue[v]) >= 1
      BY LenProperties
    <3>3. queue[v] \in Seq(Tasks) /\ Len(queue[v]) \in Nat
      OBVIOUS
    <3> QED BY <1>2, <3>1, <3>2, <3>3 DEF Take
  <2>3. ~FlushNext(v)
    <3>1. queue[v] \in Seq(Tasks) /\ Len(queue[v]) \in Nat /\ next[v] \in Nat
      OBVIOUS
    <3> QED BY <1>2, <3>1 DEF FlushNext
  <2>4. ~\E answer \in Answers : RunCallback(v, answer)
    BY <1>2 DEF RunCallback
  <2>5. CASE StartThread(v)
    BY <1>2, <2>5 DEF StartThread
  <2> QED BY <2>1, <2>2, <2>3, <2>4, <2>5 DEF Moves, ThreadStep
<1> QED BY <1>1, <1>2

(* A worker that was asked begins the task or finishes it.                 *)
LEMMA AskedStays ==
  ASSUME WInv, NEW v \in Workers, NEW w \in Workers, Asked(w), calls' = calls,
         calls \in 1 .. MaxCalls, current[v] \in {NoTask, Task(v)}, Moves(v)
  PROVE  Quiet(w)' \/ Asked(w)'
<1> USE DEF Asked, Quiet, Task, WInv, WorkersTypeOK, tasks, control
<1>0. Task(w) \in Tasks /\ Task(v) \in Tasks /\ NoTask \notin Tasks
  BY ShardsAssumption, TaskAssumption
<1>1. CASE w # v
  <2>1. promise'[Task(w)] = promise[Task(w)]
    <3>1. CASE ThreadStep(v) \/ WakeSpuriously(v)
      BY <3>1 DEF ThreadStep, WakeSpuriously, Wait, Take, LeaveLoop, FlushNext, Exit
    <3>2. CASE \E answer \in Answers : RunCallback(v, answer)
      BY <1>0, <1>1, <3>2 DEF RunCallback
    <3> QED BY <3>1, <3>2 DEF Moves
  <2> QED BY <1>1, <2>1, OthersLeftAlone
<1>2. CASE w = v
  <2>1. CASE Wait(v) \/ LeaveLoop(v) \/ WakeSpuriously(v) \/ Exit(v)
    BY <1>2, <2>1 DEF WakeSpuriously, Wait, LeaveLoop, Exit
  <2>2. CASE Take(v)
    <3>1. /\ current[v] = NoTask /\ next[v] = 1 /\ Len(queue[v]) = 1
          /\ queue[v][1] = Task(v) /\ queue[v] # <<>> /\ queue[v] \in Seq(Tasks)
      BY <1>0, <1>2, <2>2 DEF Take, Places, InLoop
    <3>2. Head(queue[v]) = Task(v) /\ Len(Tail(queue[v])) = 0
      BY <3>1
    <3>3. /\ current'[v] = Task(v) /\ queue'[v] = Tail(queue[v])
          /\ next'[v] = 1 /\ promise' = promise
      BY <2>2, <3>1, <3>2 DEF Take
    <3> QED BY <1>2, <3>2, <3>3
  <2>3. CASE FlushNext(v)
    <3>1. current[v] = NoTask /\ next[v] = Len(queue[v]) /\ queue[v][next[v]] = Task(v)
      BY <1>0, <1>2, <2>3 DEF FlushNext
    <3>2. /\ current'[v] = Task(v) /\ queue' = queue /\ next'[v] = next[v] + 1
          /\ promise' = promise
      BY <2>3, <3>1 DEF FlushNext
    <3> QED BY <1>2, <3>1, <3>2
  <2>4. CASE \E answer \in Answers : RunCallback(v, answer)
    BY <1>0, <1>2, <2>4 DEF RunCallback
  <2> QED BY <2>1, <2>2, <2>3, <2>4 DEF Moves, ThreadStep
<1> QED BY <1>1, <1>2

(* indices_ without one of its sub-indexes                                 *)
LEMMA RemovedAt ==
  ASSUME NEW S, NEW s \in Seq(S), IsInjective(s), NEW i \in 1 .. Len(s)
  PROVE  /\ RemoveAt(s, i) \in Seq(S) /\ IsInjective(RemoveAt(s, i))
         /\ ToSet(RemoveAt(s, i)) = ToSet(s) \ {s[i]}
         /\ Len(RemoveAt(s, i)) = Len(s) - 1
         /\ \A k \in 1 .. Len(s) - 1 :
              RemoveAt(s, i)[k] = IF k < i THEN s[k] ELSE s[k + 1]
<1> DEFINE l == SubSeq(s, 1, i - 1)
           r == SubSeq(s, i + 1, Len(s))
<1>1. /\ Len(s) \in Nat /\ i - 1 \in Int /\ i + 1 \in Int
      /\ \A k \in 1 .. Len(s) : s[k] \in S
      /\ DOMAIN s = 1 .. Len(s)
  BY LenProperties
<1>2. l \in Seq(S) /\ Len(l) = i - 1 /\ \A k \in 1 .. i - 1 : l[k] = s[k]
  BY <1>1
<1>3. /\ r \in Seq(S) /\ Len(r) = Len(s) - i
      /\ \A k \in 1 .. Len(s) - i : r[k] = s[k + i]
  <2>1. \A k \in i + 1 .. Len(s) : s[k] \in S
    BY <1>1
  <2>2. /\ r \in Seq(S) /\ Len(r) = IF i + 1 <= Len(s) THEN Len(s) - (i + 1) + 1 ELSE 0
        /\ \A k \in 1 .. Len(s) - (i + 1) + 1 : r[k] = s[(i + 1) + k - 1]
    BY <1>1, <2>1, SubSeqProperties
  <2>3. \A k \in 1 .. Len(s) - i : (i + 1) + k - 1 = k + i
    BY <1>1
  <2> HIDE DEF r
  <2>4. Len(r) = Len(s) - i
    <3>1. CASE i + 1 <= Len(s)
      <4>1. Len(r) = Len(s) - (i + 1) + 1
        BY <2>2, <3>1
      <4> QED BY <1>1, <4>1
    <3>2. CASE ~(i + 1 <= Len(s))
      <4>1. i = Len(s)
        <5>1. Len(s) \in Nat /\ i \in Nat /\ i <= Len(s)
          BY LenProperties
        <5> HIDE DEF l
        <5> QED BY <3>2, <5>1
      <4>2. Len(r) = 0
        BY <2>2, <3>2, Zenon
      <4> QED BY <1>1, <4>1, <4>2
    <3> QED BY <3>1, <3>2
  <2>5. ASSUME NEW k \in 1 .. Len(s) - i PROVE r[k] = s[k + i]
    <3>1. k \in 1 .. Len(s) - (i + 1) + 1
      BY <1>1
    <3> QED BY <2>2, <2>3, <3>1
  <2> QED BY <2>2, <2>4, <2>5
<1> HIDE DEF l, r
<1>4. PICK t \in Seq(S) : t = l \o r
  BY <1>2, <1>3, ConcatProperties
<1>5. /\ Len(t) = Len(s) - 1 /\ DOMAIN t = 1 .. Len(s) - 1
      /\ \A k \in 1 .. Len(s) - 1 : t[k] = IF k < i THEN s[k] ELSE s[k + 1]
  <2>1. /\ Len(t) = Len(l) + Len(r)
        /\ \A k \in 1 .. Len(l) + Len(r) :
             t[k] = IF k <= Len(l) THEN l[k] ELSE r[k - Len(l)]
    BY <1>2, <1>3, <1>4, ConcatProperties
  <2>2. Len(l) + Len(r) = Len(s) - 1
    BY <1>1, <1>2, <1>3
  <2>3. \A k \in 1 .. Len(s) - 1 :
          t[k] = IF k <= i - 1 THEN l[k] ELSE r[k - (i - 1)]
    BY <1>2, <2>1, <2>2
  <2>4. Len(t) = Len(s) - 1 /\ DOMAIN t = 1 .. Len(s) - 1
    BY <1>1, <2>1, <2>2, LenProperties
  <2>5. ASSUME NEW k \in 1 .. Len(s) - 1 PROVE t[k] = IF k < i THEN s[k] ELSE s[k + 1]
    <3>1. CASE k < i
      <4>1. k <= i - 1 /\ k \in 1 .. i - 1
        BY <1>1, <3>1
      <4> QED BY <1>2, <2>3, <3>1, <4>1
    <3>2. CASE ~(k < i)
      <4>1. k - (i - 1) \in 1 .. Len(s) - i /\ (k - (i - 1)) + i = k + 1
        BY <1>1, <3>2
      <4>2. t[k] = r[k - (i - 1)]
        <5>1. ~(k <= i - 1)
          BY <1>1, <3>2
        <5> QED BY <2>3, <5>1
      <4> QED BY <1>3, <3>2, <4>1, <4>2
    <3> QED BY <3>1, <3>2
  <2> QED BY <2>4, <2>5
<1>6. ASSUME NEW k \in 1 .. Len(s) - 1
      PROVE  \E j \in 1 .. Len(s) :
               t[k] = s[j] /\ j # i /\ j = IF k < i THEN k ELSE k + 1
  <2>1. CASE k < i
    <3>1. k \in 1 .. Len(s) /\ k # i /\ t[k] = s[k]
      BY <1>1, <1>5, <2>1
    <3> QED BY <2>1, <3>1
  <2>2. CASE ~(k < i)
    <3>1. k + 1 \in 1 .. Len(s) /\ k + 1 # i /\ t[k] = s[k + 1]
      BY <1>1, <1>5, <2>2
    <3> QED BY <2>2, <3>1
  <2> QED BY <2>1, <2>2
<1>7. IsInjective(t)
  <2> SUFFICES ASSUME NEW k \in 1 .. Len(s) - 1, NEW m \in 1 .. Len(s) - 1, t[k] = t[m]
               PROVE  k = m
    BY <1>5 DEF IsInjective
  <2>1. PICK j \in 1 .. Len(s) : t[k] = s[j] /\ j = IF k < i THEN k ELSE k + 1
    BY <1>6
  <2>2. PICK h \in 1 .. Len(s) : t[m] = s[h] /\ h = IF m < i THEN m ELSE m + 1
    BY <1>6
  <2>3. j = h
    BY <1>1, <2>1, <2>2 DEF IsInjective
  <2> QED BY <1>1, <2>1, <2>2, <2>3
<1>8. ToSet(t) = ToSet(s) \ {s[i]}
  <2>1. ASSUME NEW k \in 1 .. Len(s) - 1 PROVE t[k] \in ToSet(s) \ {s[i]}
    <3>1. PICK j \in 1 .. Len(s) : t[k] = s[j] /\ j # i
      BY <1>6
    <3>2. s[j] # s[i]
      BY <1>1, <3>1 DEF IsInjective
    <3>3. s[j] \in ToSet(s)
      BY <1>1 DEF ToSet
    <3> QED BY <3>1, <3>2, <3>3
  <2>2. ASSUME NEW k \in 1 .. Len(s), s[k] # s[i] PROVE s[k] \in ToSet(t)
    <3>1. CASE k < i
      BY <1>1, <1>5, <3>1 DEF ToSet
    <3>2. CASE k > i
      <4>1. k - 1 \in 1 .. Len(s) - 1 /\ t[k - 1] = s[k]
        BY <1>1, <1>5, <3>2
      <4> QED BY <1>5, <4>1 DEF ToSet
    <3> QED BY <1>1, <2>2, <3>1, <3>2
  <2> QED BY <1>1, <1>5, <2>1, <2>2 DEF ToSet
<1>9. RemoveAt(s, i) = t
  BY <1>4 DEF RemoveAt, l, r
<1> QED BY <1>5, <1>7, <1>8, <1>9, Zenon

(* indices_ with one more                                                  *)
LEMMA JoinedIn ==
  ASSUME NEW S, NEW s \in Seq(S), IsInjective(s), NEW e \in S, e \notin ToSet(s)
  PROVE  /\ Append(s, e) \in Seq(S) /\ IsInjective(Append(s, e))
         /\ ToSet(Append(s, e)) = ToSet(s) \cup {e}
<1>1. PICK t \in Seq(S) : t = Append(s, e)
  BY AppendProperties
<1>2. /\ Len(s) \in Nat /\ DOMAIN s = 1 .. Len(s) /\ DOMAIN t = 1 .. Len(s) + 1
      /\ t[Len(s) + 1] = e /\ \A i \in 1 .. Len(s) : t[i] = s[i]
  BY <1>1, AppendProperties, LenProperties
<1>3. IsInjective(t)
  BY <1>2 DEF IsInjective, ToSet
<1>4. ToSet(t) = ToSet(s) \cup {e}
  BY <1>2 DEF ToSet
<1> QED BY <1>1, <1>3, <1>4

-----------------------------------------------------------------------------
(* The invariant of the index, kept by every step.                         *)

LEMMA PlacesOf ==
  ASSUME Shapes
  PROVE  /\ Len(indices) \in Nat /\ DOMAIN indices = 1 .. Len(indices) /\ pos \in Nat \ {0}
         /\ \A i \in 1 .. Len(indices) : indices[i] \in Workers /\ indices[i] \in ToSet(indices)
         /\ \A i, j \in 1 .. Len(indices) : indices[i] = indices[j] => i = j
         /\ \A w \in ToSet(indices) : w \in Workers /\ \E i \in 1 .. Len(indices) : indices[i] = w
         /\ calls \in Nat /\ MaxCalls \in Nat
<1>1. Len(indices) \in Nat /\ DOMAIN indices = 1 .. Len(indices)
  BY LenProperties DEF Shapes
<1>2. \A i \in 1 .. Len(indices) : indices[i] \in Workers
  BY ElementOfSeq DEF Shapes
<1> QED BY <1>1, <1>2, ShardsAssumption DEF Shapes, IsInjective, ToSet

(* A step of a worker                                                      *)
LEMMA MoveKeeps ==
  ASSUME WInv, OwnParts, NEW v \in Workers, Moves(v),
         UNCHANGED <<mode, caller, indices, deleted>>
  PROVE  OwnParts'
<1> USE DEF mode, caller
<1>1. Shapes' /\ Stations'
  BY DEF OwnParts, Shapes, Stations, count
<1>2. ASSUME NEW w \in Workers PROVE Quiet(w)' \/ (Awaited(w)' /\ Asked(w)')
  <2>1. CASE Quiet(w)
    BY <2>1, QuietStays
  <2>2. CASE Awaited(w) /\ Asked(w)
    <3>1. Awaited(w)'
      BY <2>2 DEF Awaited, count
    <3>2. calls \in 1 .. MaxCalls
      BY <2>2, PlacesOf DEF OwnParts, Stations, Awaited, Shapes
    <3>3. current[v] \in {NoTask, Task(v)}
      BY DEF OwnParts, OneTask, Quiet, Asked
    <3>4. Quiet(w)' \/ Asked(w)'
      BY <2>2, <3>2, <3>3, AskedStays
    <3> QED BY <3>1, <3>4
  <2> QED BY <2>1, <2>2 DEF OwnParts, OneTask
<1>3. OneTask'
  BY <1>2 DEF OneTask
<1>4. \A w \in Workers : Threadless(w) => thread'[w] = thread[w]
  BY ThreadlessStays
<1>5. ThreadsOwned'
  <2>1. \A i \in 1 .. Len(indices) : indices[i] \in Workers
    BY PlacesOf DEF OwnParts
  <2>2. \A w \in Workers : Threadless(w) => Threadless(w)'
    BY <1>4 DEF Threadless
  <2>3. pc \in {"destroying", "joining"} => \A i \in 1 .. pos - 1 : Threadless(indices[i])'
    BY <1>4, <2>1, PlacesOf DEF OwnParts, Stations, ThreadsOwned, Threadless, count
  <2> QED BY <1>4, <2>2, <2>3 DEF OwnParts, Shapes, ThreadsOwned, Threadless
<1> QED BY <1>1, <1>3, <1>5 DEF OwnParts

(* A step of the caller that does not use a worker                         *)
LEMMA WorkersSame ==
  ASSUME UNCHANGED workers
  PROVE  /\ \A w : Quiet(w)' = Quiet(w)
         /\ \A w : Threadless(w)' = Threadless(w)
         /\ \A w : calls' = calls => (Asked(w)' = Asked(w))
         /\ thread' = thread
BY DEF workers, control, tasks, Quiet, Threadless, Asked, Task

(* Where nobody is awaited, all workers are quiet.                         *)
LEMMA AllQuiet ==
  ASSUME OwnParts,
         \/ pc \notin {"started", "posting", "waiting"}
         \/ pc = "posting" /\ pos = 1
         \/ pc = "waiting" /\ (pos > count \/ ~isThreaded)
  PROVE  \A w \in Workers : Quiet(w)
<1>1. \A w \in Workers : ~Awaited(w)
  BY PlacesOf DEF OwnParts, Awaited, count
<1> QED BY <1>1 DEF OwnParts, OneTask

LEMMA AddIndexKeeps ==
  ASSUME WInv, OwnParts, NEW v \in Workers, AddIndex(v)
  PROVE  OwnParts'
<1>1. /\ pc = "idle" /\ calls < MaxCalls /\ calls' = calls + 1
      /\ v \notin ToSet(indices) \cup deleted /\ target' = v
      /\ UNCHANGED <<isThreaded, own_indices, pos, deleted>>
  BY DEF AddIndex, Call, Idle, mode
<1>2. \A w \in Workers : Quiet(w)
  BY <1>1, AllQuiet
<1>3. CASE isThreaded
  <2>1. StartThread(v) /\ pc' = "starting" /\ indices' = indices
    BY <1>3 DEF AddIndex
  <2>2. \A w \in Workers : Quiet(w)'
    BY <1>2, <2>1, QuietStays
  <2>3. Shapes' /\ Stations'
    BY <1>1, <1>3, <2>1, PlacesOf DEF OwnParts, Shapes, Stations, count
  <2>4. \A w \in Workers \ {v} : thread'[w] = thread[w]
    BY <2>1, OthersLeftAlone
  <2>5. ThreadsOwned'
    <3>1. \A w \in Workers : w = v \/ (Threadless(w) => Threadless(w)')
      BY <2>4 DEF Threadless
    <3> QED BY <1>1, <1>3, <2>1, <3>1 DEF OwnParts, Shapes, ThreadsOwned
  <2> QED BY <2>2, <2>3, <2>5 DEF OwnParts, OneTask
<1>4. CASE ~isThreaded
  <2>1. indices' = Append(indices, v) /\ UNCHANGED workers /\ pc' = "idle"
    BY <1>1, <1>4 DEF AddIndex
  <2>2. /\ indices' \in Seq(Workers) /\ IsInjective(indices')
        /\ ToSet(indices') = ToSet(indices) \cup {v}
    BY <1>1, <2>1, JoinedIn DEF OwnParts, Shapes
  <2>3. Shapes' /\ Stations'
    BY <1>1, <2>1, <2>2, PlacesOf DEF OwnParts, Shapes, Stations
  <2>4. ThreadsOwned'
    BY <1>1, <1>4, <2>1, <2>2, WorkersSame DEF OwnParts, ThreadsOwned
  <2> QED BY <1>2, <2>1, <2>3, <2>4, WorkersSame DEF OwnParts, OneTask
<1> QED BY <1>3, <1>4

(* A worker that is quiet is given the task of this call.                  *)
LEMMA AddAsks ==
  ASSUME WInv, NEW v \in Workers, Quiet(v), Task(v) \in Tasks, Add(v, Task(v)),
         calls' = calls
  PROVE  Quiet(v)' \/ Asked(v)'
<1> USE DEF WInv, WorkersTypeOK, Quiet
<1>1. CASE wantStop[v]
  BY <1>1 DEF Add
<1>2. CASE ~wantStop[v]
  <2>1. /\ promise' = [promise EXCEPT ![Task(v)] = "pending"]
        /\ queue' = [queue EXCEPT ![v] = Append(@, Task(v))]
        /\ UNCHANGED <<next, current>>
    BY <1>2 DEF Add
  <2>2. next[v] = Len(queue[v]) + 1 /\ queue[v] \in Seq(Tasks) /\ Len(queue[v]) \in Nat
    <3>1. next[v] <= Len(queue[v]) + 1 /\ queue[v] \in Seq(Tasks)
          /\ next[v] \in Nat /\ next[v] > Len(queue[v])
      BY DEF Places
    <3> QED BY <3>1
  <2>3. /\ queue'[v] = Append(queue[v], Task(v)) /\ Len(queue'[v]) = Len(queue[v]) + 1
        /\ queue'[v][Len(queue[v]) + 1] = Task(v)
    BY <2>1, <2>2
  <2>4. promise'[Task(v)] = "pending" /\ Task(v)' = Task(v)
    BY <2>1 DEF Task
  <2> QED BY <2>1, <2>2, <2>3, <2>4 DEF Asked
<1> QED BY <1>1, <1>2

LEMMA AddElsewhere ==
  ASSUME WInv, NEW v \in Workers, Task(v) \in Tasks, Add(v, Task(v)), calls' = calls,
         NEW w \in Workers \ {v}
  PROVE  Quiet(w)' = Quiet(w) /\ Asked(w)' = Asked(w) /\ thread'[w] = thread[w]
<1>1. /\ thread'[w] = thread[w] /\ queue'[w] = queue[w]
      /\ next'[w] = next[w] /\ current'[w] = current[w]
  BY OthersLeftAlone
<1>2. promise'[Task(w)] = promise[Task(w)]
  <2>1. Task(v) # Task(w)
    BY DEF Task
  <2>2. Task(w) \in Tasks
    BY ShardsAssumption DEF Task
  <2>3. \E answer : promise' = [promise EXCEPT ![Task(v)] = answer]
    BY DEF Add
  <2> QED BY <2>1, <2>2, <2>3 DEF WInv, WorkersTypeOK
<1>3. Task(w)' = Task(w)
  BY DEF Task
<1> QED BY <1>1, <1>2, <1>3 DEF Quiet, Asked

LEMMA PostEmptyTaskKeeps ==
  ASSUME WInv, OwnParts, PostEmptyTask
  PROVE  OwnParts'
<1>1. /\ pc = "starting" /\ pc' = "started" /\ Add(target, Task(target))
      /\ target \in Workers /\ isThreaded
      /\ UNCHANGED <<isThreaded, target, pos, calls, indices, deleted>>
  BY DEF PostEmptyTask, mode, shards, OwnParts, Stations
<1>2. Task(target) \in Tasks
  BY <1>1, PlacesOf, ShardsAssumption DEF OwnParts, Stations, Task, Shapes
<1>3. \A w \in Workers : Quiet(w)
  BY <1>1, AllQuiet
<1>4. OneTask'
  <2>1. \A w \in Workers \ {target} : Quiet(w)'
    BY <1>1, <1>2, <1>3, AddElsewhere
  <2>2. Quiet(target)' \/ Asked(target)'
    BY <1>1, <1>2, <1>3, AddAsks
  <2>3. Awaited(target)'
    BY <1>1 DEF Awaited
  <2> QED BY <1>1, <2>1, <2>2, <2>3 DEF OneTask
<1>5. Shapes' /\ Stations'
  BY <1>1 DEF OwnParts, Shapes, Stations
<1>6. ThreadsOwned'
  <2>1. \A w \in Workers : Threadless(w) => Threadless(w)'
    BY <1>1, <1>2, ThreadlessStays DEF Threadless
  <2> QED BY <1>1, <2>1 DEF OwnParts, Shapes, ThreadsOwned
<1> QED BY <1>4, <1>5, <1>6 DEF OwnParts

LEMMA FinishAddIndexKeeps ==
  ASSUME WInv, OwnParts, FinishAddIndex
  PROVE  OwnParts'
<1>1. /\ pc = "started" /\ promise[Task(target)] = "true" /\ pc' = "idle"
      /\ indices' = Append(indices, target) /\ UNCHANGED workers
      /\ target \in Workers /\ target \notin ToSet(indices)
      /\ UNCHANGED <<isThreaded, target, pos, calls, deleted>>
  BY DEF FinishAddIndex, mode, OwnParts, Stations
<1>2. \A w \in Workers : Quiet(w)
  <2>1. ~Asked(target)
    BY <1>1 DEF Asked
  <2>2. \A w \in Workers : Awaited(w) => w = target
    BY <1>1 DEF Awaited
  <2> QED BY <2>1, <2>2 DEF OwnParts, OneTask
<1>3. /\ indices' \in Seq(Workers) /\ IsInjective(indices')
      /\ ToSet(indices') = ToSet(indices) \cup {target}
  BY <1>1, JoinedIn DEF OwnParts, Shapes
<1>4. Shapes' /\ Stations'
  BY <1>1, <1>3 DEF OwnParts, Shapes, Stations
<1>5. ThreadsOwned'
  BY <1>1, <1>3, WorkersSame DEF OwnParts, ThreadsOwned
<1> QED BY <1>1, <1>2, <1>4, <1>5, WorkersSame DEF OwnParts, OneTask

LEMMA RunOnIndexKeeps ==
  ASSUME WInv, OwnParts, NEW what, RunOnIndex(what)
  PROVE  OwnParts'
<1>1. /\ pc = "idle" /\ calls < MaxCalls /\ calls' = calls + 1 /\ pos' = 1
      /\ pc' = IF isThreaded /\ indices # <<>> THEN "posting" ELSE "waiting"
      /\ UNCHANGED workers /\ UNCHANGED <<isThreaded, target, indices, deleted>>
  BY DEF RunOnIndex, Call, Idle, mode, shards
<1>2. \A w \in Workers : Quiet(w)
  BY <1>1, AllQuiet
<1>3. indices # <<>> => 1 <= Len(indices)
  BY EmptySeq, PlacesOf DEF OwnParts, Shapes
<1>4. Shapes' /\ Stations'
  BY <1>1, <1>3, PlacesOf DEF OwnParts, Shapes, Stations, count
<1>5. ThreadsOwned'
  BY <1>1, WorkersSame DEF OwnParts, ThreadsOwned
<1> QED BY <1>1, <1>2, <1>4, <1>5, WorkersSame DEF OwnParts, OneTask

LEMMA SearchNothingKeeps ==
  ASSUME WInv, OwnParts, SearchNothing
  PROVE  OwnParts'
<1>1. /\ pc = "idle" /\ calls < MaxCalls /\ calls' = calls + 1 /\ pc' = "crashed"
      /\ UNCHANGED workers /\ UNCHANGED <<isThreaded, target, pos, indices, deleted>>
  BY DEF SearchNothing, Call, Idle, mode, shards
<1>2. \A w \in Workers : Quiet(w)
  BY <1>1, AllQuiet
<1>3. Shapes' /\ Stations'
  BY <1>1, PlacesOf DEF OwnParts, Shapes, Stations, count
<1>4. ThreadsOwned'
  BY <1>1, WorkersSame DEF OwnParts, ThreadsOwned
<1> QED BY <1>1, <1>2, <1>3, <1>4, WorkersSame DEF OwnParts, OneTask

LEMMA PostKeeps ==
  ASSUME WInv, OwnParts, Post
  PROVE  OwnParts'
<1>0. /\ pc = "posting" /\ isThreaded /\ pos \in 1 .. Len(indices)
      /\ indices[pos] \in Workers /\ Len(indices) \in Nat /\ pos \in Nat
  BY PlacesOf DEF Post, OwnParts, Stations, count
<1> PICK v \in Workers : v = indices[pos]
  BY <1>0
<1>1. /\ pc = "posting" /\ Add(v, Task(v)) /\ isThreaded
      /\ pos = Len(indices) => pc' = "waiting" /\ pos' = 1
      /\ pos # Len(indices) => pos' = pos + 1 /\ pc' = "posting"
      /\ UNCHANGED <<isThreaded, target, calls, indices, deleted>>
  BY <1>0 DEF Post, mode, shards, count
<1>2. v \in Workers /\ pos \in 1 .. Len(indices) /\ v \in ToSet(indices)
  BY <1>0, PlacesOf DEF OwnParts
<1>3. Task(v) \in Tasks
  BY <1>1, <1>2, PlacesOf, ShardsAssumption DEF OwnParts, Stations, Task, Shapes
<1>4. Quiet(v)
  <2>1. ~Awaited(v)
    <3>1. ASSUME NEW i \in 1 .. pos - 1 PROVE indices[i] # v
      BY <1>0, PlacesOf DEF OwnParts
    <3> QED BY <1>1, <3>1 DEF Awaited
  <2> QED BY <1>2, <2>1 DEF OwnParts, OneTask
<1>5. ASSUME NEW w \in Workers PROVE Quiet(w)' \/ (Awaited(w)' /\ Asked(w)')
  <2>1. CASE w = v
    <3>1. Quiet(v)' \/ Asked(v)'
      BY <1>1, <1>2, <1>3, <1>4, AddAsks
    <3>2. Awaited(v)'
      <4>1. CASE pos = Len(indices)
        BY <1>1, <1>2, <4>1, PlacesOf DEF OwnParts, Awaited, count
      <4>2. CASE pos # Len(indices)
        <5>1. pos' = pos + 1 /\ pc' = "posting" /\ pos \in 1 .. pos' - 1
          BY <1>0, <1>1, <4>2
        <5> QED BY <1>1, <5>1 DEF Awaited
      <4> QED BY <4>1, <4>2
    <3> QED BY <2>1, <3>1, <3>2
  <2>2. CASE w # v
    <3>1. Quiet(w)' = Quiet(w) /\ Asked(w)' = Asked(w)
      BY <1>1, <1>2, <1>3, <2>2, AddElsewhere
    <3>2. CASE Quiet(w)
      BY <3>1, <3>2
    <3>3. CASE Awaited(w) /\ Asked(w)
      <4>1. PICK i \in 1 .. pos - 1 : indices[i] = w
        BY <1>1, <3>3 DEF Awaited
      <4>2. Awaited(w)'
        <5>1. CASE pos = Len(indices)
          <6>1. pc' = "waiting" /\ isThreaded' /\ i \in pos' .. Len(indices')
            BY <1>1, <1>2, <5>1, PlacesOf DEF OwnParts
          <6> QED BY <1>1, <4>1, <6>1 DEF Awaited, count
        <5>2. CASE pos # Len(indices)
          <6>1. pos' = pos + 1 /\ pc' = "posting" /\ i \in 1 .. pos' - 1
            BY <1>0, <1>1, <4>1, <5>2
          <6> QED BY <1>1, <4>1, <6>1 DEF Awaited
        <5> QED BY <5>1, <5>2
      <4> QED BY <3>1, <3>3, <4>2
    <3> QED BY <3>2, <3>3 DEF OwnParts, OneTask
  <2> QED BY <2>1, <2>2
<1>6. Shapes' /\ Stations'
  BY <1>1, <1>2, PlacesOf DEF OwnParts, Shapes, Stations, count
<1>7. ThreadsOwned'
  <2>1. \A w \in Workers : Threadless(w) => Threadless(w)'
    BY <1>1, <1>2, <1>3, ThreadlessStays DEF Threadless
  <2> QED BY <1>1, <2>1 DEF OwnParts, Shapes, ThreadsOwned
<1> QED BY <1>5, <1>6, <1>7 DEF OwnParts, OneTask

LEMMA GetFutureKeeps ==
  ASSUME WInv, OwnParts, GetFuture
  PROVE  OwnParts'
<1>1. /\ pc = "waiting" /\ isThreaded /\ pos <= Len(indices) /\ pos' = pos + 1
      /\ promise[Task(indices[pos])] # "pending"
      /\ UNCHANGED workers
      /\ UNCHANGED <<isThreaded, pc, target, calls, indices, deleted>>
  BY DEF GetFuture, mode, shards, count
<1>2. ASSUME NEW w \in Workers PROVE Quiet(w)' \/ (Awaited(w)' /\ Asked(w)')
  <2>1. CASE Quiet(w)
    BY <1>1, <2>1, WorkersSame
  <2>2. CASE Awaited(w) /\ Asked(w)
    <3>1. PICK i \in pos .. Len(indices) : indices[i] = w
      BY <1>1, <2>2 DEF Awaited, count
    <3>2. i # pos
      BY <1>1, <2>2, <3>1 DEF Asked
    <3>3. i \in pos' .. Len(indices')
      BY <1>1, <3>1, <3>2, PlacesOf DEF OwnParts
    <3>4. Awaited(w)'
      BY <1>1, <3>1, <3>3 DEF Awaited, count
    <3> QED BY <1>1, <2>2, <3>4, WorkersSame
  <2> QED BY <2>1, <2>2 DEF OwnParts, OneTask
<1>3. Shapes' /\ Stations'
  BY <1>1, PlacesOf DEF OwnParts, Shapes, Stations
<1>4. ThreadsOwned'
  BY <1>1, WorkersSame DEF OwnParts, ThreadsOwned
<1> QED BY <1>2, <1>3, <1>4 DEF OwnParts, OneTask

LEMMA RunHereKeeps ==
  ASSUME WInv, OwnParts, RunHere
  PROVE  OwnParts'
<1>1. /\ pc = "waiting" /\ ~isThreaded /\ pos' = pos + 1
      /\ UNCHANGED workers
      /\ UNCHANGED <<isThreaded, pc, target, calls, indices, deleted>>
  BY DEF RunHere, mode
<1>2. \A w \in Workers : Quiet(w)
  BY <1>1, AllQuiet
<1>3. Shapes' /\ Stations'
  BY <1>1, PlacesOf DEF OwnParts, Shapes, Stations
<1>4. ThreadsOwned'
  BY <1>1, WorkersSame DEF OwnParts, ThreadsOwned
<1> QED BY <1>1, <1>2, <1>3, <1>4, WorkersSame DEF OwnParts, OneTask

LEMMA FinishRunKeeps ==
  ASSUME WInv, OwnParts, FinishRun
  PROVE  OwnParts'
<1>1. /\ pc = "waiting" /\ pos > count /\ pc' = "idle"
      /\ UNCHANGED workers
      /\ UNCHANGED <<isThreaded, target, pos, calls, indices, deleted>>
  BY DEF FinishRun, mode
<1>2. \A w \in Workers : Quiet(w)
  BY <1>1, AllQuiet
<1>3. Shapes' /\ Stations'
  BY <1>1, PlacesOf DEF OwnParts, Shapes, Stations
<1>4. ThreadsOwned'
  BY <1>1, WorkersSame DEF OwnParts, ThreadsOwned
<1> QED BY <1>1, <1>2, <1>3, <1>4, WorkersSame DEF OwnParts, OneTask

LEMMA RemoveIndexKeeps ==
  ASSUME WInv, OwnParts, NEW v \in Workers, RemoveIndex(v)
  PROVE  OwnParts'
<1>1. /\ pc = "idle" /\ calls < MaxCalls /\ calls' = calls + 1
      /\ v \in ToSet(indices) /\ pc' = "removing" /\ target' = v
      /\ Stop(v) \/ UNCHANGED workers
      /\ UNCHANGED <<isThreaded, pos, indices, deleted>>
  BY DEF RemoveIndex, Call, Idle, mode, shards
<1>2. \A w \in Workers : Quiet(w)'
  <2>1. \A w \in Workers : Quiet(w)
    BY <1>1, AllQuiet
  <2> QED BY <1>1, <2>1, QuietStays, WorkersSame
<1>3. Shapes' /\ Stations'
  BY <1>1, PlacesOf DEF OwnParts, Shapes, Stations
<1>4. \A w \in Workers : Threadless(w) => thread'[w] = thread[w]
  BY <1>1, ThreadlessStays, WorkersSame
<1>5. ~isThreaded => thread' = thread
  BY <1>1, WorkersSame DEF Stop, OwnParts, ThreadsOwned
<1>6. ThreadsOwned'
  BY <1>1, <1>4, <1>5 DEF OwnParts, Shapes, ThreadsOwned, Threadless
<1> QED BY <1>2, <1>3, <1>6 DEF OwnParts, OneTask

LEMMA FinishRemoveIndexKeeps ==
  ASSUME WInv, OwnParts, FinishRemoveIndex
  PROVE  OwnParts'
<1>1. /\ pc = "removing" /\ (isThreaded => Joined(target)) /\ pc' = "idle"
      /\ indices' = RemoveAt(indices, CHOOSE i \in 1 .. count : indices[i] = target)
      /\ deleted' \in {deleted, deleted \cup {target}}
      /\ target \in ToSet(indices) /\ target \in Workers
      /\ UNCHANGED workers /\ UNCHANGED <<isThreaded, target, pos, calls>>
  BY PlacesOf DEF FinishRemoveIndex, mode, OwnParts, Stations
<1>2. PICK i \in 1 .. Len(indices) :
        indices[i] = target /\ indices' = RemoveAt(indices, i)
  <2>1. \E i \in 1 .. Len(indices) : indices[i] = target
    BY <1>1, PlacesOf DEF OwnParts
  <2> QED BY <1>1, <2>1 DEF count
<1>3. /\ indices' \in Seq(Workers) /\ IsInjective(indices')
      /\ ToSet(indices') = ToSet(indices) \ {target}
  BY <1>2, RemovedAt DEF OwnParts, Shapes
<1>4. \A w \in Workers : Quiet(w)
  BY <1>1, AllQuiet
<1>5. Shapes' /\ Stations'
  BY <1>1, <1>3, PlacesOf DEF OwnParts, Shapes, Stations
<1>6. Threadless(target)
  BY <1>1 DEF Joined, Threadless, OwnParts, ThreadsOwned
<1>7. ThreadsOwned'
  BY <1>1, <1>3, <1>6, WorkersSame DEF OwnParts, ThreadsOwned
<1> QED BY <1>1, <1>4, <1>5, <1>7, WorkersSame DEF OwnParts, OneTask

LEMMA DestroyKeeps ==
  ASSUME WInv, OwnParts, Destroy
  PROVE  OwnParts'
<1>1. /\ pc = "idle" /\ calls < MaxCalls /\ calls' = calls + 1
      /\ pc' = "destroying" /\ pos' = 1
      /\ UNCHANGED workers /\ UNCHANGED <<isThreaded, target, indices, deleted>>
  BY DEF Destroy, Call, Idle, mode, shards
<1>2. \A w \in Workers : Quiet(w)
  BY <1>1, AllQuiet
<1>3. Shapes' /\ Stations'
  BY <1>1, PlacesOf DEF OwnParts, Shapes, Stations, count
<1>4. ThreadsOwned'
  BY <1>1, WorkersSame DEF OwnParts, ThreadsOwned
<1> QED BY <1>1, <1>2, <1>3, <1>4, WorkersSame DEF OwnParts, OneTask

LEMMA DestroyNextKeeps ==
  ASSUME WInv, OwnParts, DestroyNext
  PROVE  OwnParts'
<1>1. /\ pc = "destroying" /\ pos <= Len(indices) /\ pc' = "joining"
      /\ IF isThreaded THEN Stop(indices[pos]) ELSE UNCHANGED workers
      /\ UNCHANGED <<isThreaded, target, pos, calls, indices, deleted>>
  BY DEF DestroyNext, mode, shards, count
<1> PICK v \in Workers : v = indices[pos]
  BY <1>1, PlacesOf DEF OwnParts
<1>2. \A w \in Workers : Quiet(w)'
  <2>1. \A w \in Workers : Quiet(w)
    BY <1>1, AllQuiet
  <2> QED BY <1>1, <2>1, QuietStays, WorkersSame
<1>3. Shapes' /\ Stations'
  BY <1>1, PlacesOf DEF OwnParts, Shapes, Stations, count
<1>4. \A w \in Workers : Threadless(w) => thread'[w] = thread[w]
  BY <1>1, ThreadlessStays, WorkersSame
<1>5. \A i \in 1 .. pos - 1 : indices[i] \in Workers
  BY <1>1, PlacesOf DEF OwnParts
<1>6. ThreadsOwned'
  BY <1>1, <1>4, <1>5, WorkersSame DEF OwnParts, Shapes, ThreadsOwned, Threadless
<1> QED BY <1>2, <1>3, <1>6 DEF OwnParts, OneTask

LEMMA DestroyJoinedKeeps ==
  ASSUME WInv, OwnParts, DestroyJoined
  PROVE  OwnParts'
<1>1. /\ pc = "joining" /\ (isThreaded => Joined(indices[pos])) /\ pc' = "destroying"
      /\ pos' = pos + 1 /\ deleted' \in {deleted, deleted \cup {indices[pos]}}
      /\ pos <= Len(indices)
      /\ UNCHANGED workers /\ UNCHANGED <<isThreaded, target, calls, indices>>
  BY DEF DestroyJoined, mode, OwnParts, Stations, count
<1>2. indices[pos] \in Workers
  BY <1>1, PlacesOf DEF OwnParts
<1>3. \A w \in Workers : Quiet(w)
  BY <1>1, AllQuiet
<1>4. Shapes' /\ Stations'
  BY <1>1, <1>2, PlacesOf DEF OwnParts, Shapes, Stations, count
<1>5. Threadless(indices[pos])
  BY <1>1, <1>2 DEF Joined, Threadless, OwnParts, ThreadsOwned
<1>6. ASSUME NEW i \in 1 .. pos' - 1 PROVE Threadless(indices[i])
  <2>1. i \in 1 .. pos - 1 \/ i = pos
    BY <1>1, PlacesOf DEF OwnParts
  <2> QED BY <1>1, <1>5, <2>1 DEF OwnParts, ThreadsOwned
<1>7. ThreadsOwned'
  BY <1>1, <1>5, <1>6, WorkersSame DEF OwnParts, ThreadsOwned
<1> QED BY <1>1, <1>3, <1>4, <1>7, WorkersSame DEF OwnParts, OneTask

LEMMA DestroyedKeeps ==
  ASSUME WInv, OwnParts, Destroyed
  PROVE  OwnParts'
<1>1. /\ pc = "destroying" /\ pos > Len(indices) /\ pc' = "destroyed"
      /\ UNCHANGED workers
      /\ UNCHANGED <<isThreaded, target, pos, calls, indices, deleted>>
  BY DEF Destroyed, mode, shards, count
<1>2. \A w \in Workers : Quiet(w)
  BY <1>1, AllQuiet
<1>3. Shapes' /\ Stations'
  BY <1>1, PlacesOf DEF OwnParts, Shapes, Stations
<1>4. ASSUME NEW w \in Workers PROVE Threadless(w)
  <2>1. CASE w \in ToSet(indices)
    <3>1. PICK i \in 1 .. Len(indices) : indices[i] = w
      BY <2>1, PlacesOf DEF OwnParts
    <3>2. i \in 1 .. pos - 1
      BY <1>1, PlacesOf DEF OwnParts
    <3> QED BY <1>1, <3>1, <3>2 DEF OwnParts, ThreadsOwned
  <2>2. CASE w \notin ToSet(indices)
    BY <1>1, <2>2 DEF OwnParts, ThreadsOwned
  <2> QED BY <2>1, <2>2
<1>5. ThreadsOwned'
  BY <1>1, <1>4, WorkersSame DEF OwnParts, ThreadsOwned
<1> QED BY <1>1, <1>2, <1>3, <1>5, WorkersSame DEF OwnParts, OneTask

-----------------------------------------------------------------------------
(* The calls of an index are uses of the workers.                          *)

LEMMA CallerUses ==
  ASSUME IInv, Caller
  PROVE  [WorkersNext]_workers
<1> USE DEF WorkersNext
<1>1. CASE PostEmptyTask
  <2>1. pc = "starting" /\ Add(target, Task(target)) /\ OwnParts
    BY <1>1 DEF PostEmptyTask, IInv
  <2>2. target \in Workers /\ Task(target) \in Tasks
    BY <2>1, PlacesOf, ShardsAssumption DEF OwnParts, Stations, Task, Shapes
  <2> QED BY <2>1, <2>2
<1>2. CASE Post
  <2>1. pc = "posting" /\ Add(indices[pos], Task(indices[pos])) /\ OwnParts
    BY <1>2 DEF Post, IInv
  <2>2. indices[pos] \in Workers
    BY <2>1, PlacesOf DEF OwnParts, Stations, count
  <2>3. Task(indices[pos]) \in Tasks
    BY <2>1, <2>2, PlacesOf, ShardsAssumption DEF OwnParts, Stations, Task, Shapes
  <2> QED BY <2>1, <2>2, <2>3
<1>3. CASE DestroyNext
  <2>1. /\ pc = "destroying" /\ pos <= Len(indices) /\ OwnParts
        /\ Stop(indices[pos]) \/ UNCHANGED workers
    BY <1>3 DEF DestroyNext, count, IInv
  <2>2. indices[pos] \in Workers
    BY <2>1, PlacesOf DEF OwnParts
  <2> QED BY <2>1, <2>2
<1>4. CASE FinishAddIndex
  BY <1>4 DEF FinishAddIndex
<1>5. CASE GetFuture
  BY <1>5 DEF GetFuture
<1>6. CASE RunHere
  BY <1>6 DEF RunHere
<1>7. CASE FinishRun
  BY <1>7 DEF FinishRun
<1>8. CASE FinishRemoveIndex
  BY <1>8 DEF FinishRemoveIndex
<1>9. CASE DestroyJoined
  BY <1>9 DEF DestroyJoined
<1>10. CASE Destroyed
  BY <1>10 DEF Destroyed
<1> QED BY <1>1, <1>2, <1>3, <1>4, <1>5, <1>6, <1>7, <1>8, <1>9, <1>10 DEF Caller

LEMMA NextUses ==
  ASSUME IInv, [Next]_vars
  PROVE  [WorkersNext]_workers
<1>1. CASE Caller
  BY <1>1, CallerUses
<1> USE DEF WorkersNext
<1>2. ASSUME NEW w \in Workers, AddIndex(w) PROVE [WorkersNext]_workers
  BY <1>2 DEF AddIndex
<1>3. ASSUME NEW w \in Workers, RemoveIndex(w) PROVE [WorkersNext]_workers
  BY <1>3 DEF RemoveIndex
<1>4. ASSUME NEW what, RunOnIndex(what) PROVE [WorkersNext]_workers
  BY <1>4 DEF RunOnIndex
<1>5. CASE Destroy \/ SearchNothing
  BY <1>5 DEF Destroy, SearchNothing
<1>6. CASE Others
  <2>1. PICK w \in Workers :
          \/ StartThread(w) \/ Stop(w)
          \/ calls < MaxCalls /\ calls' = calls + 1 /\ Add(w, <<calls', w>>)
    BY <1>6 DEF Others
  <2>2. CASE StartThread(w) \/ Stop(w)
    BY <2>2
  <2>3. CASE calls < MaxCalls /\ calls' = calls + 1 /\ Add(w, <<calls', w>>)
    <3>1. calls' \in 1 .. MaxCalls
      BY <1>6, <2>3, ShardsAssumption DEF IInv, Others
    <3>2. <<calls', w>> \in Tasks
      BY <3>1, ShardsAssumption
    <3> QED BY <2>3, <3>2
  <2> QED BY <2>1, <2>2, <2>3
<1>7. ASSUME NEW w \in Workers, WorkerStep(w) \/ Execute(w) \/ WakeSpuriously(w)
      PROVE  [WorkersNext]_workers
  BY <1>7 DEF WorkerStep, Execute, Answers
<1>8. CASE UNCHANGED vars
  BY <1>8 DEF vars
<1> QED BY <1>1, <1>2, <1>3, <1>4, <1>5, <1>6, <1>7, <1>8 DEF Next

LEMMA OwnPartsStep ==
  ASSUME WInv, OwnParts, owner = "index", Next
  PROVE  OwnParts' /\ owner' = "index"
<1>1. CASE Caller
  <2>1. owner' = owner
    BY <1>1 DEF Caller, PostEmptyTask, FinishAddIndex, Post, GetFuture, RunHere, FinishRun,
       FinishRemoveIndex, DestroyNext, DestroyJoined, Destroyed, mode
  <2> QED BY <1>1, <2>1, PostEmptyTaskKeeps, FinishAddIndexKeeps, PostKeeps,
             GetFutureKeeps, RunHereKeeps, FinishRunKeeps, FinishRemoveIndexKeeps,
             DestroyNextKeeps, DestroyJoinedKeeps, DestroyedKeeps DEF Caller
<1>2. ASSUME NEW w \in Workers, AddIndex(w) \/ RemoveIndex(w)
      PROVE  OwnParts' /\ owner' = "index"
  <2>1. owner' = owner
    BY <1>2 DEF AddIndex, RemoveIndex, mode
  <2> QED BY <1>2, <2>1, AddIndexKeeps, RemoveIndexKeeps
<1>3. ASSUME NEW what, RunOnIndex(what)
      PROVE  OwnParts' /\ owner' = "index"
  <2>1. owner' = owner
    BY <1>3 DEF RunOnIndex, mode
  <2> QED BY <1>3, <2>1, RunOnIndexKeeps
<1>4. CASE Destroy \/ SearchNothing
  <2>1. owner' = owner
    BY <1>4 DEF Destroy, SearchNothing, mode
  <2> QED BY <1>4, <2>1, DestroyKeeps, SearchNothingKeeps
<1>5. ASSUME NEW w \in Workers,
             \/ WorkerStep(w) \/ Execute(w)
             \/ WakeSpuriously(w) /\ UNCHANGED <<mode, caller, shards>>
      PROVE  OwnParts' /\ owner' = "index"
  <2>1. Moves(w) /\ UNCHANGED <<mode, caller, indices, deleted>>
    BY <1>5 DEF WorkerStep, Execute, Moves, shards, Answers
  <2>2. owner' = owner
    BY <2>1 DEF mode
  <2> QED BY <2>1, <2>2, MoveKeeps
<1> QED BY <1>1, <1>2, <1>3, <1>4, <1>5 DEF Next, Others

LEMMA NextIInv == IInv /\ [Next]_vars => IInv'
<1> SUFFICES ASSUME IInv, [Next]_vars PROVE IInv'
  OBVIOUS
<1>1. WInv'
  BY NextUses, NextWInv DEF IInv
<1>2. CASE UNCHANGED vars
  BY <1>1, <1>2 DEF IInv, OwnParts, Shapes, Stations, OneTask, ThreadsOwned, Threadless,
     Quiet, Awaited, Asked, Task, count, vars, workers, control, tasks, mode, caller, shards
<1>3. CASE Next /\ owner = "index"
  BY <1>1, <1>3, OwnPartsStep DEF IInv
<1>4. CASE Next /\ owner = "others"
  <2>1. pc = "idle" /\ calls \in 0 .. MaxCalls
    BY <1>4 DEF IInv
  <2>2. \/ Others
        \/ \E w \in Workers : \/ WorkerStep(w) \/ Execute(w)
                              \/ WakeSpuriously(w) /\ UNCHANGED <<mode, caller, shards>>
    BY <1>4, <2>1 DEF Next, Caller, PostEmptyTask, FinishAddIndex, Post, GetFuture, RunHere,
       FinishRun, FinishRemoveIndex, DestroyNext, DestroyJoined, Destroyed, AddIndex,
       RemoveIndex, RunOnIndex, SearchNothing, Destroy, Call, Idle
  <2>3. owner' = owner /\ pc' = pc
    BY <2>2 DEF Others, WorkerStep, Execute, mode, caller
  <2>4. calls' \in 0 .. MaxCalls
    <3>1. calls' = calls \/ (calls < MaxCalls /\ calls' = calls + 1)
      BY <2>2 DEF Others, WorkerStep, Execute, caller
    <3> QED BY <2>1, <3>1, ShardsAssumption
  <2> QED BY <1>1, <1>4, <2>1, <2>3, <2>4 DEF IInv
<1> QED BY <1>2, <1>3, <1>4 DEF IInv

LEMMA SpecIInv == Spec => []IInv
<1>1. Init => IInv
  BY InitIInv
<1> QED BY <1>1, NextIInv, PTL DEF Spec

(* Whether an index or other threads use them, the workers are only ever   *)
(* used as WorkerThread allows: each step of IndexShards is a step of the  *)
(* threads or leaves them alone, so the threads lose no wake-up, break no  *)
(* promise and keep their queue at rest while it is read without the mutex.*)
THEOREM WorkersWellUsed == Spec => [](WInv /\ PromisesHeld) /\ QuietQueue
<1>1. Init => WInv /\ PromisesHeld
  BY InitWInv DEF Init
<1>2. IInv /\ PromisesHeld /\ [Next]_vars => PromisesHeld'
  BY NextUses, PromisesStep DEF IInv
<1>3. IInv => WInv
  BY DEF IInv
<1>4. IInv /\ [Next]_vars =>
        [\A w \in Workers : thread[w] = "flushing" => queue'[w] = queue[w]]_workers
  BY NextUses, QuietStep DEF IInv
<1> QED BY <1>1, <1>2, <1>3, <1>4, SpecIInv, PTL DEF Spec, QuietQueue

(* The steps of the workers under an index are steps of TaskQueue.         *)
THEOREM IndexQueueSteps == Spec => TQ!QueueInit /\ [][TQ!QueueNext]_TQ!queues
<1>1. Init => TQ!QueueInit
  BY InitRefines DEF Init
<1>2. IInv /\ [Next]_vars => [TQ!QueueNext]_TQ!queues
  BY NextUses, NextRefines DEF IInv
<1> QED BY <1>1, <1>2, SpecIInv, PTL DEF Spec

(* For any number of sub-indexes and calls: once a call has returned,      *)
(* whatever the tasks threw, nothing of it is queued or running; a         *)
(* sub-index that was taken out has no thread, and none runs on a deleted  *)
(* one.                                                                    *)
THEOREM CallsAreQuiet == Spec => []QuietCalls
<1>1. ASSUME IInv, owner = "index", NEW w \in Workers, Quiet(w)
      PROVE  current[w] = NoTask /\ Waiting(w) = <<>>
  <2>1. queue[w] \in Seq(Tasks) /\ next[w] \in Nat /\ next[w] > Len(queue[w])
    BY <1>1 DEF Quiet, IInv, WInv, WorkersTypeOK
  <2>2. Len(queue[w]) \in Nat
    BY <2>1, LenProperties
  <2> QED BY <1>1, <2>1, <2>2, SubSeqEmpty DEF Quiet, Waiting
<1>2. ASSUME IInv, owner = "index", NEW w \in deleted
      PROVE  current[w] = NoTask
  <2>1. w \in Workers /\ Threadless(w)
    BY <1>2 DEF IInv, OwnParts, Shapes, ThreadsOwned
  <2> QED BY <1>2, <2>1 DEF Threadless, IInv, WInv, Places, Unstarted, AtEnd
<1>3. ASSUME IInv, owner = "index", pc \in {"idle", "destroyed"}, NEW w \in Workers
      PROVE  /\ Quiet(w)
             /\ w \notin ToSet(indices) \/ pc = "destroyed" => thread[w] \in {"none", "exited"}
  <2>1. Quiet(w)
    BY <1>3, AllQuiet DEF IInv
  <2>2. w \notin ToSet(indices) \/ pc = "destroyed" => Threadless(w)
    BY <1>3 DEF IInv, OwnParts, ThreadsOwned
  <2> QED BY <2>1, <2>2 DEF Threadless
<1>4. IInv => QuietCalls
  BY <1>1, <1>2, <1>3 DEF QuietCalls
<1> QED BY <1>4, SpecIInv, PTL
-----------------------------------------------------------------------------
(***************************************************************************)
(* Where the vectors are.  First the arithmetic of the slices: the bounds  *)
(* no * n / nshard cut 0 .. n - 1 into consecutive pieces.                 *)
(***************************************************************************)
LEMMA Quotient ==
  ASSUME NEW x \in Nat, NEW c \in Nat \ {0}
  PROVE  /\ x \div c \in Nat /\ c * (x \div c) \in Nat
         /\ c * (x \div c) <= x /\ x < c * (x \div c) + c
<1>1. /\ x \div c \in Nat /\ x % c \in 0 .. c - 1
      /\ x = c * (x \div c) + (x % c)
  OBVIOUS
<1>2. c * (x \div c) \in Nat
  BY <1>1
<1> QED BY <1>1, <1>2

LEMMA Multiples ==
  ASSUME NEW c \in Nat, NEW q \in Nat, NEW r \in Nat, q < r
  PROVE  c * q + c <= c * r
<1>1. PICK d \in Nat : r = q + 1 + d
  <2>1. r - q - 1 \in Nat /\ r = q + 1 + (r - q - 1)
    OBVIOUS
  <2> QED BY <2>1
<1>2. c * r = c * q + c + c * d /\ c * d \in Nat /\ c * q \in Nat
  BY <1>1
<1> QED BY <1>2

LEMMA QuotientsGrow ==
  ASSUME NEW x \in Nat, NEW y \in Nat, x <= y, NEW c \in Nat \ {0}
  PROVE  x \div c <= y \div c
<1>1. PICK q \in Nat, r \in Nat : q = x \div c /\ r = y \div c
  BY Quotient
<1>2. /\ c * q \in Nat /\ c * r \in Nat /\ c * q <= x /\ y < c * r + c
  BY <1>1, Quotient
<1>3. r < q => c * r + c <= c * q
  BY Multiples
<1>4. ~(r < q)
  BY <1>2, <1>3
<1> QED BY <1>1, <1>4

LEMMA QuotientExact ==
  ASSUME NEW b \in Nat, NEW c \in Nat \ {0}
  PROVE  (c * b) \div c = b
<1>1. PICK x \in Nat : x = c * b
  OBVIOUS
<1>2. PICK q \in Nat : q = x \div c
  BY Quotient
<1>3. c * q \in Nat /\ c * q <= x /\ x < c * q + c
  BY <1>2, Quotient
<1>4. ~(q < b)
  <2>1. q < b => c * q + c <= c * b
    BY Multiples
  <2> QED BY <1>1, <1>3, <2>1
<1>5. ~(b < q)
  <2>1. b < q => c * b + c <= c * q
    BY Multiples
  <2> QED BY <1>1, <1>3, <2>1
<1> QED BY <1>1, <1>2, <1>4, <1>5

Cut(i, c) == (i * Batch) \div c

(* A nonempty set of numbers has a least one, and an interval is reached   *)
(* step by step.                                                           *)
LEMMA Least ==
  ASSUME NEW S \in SUBSET Nat, NEW m \in S
  PROVE  \E k \in S : \A i \in S : k <= i
<1>1. ASSUME NEW i \in Nat, NEW k \in Nat, i < k PROVE <<i, k>> \in OpToRel(<, Nat)
  BY <1>1 DEF OpToRel
<1>2. PICK k \in S : \A i \in S : ~(<<i, k>> \in OpToRel(<, Nat))
  BY NatLessThanWellFounded, WFMin
<1>3. ASSUME NEW i \in S PROVE k <= i
  <2>1. ~(i < k)
    BY <1>1, <1>2
  <2> QED BY <2>1
<1> QED BY <1>3

LEMMA UpTo ==
  ASSUME NEW a \in Nat, NEW b \in Nat, NEW S, a \in S,
         \A k \in a .. b - 1 : k \in S => k + 1 \in S
  PROVE  \A k \in a .. b : k \in S
<1> SUFFICES ASSUME NEW k \in a .. b, k \notin S PROVE FALSE
  OBVIOUS
<1> DEFINE C == {i \in a .. b : i \notin S}
<1>1. C \in SUBSET Nat /\ k \in C
  OBVIOUS
<1>2. PICK i \in C : \A j \in C : i <= j
  BY <1>1, Least
<1>3. i # a /\ i \in Nat /\ i <= b /\ a <= i
  BY <1>1, <1>2
<1>4. i - 1 \in a .. b - 1 /\ i - 1 \in S
  BY <1>2, <1>3
<1> QED BY <1>2, <1>3, <1>4

LEMMA Cuts ==
  ASSUME NEW c \in Nat \ {0}
  PROVE  /\ \A i \in Nat : Cut(i, c) \in Nat
         /\ Cut(0, c) = 0 /\ Cut(c, c) = Batch
         /\ \A i, k \in Nat : i <= k => Cut(i, c) <= Cut(k, c)
<1>1. Batch \in Nat
  BY ShardsAssumption
<1>2. \A i \in Nat : i * Batch \in Nat
  BY <1>1
<1>3. \A i \in Nat : Cut(i, c) \in Nat
  BY <1>2, Quotient DEF Cut
<1>4. Cut(0, c) = 0
  <2>1. 0 * Batch = 0 /\ c * 0 = 0
    BY <1>1
  <2> QED BY <2>1, QuotientExact DEF Cut
<1>5. Cut(c, c) = Batch
  BY <1>1, QuotientExact DEF Cut
<1>6. ASSUME NEW i \in Nat, NEW k \in Nat, i <= k PROVE Cut(i, c) <= Cut(k, c)
  <2>1. PICK d \in Nat : k = i + d
    <3>1. k - i \in Nat /\ k = i + (k - i)
      BY <1>6
    <3> QED BY <3>1
  <2>2. k * Batch = i * Batch + d * Batch /\ d * Batch \in Nat
    BY <1>1, <2>1
  <2>3. i * Batch <= k * Batch
    BY <1>2, <2>2
  <2> QED BY <1>2, <2>3, QuotientsGrow DEF Cut
<1> QED BY <1>3, <1>4, <1>5, <1>6

(* Each of the n is in a piece.                                            *)
LEMMA PieceOf ==
  ASSUME NEW c \in Nat \ {0}, NEW x \in 0 .. Batch - 1
  PROVE  \E i \in 1 .. c : Cut(i - 1, c) <= x /\ x < Cut(i, c)
<1> DEFINE S == {i \in 0 .. c : x < Cut(i, c)}
<1>1. S \in SUBSET Nat /\ c \in S
  BY Cuts, ShardsAssumption
<1>2. PICK i \in S : \A k \in S : i <= k
  BY <1>1, Least
<1>3. i # 0
  BY <1>2, Cuts
<1>4. i \in 1 .. c /\ i - 1 \in 0 .. c /\ i - 1 \notin S
  BY <1>2, <1>3
<1>5. Cut(i - 1, c) \in Nat
  BY <1>4, Cuts
<1>6. Cut(i - 1, c) <= x
  BY <1>4, <1>5
<1> QED BY <1>2, <1>4, <1>6

-----------------------------------------------------------------------------
(* A function defined at each place from its value at the place before.    *)
Recurrent(g, b, base, step) ==
  g = [k \in 0 .. b |-> IF k = 0 THEN base ELSE step[k][g[k - 1]]]

LEMMA Recursion ==
  ASSUME NEW b \in Nat, NEW X, NEW base \in X, NEW step \in [1 .. b -> [X -> X]]
  PROVE  \E g \in [0 .. b -> X] : Recurrent(g, b, base, step)
<1> DEFINE Reached(m) == \E g \in [0 .. m -> X] : Recurrent(g, m, base, step)
           S == {m \in 0 .. b : Reached(m)}
<1>1. Reached(0)
  <2> DEFINE g == [k \in 0 .. 0 |-> base]
  <2>1. g \in [0 .. 0 -> X] /\ Recurrent(g, 0, base, step)
    BY DEF Recurrent
  <2> QED BY <2>1
<1>2. ASSUME NEW m \in 0 .. b - 1, Reached(m) PROVE Reached(m + 1)
  <2>1. PICK g \in [0 .. m -> X] : Recurrent(g, m, base, step)
    BY <1>2
  <2> DEFINE h == [k \in 0 .. m + 1 |-> IF k = m + 1 THEN step[m + 1][g[m]] ELSE g[k]]
  <2>2. m \in Nat /\ m + 1 \in 1 .. b /\ m \in 0 .. m
    OBVIOUS
  <2>3. step[m + 1] \in [X -> X] /\ g[m] \in X
    BY <2>1, <2>2
  <2>4. h \in [0 .. m + 1 -> X]
    BY <2>1, <2>2, <2>3
  <2>5. ASSUME NEW k \in 0 .. m + 1
        PROVE  h[k] = IF k = 0 THEN base ELSE step[k][h[k - 1]]
    <3>1. CASE k = m + 1
      BY <2>2, <3>1
    <3>2. CASE k \in 0 .. m
      <4>1. g[k] = IF k = 0 THEN base ELSE step[k][g[k - 1]]
        BY <2>1, <3>2 DEF Recurrent
      <4>2. h[k] = g[k] /\ (k # 0 => k - 1 \in 0 .. m /\ h[k - 1] = g[k - 1])
        BY <2>2, <3>2
      <4> QED BY <4>1, <4>2
    <3> QED BY <2>2, <3>1, <3>2
  <2> HIDE DEF h
  <2>6. Recurrent(h, m + 1, base, step)
    BY <2>4, <2>5 DEF Recurrent
  <2> QED BY <2>4, <2>6
<1> HIDE DEF Reached
<1>3. \A k \in 0 .. b : k \in S
  <2>1. 0 \in S
    BY <1>1
  <2>2. \A k \in 0 .. b - 1 : k \in S => k + 1 \in S
    BY <1>2
  <2> HIDE DEF S
  <2> QED BY <2>1, <2>2, UpTo
<1>4. Reached(b)
  BY <1>3
<1> QED BY <1>4 DEF Reached

(* What translations returns                                               *)
Measured(which, holding, n) == \A i \in 1 .. n : Len(holding[which[i]]) \in Nat

SumsOf(t, which, holding, n) ==
  /\ t \in [0 .. n -> Nat] /\ t[0] = 0
  /\ \A i \in 1 .. n : t[i] = t[i - 1] + Len(holding[which[i]])

LEMMA TranslationsAre ==
  ASSUME NEW n \in Nat, NEW which, Len(which) = n, NEW holding, Measured(which, holding, n)
  PROVE  SumsOf(translations(which, holding), which, holding, n)
<1> USE DEF Measured
<1> DEFINE t == translations(which, holding)
           step == [i \in 1 .. n |-> [x \in Nat |-> x + Len(holding[which[i]])]]
           Rule(s) == s = [i \in 0 .. n |->
                             IF i = 0 THEN 0 ELSE s[i - 1] + Len(holding[which[i]])]
<1>1. step \in [1 .. n -> [Nat -> Nat]]
  OBVIOUS
<1>2. \A i \in 1 .. n, x \in Nat : step[i][x] = x + Len(holding[which[i]])
  OBVIOUS
<1> HIDE DEF step
<1>3. PICK g \in [0 .. n -> Nat] : Recurrent(g, n, 0, step)
  BY <1>1, Recursion, Zenon
<1>4. ASSUME NEW i \in 0 .. n
      PROVE  g[i] = IF i = 0 THEN 0 ELSE g[i - 1] + Len(holding[which[i]])
  <2>1. g[i] = IF i = 0 THEN 0 ELSE step[i][g[i - 1]]
    BY <1>3 DEF Recurrent
  <2>2. i # 0 => i \in 1 .. n /\ g[i - 1] \in Nat
    BY <1>3
  <2> QED BY <1>2, <2>1, <2>2
<1>5. Rule(g)
  BY <1>3, <1>4
<1> HIDE DEF Rule
<1>6. t = CHOOSE s : Rule(s)
  BY DEF translations, Rule
<1>7. Rule(t)
  BY <1>5, <1>6
<1>8. t = [i \in 0 .. n |-> IF i = 0 THEN 0 ELSE t[i - 1] + Len(holding[which[i]])]
  BY <1>7 DEF Rule
<1> HIDE DEF t
<1>9. t[0] = 0 /\ \A i \in 1 .. n : t[i] = t[i - 1] + Len(holding[which[i]])
  BY <1>8
<1>10. \A i \in 0 .. n : t[i] \in Nat
  <2> DEFINE S == {k \in 0 .. n : t[k] \in Nat}
  <2>1. 0 \in S
    BY <1>9
  <2>2. \A k \in 0 .. n - 1 : k \in S => k + 1 \in S
    <3> SUFFICES ASSUME NEW k \in 0 .. n - 1, t[k] \in Nat PROVE k + 1 \in S
      OBVIOUS
    <3>1. k + 1 \in 1 .. n /\ (k + 1) - 1 = k
      OBVIOUS
    <3>2. t[k + 1] = t[k] + Len(holding[which[k + 1]]) /\ Len(holding[which[k + 1]]) \in Nat
      BY <1>9, <3>1
    <3> QED BY <3>1, <3>2
  <2> HIDE DEF S
  <2>3. \A k \in 0 .. n : k \in S
    BY <2>1, <2>2, UpTo
  <2> QED BY <2>3 DEF S
<1>11. t \in [0 .. n -> Nat]
  BY <1>8, <1>10
<1> QED BY <1>9, <1>11 DEF t, SumsOf

(* Two lists of sub-indexes, the second d places behind from the a-th on:  *)
(* if they hold as many there, the sums stay in the same relation.         *)
SameSteps(u, t, a, b, d) ==
  \A i \in a + 1 .. b : u[i] - u[i - 1] = t[i + d] - t[i + d - 1]

Follow(u, t, a, b, d) == \A i \in a .. b : u[i] = t[i + d]

LEMMA TranslationsFollow ==
  ASSUME NEW n \in Nat, NEW t \in [0 .. n -> Nat], NEW m \in Nat, NEW u \in [0 .. m -> Nat],
         NEW a \in Nat, NEW b \in Nat, NEW d \in Nat, b <= m, b + d <= n, a <= b,
         u[a] = t[a + d], SameSteps(u, t, a, b, d)
  PROVE  Follow(u, t, a, b, d)
<1> USE DEF SameSteps, Follow
<1> DEFINE S == {k \in a .. b : u[k] = t[k + d]}
<1>1. a \in S
  OBVIOUS
<1>2. \A k \in a .. b - 1 : k \in S => k + 1 \in S
  <2> SUFFICES ASSUME NEW k \in a .. b - 1, u[k] = t[k + d] PROVE k + 1 \in S
    OBVIOUS
  <2>1. /\ k + 1 \in a + 1 .. b /\ (k + 1) - 1 = k /\ (k + 1) + d - 1 = k + d
        /\ k \in 0 .. m /\ k + 1 \in 0 .. m /\ k + d \in 0 .. n /\ (k + 1) + d \in 0 .. n
    OBVIOUS
  <2>2. u[k + 1] - u[k] = t[(k + 1) + d] - t[k + d]
    BY <2>1
  <2>3. /\ u[k] \in Nat /\ u[k + 1] \in Nat /\ t[k + d] \in Nat /\ t[(k + 1) + d] \in Nat
    BY <2>1
  <2>4. u[k + 1] = t[(k + 1) + d]
    <3>1. PICK w \in Nat, x \in Nat, y \in Nat, z \in Nat :
            w = u[k] /\ x = u[k + 1] /\ y = t[k + d] /\ z = t[(k + 1) + d]
      BY <2>3
    <3>2. x - w = z - y /\ w = y
      BY <2>2, <3>1
    <3>3. x = z
      BY <3>2
    <3> QED BY <3>1, <3>3
  <2> QED BY <2>1, <2>4
<1> HIDE DEF S
<1>3. \A k \in a .. b : k \in S
  BY <1>1, <1>2, UpTo
<1> QED BY <1>3 DEF S

-----------------------------------------------------------------------------
(***************************************************************************)
(* Spread(which, holding, n): each of the n vectors is in one of the       *)
(* sub-indexes of which, under its number, and with successive_ids at the  *)
(* place its number says.                                                  *)
(***************************************************************************)
Stored == [id : Nat, vector : Nat]

Kept(holding, n) ==
  \A w \in Workers :
    /\ Len(holding[w]) <= n
    /\ \A j \in 1 .. Len(holding[w]) :
         holding[w][j].vector \in 0 .. n - 1 /\ holding[w][j].id = holding[w][j].vector

Single(holding) ==
  \A w, u \in Workers : \A j \in 1 .. Len(holding[w]), k \in 1 .. Len(holding[u]) :
    holding[w][j].vector = holding[u][k].vector => w = u /\ j = k

Complete(holding, n) ==
  \A v \in 0 .. n - 1 : \E w \in Workers : \E j \in 1 .. Len(holding[w]) :
    holding[w][j].vector = v

InOrder(which, holding) ==
  \A i \in 1 .. Len(which) : \A j \in 1 .. Len(holding[which[i]]) :
    holding[which[i]][j].vector = translations(which, holding)[i - 1] + j - 1

Spread(which, holding, n) ==
  /\ which \in Seq(Workers) /\ IsInjective(which)
  /\ holding \in [Workers -> Seq(Stored)] /\ n \in Nat
  /\ \A w \in Workers \ ToSet(which) : holding[w] = <<>>
  /\ Kept(holding, n) /\ Single(holding) /\ Complete(holding, n)
  /\ successive_ids => InOrder(which, holding)
  /\ translations(which, holding)[Len(which)] = n

LEMMA Places1 ==
  ASSUME NEW which \in Seq(Workers), IsInjective(which),
         NEW holding \in [Workers -> Seq(Stored)]
  PROVE  /\ Len(which) \in Nat /\ DOMAIN which = 1 .. Len(which)
         /\ \A i \in 1 .. Len(which) : which[i] \in Workers /\ which[i] \in ToSet(which)
         /\ \A i, k \in 1 .. Len(which) : which[i] = which[k] => i = k
         /\ \A w \in ToSet(which) : \E i \in 1 .. Len(which) : which[i] = w
         /\ \A w \in Workers : Len(holding[w]) \in Nat
         /\ \A i \in 1 .. Len(which) : Len(holding[which[i]]) \in Nat
<1>1. Len(which) \in Nat /\ DOMAIN which = 1 .. Len(which)
  BY LenProperties
<1>2. \A i \in 1 .. Len(which) : which[i] \in Workers
  BY ElementOfSeq
<1>3. \A w \in Workers : Len(holding[w]) \in Nat
  BY LenProperties
<1> QED BY <1>1, <1>2, <1>3 DEF IsInjective, ToSet

LEMMA Sums ==
  ASSUME NEW which \in Seq(Workers), IsInjective(which),
         NEW holding \in [Workers -> Seq(Stored)], NEW n, n = Len(which)
  PROVE  n \in Nat /\ SumsOf(translations(which, holding), which, holding, n)
<1>1. n \in Nat /\ \A i \in 1 .. n : Len(holding[which[i]]) \in Nat
  BY Places1
<1>2. Measured(which, holding, n)
  BY <1>1 DEF Measured
<1> QED BY <1>1, <1>2, TranslationsAre

(* An empty index, whatever sub-indexes it has.                            *)
LEMMA SpreadEmpty ==
  ASSUME NEW which \in Seq(Workers), IsInjective(which),
         NEW holding, holding = [w \in Workers |-> <<>>]
  PROVE  Spread(which, holding, 0)
<1>1. holding \in [Workers -> Seq(Stored)] /\ \A w \in Workers : Len(holding[w]) = 0
  OBVIOUS
<1>2. PICK n \in Nat : n = Len(which)
  BY Places1, <1>1
<1>3. \A i \in 1 .. n : Len(holding[which[i]]) = 0
  BY <1>1, <1>2, Places1
<1>4. PICK t \in [0 .. n -> Nat] :
        /\ t = translations(which, holding) /\ t[0] = 0
        /\ \A i \in 1 .. n : t[i] = t[i - 1] + 0
  <2>1. PICK t : t = translations(which, holding)
    OBVIOUS
  <2>2. SumsOf(t, which, holding, n)
    BY <1>1, <1>2, <2>1, Sums
  <2> USE DEF SumsOf
  <2>3. \A i \in 1 .. n : t[i] = t[i - 1] + 0
    BY <1>3, <2>2
  <2> QED BY <2>1, <2>2, <2>3
<1>5. t[n] = 0
  <2> DEFINE S == {k \in 0 .. n : t[k] = 0}
  <2>1. 0 \in S
    BY <1>4
  <2>2. \A k \in 0 .. n - 1 : k \in S => k + 1 \in S
    <3> SUFFICES ASSUME NEW k \in 0 .. n - 1, t[k] = 0 PROVE k + 1 \in S
      OBVIOUS
    <3>1. k + 1 \in 1 .. n /\ (k + 1) - 1 = k
      OBVIOUS
    <3>2. t[k + 1] = t[k] + 0
      BY <1>4, <3>1
    <3> QED BY <3>1, <3>2
  <2> HIDE DEF S
  <2>3. \A k \in 0 .. n : k \in S
    BY <2>1, <2>2, UpTo
  <2> QED BY <2>3 DEF S
<1>6. Kept(holding, 0) /\ Single(holding) /\ Complete(holding, 0)
  BY <1>1 DEF Kept, Single, Complete
<1>7. InOrder(which, holding)
  BY <1>2, <1>3 DEF InOrder
<1> QED BY <1>1, <1>2, <1>4, <1>5, <1>6, <1>7 DEF Spread

(* Only which sub-indexes there are changes.                               *)
LEMMA SpreadElsewhere ==
  ASSUME NEW which, NEW holding, NEW n, Spread(which, holding, n),
         NEW those \in Seq(Workers), IsInjective(those),
         \A w \in Workers \ ToSet(those) : holding[w] = <<>>,
         translations(those, holding)[Len(those)] = n,
         successive_ids => InOrder(those, holding)
  PROVE  Spread(those, holding, n)
BY DEF Spread

(* A sub-index without vectors joins the others, behind them.              *)
LEMMA SpreadJoin ==
  ASSUME NEW which, NEW holding, NEW n, Spread(which, holding, n),
         NEW w \in Workers \ ToSet(which)
  PROVE  /\ Spread(Append(which, w), holding, n)
<1>1. /\ which \in Seq(Workers) /\ IsInjective(which) /\ holding[w] = <<>>
      /\ holding \in [Workers -> Seq(Stored)] /\ n \in Nat
  BY DEF Spread
<1>2. PICK those \in Seq(Workers) : those = Append(which, w)
  BY <1>1, AppendProperties
<1>3. IsInjective(those) /\ ToSet(those) = ToSet(which) \cup {w}
  BY <1>1, <1>2, JoinedIn
<1>4. PICK m \in Nat : m = Len(which)
  BY <1>1, LenProperties
<1>5. /\ Len(those) = m + 1 /\ those[m + 1] = w
      /\ \A i \in 1 .. m : those[i] = which[i]
  BY <1>1, <1>2, <1>4, AppendProperties
<1>6. PICK t \in [0 .. m -> Nat] :
        /\ t = translations(which, holding) /\ t[0] = 0
        /\ \A i \in 1 .. m : t[i] = t[i - 1] + Len(holding[which[i]])
  <2>1. SumsOf(translations(which, holding), which, holding, m)
    BY <1>1, <1>4, Sums
  <2> QED BY <2>1 DEF SumsOf
<1>7. PICK u \in [0 .. m + 1 -> Nat] :
        /\ u = translations(those, holding) /\ u[0] = 0
        /\ \A i \in 1 .. m + 1 : u[i] = u[i - 1] + Len(holding[those[i]])
  <2>1. SumsOf(translations(those, holding), those, holding, m + 1)
    BY <1>1, <1>3, <1>5, Sums
  <2> QED BY <2>1 DEF SumsOf
<1>8. \A i \in 0 .. m : u[i] = t[i + 0]
  <2>1. ASSUME NEW i \in 0 + 1 .. m
        PROVE  u[i] - u[i - 1] = t[i + 0] - t[i + 0 - 1]
    <3>1. PICK k \in Nat : k = Len(holding[which[i]])
      BY <1>1, <1>4, Places1
    <3>2. /\ i \in 0 .. m /\ i - 1 \in 0 .. m /\ i \in 0 .. m + 1 /\ i - 1 \in 0 .. m + 1
          /\ i \in 1 .. m + 1 /\ i \in 1 .. m /\ i + 0 = i
      OBVIOUS
    <3>3. u[i] = u[i - 1] + k /\ t[i] = t[i - 1] + k
      BY <1>5, <1>6, <1>7, <3>1, <3>2
    <3>4. u[i - 1] \in Nat /\ t[i - 1] \in Nat
      BY <3>2
    <3> QED BY <3>2, <3>3, <3>4
  <2>2. u[0] = t[0 + 0] /\ 0 \in Nat /\ m <= m + 1 /\ m + 0 <= m /\ 0 <= m /\ m + 1 \in Nat
    BY <1>6, <1>7
  <2>3. PICK k \in Nat : k = m + 1
    BY <2>2
  <2>4. u \in [0 .. k -> Nat] /\ m <= k
    BY <2>2, <2>3
  <2>5. PICK a \in Nat, d \in Nat : a = 0 /\ d = 0
    OBVIOUS
  <2>6. u[a] = t[a + d] /\ m + d <= m /\ a <= m
    BY <2>2, <2>5
  <2>7. SameSteps(u, t, a, m, d)
    BY <2>1, <2>5 DEF SameSteps
  <2>8. Follow(u, t, a, m, d)
    BY <2>4, <2>6, <2>7, TranslationsFollow
  <2> QED BY <2>5, <2>8 DEF Follow
<1>9. \A i \in 0 .. m : u[i] = t[i]
  BY <1>8
<1>10. u[m + 1] = n
  <2>1. t[m] = n
    BY <1>4, <1>6 DEF Spread
  <2>2. Len(holding[w]) = 0 /\ m + 1 \in 1 .. m + 1 /\ (m + 1) - 1 = m /\ m \in 0 .. m
    BY <1>1
  <2> QED BY <1>1, <1>5, <1>7, <1>9, <2>1, <2>2
<1>11. ASSUME successive_ids PROVE InOrder(those, holding)
  <2> SUFFICES ASSUME NEW i \in 1 .. m + 1, NEW j \in 1 .. Len(holding[those[i]])
               PROVE  holding[those[i]][j].vector = u[i - 1] + j - 1
    BY <1>5, <1>7 DEF InOrder
  <2>1. CASE i = m + 1
    <3>1. Len(holding[those[i]]) = 0
      BY <1>1, <1>5, <2>1
    <3> QED BY <3>1
  <2>2. CASE i \in 1 .. m
    <3>1. those[i] = which[i] /\ u[i - 1] = t[i - 1]
      BY <1>5, <1>9, <2>2
    <3> QED BY <1>4, <1>6, <1>11, <2>2, <3>1 DEF Spread, InOrder
  <2>3. i = m + 1 \/ i \in 1 .. m
    OBVIOUS
  <2> QED BY <2>1, <2>2, <2>3
<1>12. \A v \in Workers \ ToSet(those) : holding[v] = <<>>
  BY <1>3 DEF Spread
<1> QED BY <1>2, <1>3, <1>5, <1>7, <1>10, <1>11, <1>12, SpreadElsewhere

(* A sub-index without vectors is taken out.                               *)
LEMMA SpreadRemove ==
  ASSUME NEW which, NEW holding, NEW n, Spread(which, holding, n),
         NEW i \in 1 .. Len(which), holding[which[i]] = <<>>
  PROVE  Spread(RemoveAt(which, i), holding, n)
<1>1. /\ which \in Seq(Workers) /\ IsInjective(which)
      /\ holding \in [Workers -> Seq(Stored)] /\ n \in Nat
  BY DEF Spread
<1>2. PICK m \in Nat : Len(which) = m + 1
  <2>1. Len(which) \in Nat /\ Len(which) >= 1
    BY <1>1, LenProperties
  <2>2. Len(which) - 1 \in Nat /\ Len(which) = (Len(which) - 1) + 1
    BY <2>1
  <2> QED BY <2>2
<1>3. PICK those \in Seq(Workers) : those = RemoveAt(which, i)
  BY <1>1, RemovedAt
<1>4. /\ IsInjective(those) /\ ToSet(those) = ToSet(which) \ {which[i]}
      /\ Len(those) = m
      /\ \A k \in 1 .. m : those[k] = IF k < i THEN which[k] ELSE which[k + 1]
  <2>1. Len(which) - 1 = m
    BY <1>2
  <2>2. /\ IsInjective(those) /\ ToSet(those) = ToSet(which) \ {which[i]}
        /\ Len(those) = Len(which) - 1
        /\ \A k \in 1 .. Len(which) - 1 : those[k] = IF k < i THEN which[k] ELSE which[k + 1]
    BY <1>1, <1>3, RemovedAt, ZenonT(60)
  <2> QED BY <2>1, <2>2
<1>5. PICK t \in [0 .. m + 1 -> Nat] :
        /\ t = translations(which, holding) /\ t[0] = 0
        /\ \A k \in 1 .. m + 1 : t[k] = t[k - 1] + Len(holding[which[k]])
  <2>1. SumsOf(translations(which, holding), which, holding, m + 1)
    BY <1>1, <1>2, Sums
  <2> QED BY <2>1 DEF SumsOf
<1>6. PICK u \in [0 .. m -> Nat] :
        /\ u = translations(those, holding) /\ u[0] = 0
        /\ \A k \in 1 .. m : u[k] = u[k - 1] + Len(holding[those[k]])
  <2>1. SumsOf(translations(those, holding), those, holding, m)
    BY <1>1, <1>4, Sums
  <2> QED BY <2>1 DEF SumsOf
<1>7. PICK e \in Nat : i = e + 1 /\ e <= m
  <2>1. i - 1 \in Nat /\ i = (i - 1) + 1 /\ i - 1 <= m
    BY <1>2
  <2> QED BY <2>1
<1>8. \A k \in 0 .. e : u[k] = t[k]
  <2>1. ASSUME NEW k \in 1 .. e PROVE u[k] - u[k - 1] = t[k] - t[k - 1]
    <3>1. k \in 1 .. m /\ k \in 1 .. m + 1 /\ k < i /\ k - 1 \in 0 .. m /\ k - 1 \in 0 .. m + 1
      BY <1>7
    <3>2. PICK x \in Nat : x = Len(holding[which[k]])
      BY <1>1, <1>2, <3>1, Places1
    <3>3. u[k] = u[k - 1] + x /\ t[k] = t[k - 1] + x
      BY <1>4, <1>5, <1>6, <3>1, <3>2
    <3>4. PICK y \in Nat, z \in Nat : y = u[k - 1] /\ z = t[k - 1]
      BY <3>1
    <3>5. u[k] = y + x /\ t[k] = z + x
      BY <3>3, <3>4
    <3>6. (y + x) - y = (z + x) - z
      OBVIOUS
    <3> QED BY <3>4, <3>5, <3>6
  <2>2. PICK a \in Nat, d \in Nat : a = 0 /\ d = 0
    OBVIOUS
  <2>3. PICK k \in Nat : k = m + 1
    OBVIOUS
  <2>4. t \in [0 .. k -> Nat] /\ e + d <= k /\ a <= e /\ u[a] = t[a + d]
    <3>1. u[a] = t[a + d]
      BY <1>5, <1>6, <2>2
    <3> QED BY <1>5, <1>7, <2>2, <2>3, <3>1
  <2>5. SameSteps(u, t, a, e, d)
    BY <2>1, <2>2 DEF SameSteps
  <2>6. Follow(u, t, a, e, d)
    BY <1>7, <2>4, <2>5, TranslationsFollow
  <2> QED BY <2>2, <2>6 DEF Follow
<1>9. \A k \in e .. m : u[k] = t[k + 1]
  <2>1. ASSUME NEW k \in e + 1 .. m PROVE u[k] - u[k - 1] = t[k + 1] - t[k]
    <3>1. /\ k \in 1 .. m /\ k + 1 \in 1 .. m + 1 /\ ~(k < i) /\ k - 1 \in 0 .. m
          /\ k \in 0 .. m + 1 /\ (k + 1) - 1 = k
      BY <1>7
    <3>2. PICK x \in Nat : x = Len(holding[which[k + 1]])
      BY <1>1, <1>2, <3>1, Places1
    <3>3. u[k] = u[k - 1] + x /\ t[k + 1] = t[k] + x
      BY <1>4, <1>5, <1>6, <3>1, <3>2
    <3>4. PICK y \in Nat, z \in Nat : y = u[k - 1] /\ z = t[k]
      BY <3>1
    <3>5. (y + x) - y = (z + x) - z
      OBVIOUS
    <3> QED BY <3>3, <3>4, <3>5
  <2>2. u[e] = t[e + 1]
    <3>1. Len(holding[which[i]]) = 0
      OBVIOUS
    <3>2. i \in 1 .. m + 1 /\ i - 1 = e /\ e \in 0 .. e /\ e \in 0 .. m + 1
      BY <1>7
    <3>3. t[e + 1] = t[e] + 0
      BY <1>5, <1>7, <3>1, <3>2
    <3> QED BY <1>8, <3>2, <3>3
  <2>3. PICK d \in Nat : d = 1
    OBVIOUS
  <2>4. PICK k \in Nat : k = m + 1
    OBVIOUS
  <2>5. t \in [0 .. k -> Nat] /\ m + d <= k /\ u[e] = t[e + d]
    BY <2>2, <2>3, <2>4
  <2>6. SameSteps(u, t, e, m, d)
    <3>1. \A j \in e + 1 .. m : j + d - 1 = j
      BY <2>3
    <3> QED BY <2>1, <2>3, <3>1 DEF SameSteps
  <2>7. e <= m /\ m <= m
    BY <1>7
  <2>8. Follow(u, t, e, m, d)
    BY <2>5, <2>6, <2>7, TranslationsFollow
  <2> QED BY <2>3, <2>8 DEF Follow
<1>10. u[m] = n
  <2>1. t[m + 1] = n
    BY <1>2, <1>5 DEF Spread
  <2>2. m \in e .. m
    BY <1>7
  <2> QED BY <1>9, <2>1, <2>2
<1>11. ASSUME successive_ids PROVE InOrder(those, holding)
  <2> SUFFICES ASSUME NEW k \in 1 .. m, NEW j \in 1 .. Len(holding[those[k]])
               PROVE  holding[those[k]][j].vector = u[k - 1] + j - 1
    BY <1>4, <1>6 DEF InOrder
  <2>1. \A h \in 1 .. m + 1 : \A b \in 1 .. Len(holding[which[h]]) :
          holding[which[h]][b].vector = t[h - 1] + b - 1
    BY <1>2, <1>5, <1>11 DEF Spread, InOrder
  <2>2. CASE k < i
    <3>1. those[k] = which[k] /\ u[k - 1] = t[k - 1] /\ k \in 1 .. m + 1
      <4>1. k \in 1 .. m + 1 /\ k - 1 \in 0 .. e
        BY <1>7, <2>2
      <4> QED BY <1>4, <1>8, <2>2, <4>1
    <3> QED BY <2>1, <3>1
  <2>3. CASE ~(k < i)
    <3>1. /\ those[k] = which[k + 1] /\ u[k - 1] = t[(k + 1) - 1]
          /\ k + 1 \in 1 .. m + 1
      <4>1. k + 1 \in 1 .. m + 1 /\ k - 1 \in e .. m /\ (k - 1) + 1 = (k + 1) - 1
        BY <1>7, <2>3
      <4> QED BY <1>4, <1>9, <2>3, <4>1
    <3> QED BY <2>1, <3>1
  <2> QED BY <2>2, <2>3
<1>12. \A w \in Workers \ ToSet(those) : holding[w] = <<>>
  BY <1>4 DEF Spread
<1> QED BY <1>3, <1>4, <1>6, <1>10, <1>11, <1>12, SpreadElsewhere

(* What an add gives to the i-th of c sub-indexes                          *)
Piece(s, i, c, n) ==
  /\ s \in Seq(Stored) /\ Len(s) = Cut(i, c) - Cut(i - 1, c)
  /\ \A k \in 1 .. Len(s) :
       s[k].vector = n + Cut(i - 1, c) + k - 1 /\ s[k].id = s[k].vector

LEMMA SliceIs ==
  ASSUME NEW c \in Nat \ {0}, c = count, added \in Nat, ntotal = added, NEW i \in 1 .. c
  PROVE  Piece(Slice(i - 1), i, c, added)
<1>1. PICK a \in Nat, b \in Nat : a = Cut(i - 1, c) /\ b = Cut(i, c) /\ a <= b
  <2>1. i - 1 \in Nat /\ i \in Nat /\ i - 1 <= i
    OBVIOUS
  <2> QED BY <2>1, Cuts
<1>2. ((i - 1) * Batch) \div count = a /\ (((i - 1) + 1) * Batch) \div count = b
  <2>1. (i - 1) + 1 = i
    OBVIOUS
  <2> QED BY <1>1, <2>1 DEF Cut
<1>3. Slice(i - 1) = [k \in 1 .. b - a |->
                        [id |-> ntotal + (a + k - 1), vector |-> added + (a + k - 1)]]
  BY <1>2 DEF Slice
<1>4. PICK s : s = Slice(i - 1)
  OBVIOUS
<1>5. \A k \in 1 .. b - a :
        /\ s[k] \in Stored /\ s[k].id = added + (a + k - 1)
        /\ s[k].vector = added + (a + k - 1)
  BY <1>3, <1>4 DEF Stored
<1>6. s \in Seq(Stored) /\ Len(s) = b - a
  <2>1. PICK d \in Nat : d = b - a
    BY <1>1
  <2>2. s \in [1 .. d -> Stored]
    BY <1>3, <1>4, <1>5, <2>1
  <2> QED BY <2>1, <2>2
<1>7. \A k \in 1 .. Len(s) : added + (a + k - 1) = added + a + k - 1
  BY <1>6
<1>8. \A k \in 1 .. Len(s) : s[k].vector = added + a + k - 1 /\ s[k].id = s[k].vector
  BY <1>5, <1>6, <1>7
<1> QED BY <1>1, <1>4, <1>6, <1>8 DEF Piece

(* The batch is spread over the sub-indexes, behind what they have.        *)
Extended(after, before, piece, which) ==
  /\ \A i \in 1 .. Len(which) : after[which[i]] = before[which[i]] \o piece[i]
  /\ \A w \in Workers \ ToSet(which) : after[w] = before[w]

(* a is b with p behind it.                                                *)
Joint(a, b, p) ==
  /\ Len(b) \in Nat /\ Len(p) \in Nat /\ a \in Seq(Stored) /\ Len(a) = Len(b) + Len(p)
  /\ \A j \in 1 .. Len(b) : a[j] = b[j]
  /\ \A k \in 1 .. Len(p) : a[Len(b) + k] = p[k]

LEMMA Joining ==
  ASSUME NEW b \in Seq(Stored), NEW p \in Seq(Stored)
  PROVE  Joint(b \o p, b, p)
<1>1. PICK a : a = b \o p
  OBVIOUS
<1>2. PICK lb \in Nat, lp \in Nat : lb = Len(b) /\ lp = Len(p)
  BY LenProperties
<1>3. /\ a \in Seq(Stored) /\ Len(a) = lb + lp
      /\ \A j \in 1 .. lb + lp : a[j] = IF j <= lb THEN b[j] ELSE p[j - lb]
  BY <1>1, <1>2, ConcatProperties
<1>4. \A j \in 1 .. lb : a[j] = b[j]
  BY <1>3
<1>5. ASSUME NEW k \in 1 .. lp PROVE a[lb + k] = p[k]
  <2>1. lb + k \in 1 .. lb + lp /\ ~(lb + k <= lb) /\ (lb + k) - lb = k
    OBVIOUS
  <2> QED BY <1>3, <2>1
<1> QED BY <1>1, <1>2, <1>3, <1>4, <1>5 DEF Joint

LEMMA Grown ==
  ASSUME NEW which \in Seq(Workers), IsInjective(which),
         NEW before \in [Workers -> Seq(Stored)], NEW after, NEW piece,
         Extended(after, before, piece, which),
         NEW i \in 1 .. Len(which), piece[i] \in Seq(Stored),
         NEW w, w = which[i]
  PROVE  Joint(after[w], before[w], piece[i])
<1>1. before[w] \in Seq(Stored)
  BY Places1
<1>2. after[w] = before[w] \o piece[i]
  BY DEF Extended
<1> QED BY <1>1, <1>2, Joining

(* Where an element e of the sub-index w comes from                        *)
Came(before, piece, which, w, j, e) ==
  \/ j \in 1 .. Len(before[w]) /\ e = before[w][j]
  \/ \E i \in 1 .. Len(which) : \E k \in 1 .. Len(piece[i]) :
       which[i] = w /\ j = Len(before[w]) + k /\ e = piece[i][k]

LEMMA WhereFrom ==
  ASSUME NEW which \in Seq(Workers), IsInjective(which),
         NEW before \in [Workers -> Seq(Stored)], NEW after, NEW piece,
         Extended(after, before, piece, which),
         \A i \in 1 .. Len(which) : piece[i] \in Seq(Stored),
         NEW w \in Workers, NEW j \in 1 .. Len(after[w])
  PROVE  Came(before, piece, which, w, j, after[w][j])
<1>1. CASE w \in ToSet(which)
  <2>1. PICK i \in 1 .. Len(which) : which[i] = w
    BY <1>1, Places1
  <2>2. /\ Len(before[w]) \in Nat /\ Len(piece[i]) \in Nat
        /\ Len(after[w]) = Len(before[w]) + Len(piece[i])
        /\ \A b \in 1 .. Len(before[w]) : after[w][b] = before[w][b]
        /\ \A k \in 1 .. Len(piece[i]) : after[w][Len(before[w]) + k] = piece[i][k]
    <3>1. before[w] \in Seq(Stored) /\ piece[i] \in Seq(Stored)
      OBVIOUS
    <3>2. after[w] = before[w] \o piece[i]
      BY <2>1 DEF Extended
    <3>3. Joint(after[w], before[w], piece[i])
      BY <3>1, <3>2, Joining
    <3> QED BY <3>3 DEF Joint
  <2>3. CASE j <= Len(before[w])
    <3>1. j \in 1 .. Len(before[w])
      BY <2>2, <2>3
    <3> QED BY <2>2, <3>1 DEF Came
  <2>4. CASE ~(j <= Len(before[w]))
    <3>1. PICK b \in Nat, p \in Nat : b = Len(before[w]) /\ p = Len(piece[i])
      BY <2>2
    <3>2. j \in 1 .. b + p /\ ~(j <= b)
      BY <2>2, <2>4, <3>1
    <3>3. PICK k \in 1 .. p : j = b + k
      <4>1. j - b \in 1 .. p /\ j = b + (j - b)
        BY <3>2
      <4> QED BY <4>1
    <3> QED BY <2>1, <2>2, <3>1, <3>3 DEF Came
  <2> QED BY <2>3, <2>4
<1>2. CASE w \notin ToSet(which)
  BY <1>2 DEF Extended, Came
<1> QED BY <1>1, <1>2

LEMMA CutOf ==
  ASSUME NEW c \in Nat \ {0}, NEW i \in 1 .. c
  PROVE  \E a, b \in Nat : a = Cut(i - 1, c) /\ b = Cut(i, c) /\ a <= b /\ b <= Batch
<1>1. i - 1 \in Nat /\ i \in Nat /\ c \in Nat /\ i <= c /\ i - 1 <= i
  OBVIOUS
<1>2. Cut(i, c) <= Cut(c, c) /\ Cut(c, c) = Batch
  BY <1>1, Cuts
<1> QED BY <1>1, <1>2, Cuts

(* The numbers in the pieces                                               *)
Numbered(x, k, a, b, n) ==
  /\ x.id = x.vector /\ x.vector \in Nat /\ x.vector = n + a + k - 1
  /\ n + a <= x.vector /\ x.vector < n + b

LEMMA PieceNumbers ==
  ASSUME NEW c \in Nat \ {0}, NEW n \in Nat, NEW i \in 1 .. c, NEW s, Piece(s, i, c, n),
         NEW k \in 1 .. Len(s), NEW a, a = Cut(i - 1, c), NEW b, b = Cut(i, c)
  PROVE  Numbered(s[k], k, a, b, n)
<1>1. a \in Nat /\ b \in Nat
  BY CutOf
<1>2. Len(s) = b - a /\ s[k].vector = n + a + k - 1 /\ s[k].id = s[k].vector
  BY DEF Piece
<1>3. k \in 1 .. b - a
  BY <1>2
<1>4. n + a + k - 1 \in Nat /\ n + a <= n + a + k - 1 /\ n + a + k - 1 < n + b
  <2>1. 1 <= k /\ k <= b - a /\ k \in Nat
    BY <1>3
  <2> QED BY ONLY <1>1, <2>1, n \in Nat
<1>5. PICK v : v = n + a + k - 1
  OBVIOUS
<1>6. v \in Nat /\ n + a <= v /\ v < n + b /\ v = n + a + k - 1
  BY <1>4, <1>5
<1>7. s[k].vector = v /\ s[k].id = v
  BY <1>2, <1>5
<1> QED BY <1>6, <1>7, Zenon DEF Numbered

LEMMA PiecesApart ==
  ASSUME NEW c \in Nat \ {0}, NEW n \in Nat, NEW i \in 1 .. c, NEW s, Piece(s, i, c, n),
         NEW k \in 1 .. Len(s), NEW h \in 1 .. c, NEW r, Piece(r, h, c, n),
         NEW l \in 1 .. Len(r), s[k].vector = r[l].vector
  PROVE  i = h /\ k = l
<1>1. PICK a, b, d, e :
        a = Cut(i - 1, c) /\ b = Cut(i, c) /\ d = Cut(h - 1, c) /\ e = Cut(h, c)
  OBVIOUS
<1>2. a \in Nat /\ b \in Nat /\ d \in Nat /\ e \in Nat
  BY <1>1, CutOf
<1>3. Numbered(s[k], k, a, b, n)
  BY <1>1, PieceNumbers
<1>4. Numbered(r[l], l, d, e, n)
  BY <1>1, PieceNumbers
<1>5. PICK v \in Nat : v = s[k].vector /\ v = r[l].vector
  BY <1>3 DEF Numbered
<1>6. /\ n + a <= v /\ v < n + b /\ v = n + a + k - 1
      /\ n + d <= v /\ v < n + e /\ v = n + d + l - 1
  BY <1>3, <1>4, <1>5 DEF Numbered
<1>7. ~(i < h)
  <2>1. i < h => i \in Nat /\ h - 1 \in Nat /\ i <= h - 1
    OBVIOUS
  <2>2. i < h => b <= d
    BY <1>1, <2>1, Cuts
  <2>3. ~(b <= d)
    BY <1>2, <1>6
  <2> QED BY <2>2, <2>3
<1>8. ~(h < i)
  <2>1. h < i => h \in Nat /\ i - 1 \in Nat /\ h <= i - 1
    OBVIOUS
  <2>2. h < i => e <= a
    BY <1>1, <2>1, Cuts
  <2>3. ~(e <= a)
    BY <1>2, <1>6
  <2> QED BY <2>2, <2>3
<1>9. i = h
  BY <1>7, <1>8
<1>10. a = d
  BY <1>1, <1>9
<1>11. k = l
  <2>1. k \in Int /\ l \in Int /\ n + a + k - 1 = n + a + l - 1
    BY <1>6, <1>10
  <2> QED BY <1>2, <2>1
<1> QED BY <1>9, <1>11

(* All the pieces                                                          *)
Pieces(piece, c, n) == \A i \in 1 .. c : Piece(piece[i], i, c, n)

Disjoint(piece, c) ==
  \A i, h \in 1 .. c : \A k \in 1 .. Len(piece[i]), l \in 1 .. Len(piece[h]) :
    piece[i][k].vector = piece[h][l].vector => i = h /\ k = l

LEMMA DisjointAt ==
  ASSUME NEW c, NEW piece, Disjoint(piece, c), NEW i \in 1 .. c, NEW h \in 1 .. c,
         NEW k \in 1 .. Len(piece[i]), NEW l \in 1 .. Len(piece[h]),
         piece[i][k].vector = piece[h][l].vector
  PROVE  i = h /\ k = l
BY Zenon DEF Disjoint

LEMMA PiecesDisjoint ==
  ASSUME NEW c \in Nat \ {0}, NEW n \in Nat, NEW piece, Pieces(piece, c, n)
  PROVE  Disjoint(piece, c)
<1> SUFFICES ASSUME NEW i \in 1 .. c, NEW h \in 1 .. c, NEW k \in 1 .. Len(piece[i]),
                    NEW l \in 1 .. Len(piece[h]), piece[i][k].vector = piece[h][l].vector
             PROVE  i = h /\ k = l
  BY DEF Disjoint
<1>1. Piece(piece[i], i, c, n) /\ Piece(piece[h], h, c, n)
  BY DEF Pieces
<1>2. PICK s, t : s = piece[i] /\ t = piece[h]
  OBVIOUS
<1>3. /\ Piece(s, i, c, n) /\ k \in 1 .. Len(s)
      /\ Piece(t, h, c, n) /\ l \in 1 .. Len(t)
      /\ s[k].vector = t[l].vector
  BY <1>1, <1>2
<1> QED BY ONLY <1>3, PiecesApart, c \in Nat \ {0}, n \in Nat, i \in 1 .. c, h \in 1 .. c

LEMMA NewOnes ==
  ASSUME NEW c \in Nat \ {0}, NEW n \in Nat, NEW piece, Pieces(piece, c, n),
         NEW i \in 1 .. c, NEW k \in 1 .. Len(piece[i])
  PROVE  /\ piece[i][k].id = piece[i][k].vector
         /\ piece[i][k].vector \in n .. n + Batch - 1
<1>1. Piece(piece[i], i, c, n)
  BY DEF Pieces
<1>2. PICK s : s = piece[i]
  OBVIOUS
<1>3. Piece(s, i, c, n) /\ k \in 1 .. Len(s)
  BY <1>1, <1>2
<1>4. PICK a \in Nat, b \in Nat : a = Cut(i - 1, c) /\ b = Cut(i, c) /\ b <= Batch
  BY CutOf
<1>5. Numbered(s[k], k, a, b, n)
  BY <1>3, <1>4, PieceNumbers
<1>6. PICK v \in Nat : v = s[k].vector /\ n + a <= v /\ v < n + b
  BY <1>5 DEF Numbered
<1>7. v \in n .. n + Batch - 1
  <2>1. PICK m \in Nat : m = Batch
    BY ShardsAssumption
  <2>2. b <= m
    BY <1>4, <2>1
  <2>3. n <= v /\ v <= n + m - 1
    BY <1>6, <2>2
  <2> QED BY <2>1, <2>3
<1> QED BY <1>2, <1>5, <1>6, <1>7 DEF Numbered

LEMMA KeptAfter ==
  ASSUME NEW which \in Seq(Workers), IsInjective(which), NEW c \in Nat \ {0}, c = Len(which),
         NEW before \in [Workers -> Seq(Stored)], NEW n \in Nat, Kept(before, n),
         NEW piece, Pieces(piece, c, n), NEW after, Extended(after, before, piece, which)
  PROVE  Kept(after, n + Batch)
<1>1. \A i \in 1 .. Len(which) : piece[i] \in Seq(Stored)
  BY DEF Pieces, Piece
<1>2. ASSUME NEW w \in Workers, NEW j \in 1 .. Len(after[w]), NEW e, e = after[w][j]
      PROVE  e.vector \in 0 .. (n + Batch) - 1 /\ e.id = e.vector
  <2>1. Came(before, piece, which, w, j, e)
    BY <1>1, <1>2, WhereFrom
  <2>2. CASE j \in 1 .. Len(before[w]) /\ e = before[w][j]
    <3>1. e.vector \in 0 .. n - 1 /\ e.id = e.vector
      BY <2>2 DEF Kept
    <3> QED BY <3>1, ShardsAssumption
  <2>3. ASSUME NEW i \in 1 .. Len(which), NEW k \in 1 .. Len(piece[i]), e = piece[i][k]
        PROVE  e.vector \in 0 .. (n + Batch) - 1 /\ e.id = e.vector
    <3>1. e.vector \in n .. n + Batch - 1 /\ e.id = e.vector
      <4>1. i \in 1 .. c /\ piece[i][k].id = piece[i][k].vector
            /\ piece[i][k].vector \in n .. n + Batch - 1
        BY NewOnes
      <4> QED BY <2>3, <4>1, Zenon
    <3> QED BY <3>1, ShardsAssumption
  <2> QED BY <2>1, <2>2, <2>3 DEF Came
<1>3. ASSUME NEW w \in Workers PROVE Len(after[w]) <= n + Batch
  <2>1. PICK b \in Nat : b = Len(before[w]) /\ b <= n
    BY LenProperties DEF Kept
  <2>2. CASE w \in ToSet(which)
    <3>1. PICK i \in 1 .. c : which[i] = w
      BY <2>2, Places1
    <3>2. after[w] = before[w] \o piece[i] /\ piece[i] \in Seq(Stored)
      BY <1>1, <3>1 DEF Extended
    <3>3. Len(after[w]) = b + Len(piece[i])
      BY <2>1, <3>2, ConcatProperties
    <3>4. PICK x \in Nat, y \in Nat : x = Cut(i - 1, c) /\ y = Cut(i, c) /\ y <= Batch
      BY CutOf
    <3>5. Len(piece[i]) = y - x
      BY <3>4 DEF Pieces, Piece
    <3> QED BY <2>1, <3>3, <3>4, <3>5, ShardsAssumption
  <2>3. CASE w \notin ToSet(which)
    <3>1. Len(after[w]) = b
      BY <2>1, <2>3 DEF Extended
    <3> QED BY <2>1, <3>1, ShardsAssumption
  <2> QED BY <2>2, <2>3
<1> QED BY <1>2, <1>3 DEF Kept

(* The second of the two: e is one of the vectors this add brought          *)
Fresh(before, piece, which, c, w, j, e) ==
  \E p \in 1 .. c : \E q \in 1 .. Len(piece[p]) :
    which[p] = w /\ j = Len(before[w]) + q /\ e = piece[p][q]

LEMMA FreshApart ==
  ASSUME NEW c, NEW piece, Disjoint(piece, c), NEW which, NEW before,
         NEW w, NEW j, NEW e, Fresh(before, piece, which, c, w, j, e),
         NEW u, NEW k, NEW f, Fresh(before, piece, which, c, u, k, f),
         e.vector = f.vector
  PROVE  w = u /\ j = k
<1>1. PICK p \in 1 .. c : \E q \in 1 .. Len(piece[p]) :
        which[p] = w /\ j = Len(before[w]) + q /\ e = piece[p][q]
  BY DEF Fresh
<1>2. PICK q \in 1 .. Len(piece[p]) :
        which[p] = w /\ j = Len(before[w]) + q /\ e = piece[p][q]
  BY <1>1
<1>3. PICK r \in 1 .. c : \E s \in 1 .. Len(piece[r]) :
        which[r] = u /\ k = Len(before[u]) + s /\ f = piece[r][s]
  BY DEF Fresh
<1>4. PICK s \in 1 .. Len(piece[r]) :
        which[r] = u /\ k = Len(before[u]) + s /\ f = piece[r][s]
  BY <1>3
<1>5. piece[p][q].vector = piece[r][s].vector
  BY <1>2, <1>4
<1>6. p = r /\ q = s
  BY <1>5, DisjointAt
<1> QED BY <1>2, <1>4, <1>6

LEMMA FreshNew ==
  ASSUME NEW c \in Nat \ {0}, NEW n \in Nat, NEW piece, Pieces(piece, c, n), NEW which,
         NEW before, NEW w, NEW j, NEW e, Fresh(before, piece, which, c, w, j, e)
  PROVE  e.vector \in n .. n + Batch - 1
<1>1. PICK p \in 1 .. c : \E q \in 1 .. Len(piece[p]) :
        which[p] = w /\ j = Len(before[w]) + q /\ e = piece[p][q]
  BY DEF Fresh
<1>2. PICK q \in 1 .. Len(piece[p]) :
        which[p] = w /\ j = Len(before[w]) + q /\ e = piece[p][q]
  BY <1>1
<1>3. piece[p][q].vector \in n .. n + Batch - 1
  BY NewOnes
<1> QED BY <1>2, <1>3

LEMMA SingleAfter ==
  ASSUME NEW which \in Seq(Workers), IsInjective(which), NEW c \in Nat \ {0}, c = Len(which),
         NEW before \in [Workers -> Seq(Stored)], NEW n \in Nat, Kept(before, n),
         Single(before),
         NEW piece, Pieces(piece, c, n), NEW after, Extended(after, before, piece, which)
  PROVE  Single(after)
<1>1. \A i \in 1 .. Len(which) : piece[i] \in Seq(Stored)
  BY DEF Pieces, Piece
<1> SUFFICES ASSUME NEW w \in Workers, NEW u \in Workers,
                    NEW j \in 1 .. Len(after[w]), NEW k \in 1 .. Len(after[u]),
                    after[w][j].vector = after[u][k].vector
             PROVE  w = u /\ j = k
  BY DEF Single
<1>2. PICK e, f : e = after[w][j] /\ f = after[u][k] /\ e.vector = f.vector
  OBVIOUS
<1>3. Came(before, piece, which, w, j, e) /\ Came(before, piece, which, u, k, f)
  BY <1>1, <1>2, WhereFrom
<1> HIDE DEF Came
<1> DEFINE Old(v, i, g) == i \in 1 .. Len(before[v]) /\ g = before[v][i]
           New(v, i, g) == Fresh(before, piece, which, c, v, i, g)
<1>4. (Old(w, j, e) \/ New(w, j, e)) /\ (Old(u, k, f) \/ New(u, k, f))
  BY <1>3, Zenon DEF Came, Fresh
<1>5. \A v \in Workers : \A i, g : Old(v, i, g) => g.vector \in 0 .. n - 1
  BY DEF Kept
<1>6. \A v, i, g : New(v, i, g) => g.vector \in n .. n + Batch - 1
  BY FreshNew
<1>7. CASE Old(w, j, e) /\ Old(u, k, f)
  BY <1>2, <1>7 DEF Single
<1>8. CASE New(w, j, e) /\ New(u, k, f)
  <2>1. Disjoint(piece, c)
    BY PiecesDisjoint
  <2>2. e.vector = f.vector
    BY <1>2
  <2> QED BY ONLY <1>8, <2>1, <2>2, FreshApart DEF New
<1>9. \A x \in 0 .. n - 1 : \A y \in n .. n + Batch - 1 : x # y
  OBVIOUS
<1> HIDE DEF Old, New
<1> QED BY <1>2, <1>4, <1>5, <1>6, <1>7, <1>8, <1>9

LEMMA CompleteAfter ==
  ASSUME NEW which \in Seq(Workers), IsInjective(which), NEW c \in Nat \ {0}, c = Len(which),
         NEW before \in [Workers -> Seq(Stored)], NEW n \in Nat, Complete(before, n),
         NEW piece, Pieces(piece, c, n), NEW after, Extended(after, before, piece, which)
  PROVE  Complete(after, n + Batch)
<1>1. \A i \in 1 .. Len(which) : piece[i] \in Seq(Stored)
  BY DEF Pieces, Piece
<1> SUFFICES ASSUME NEW v \in 0 .. (n + Batch) - 1
             PROVE  \E w \in Workers : \E j \in 1 .. Len(after[w]) : after[w][j].vector = v
  BY DEF Complete
<1>2. \A w \in Workers : \/ after[w] = before[w]
                         \/ \E i \in 1 .. c : which[i] = w /\ Joint(after[w], before[w], piece[i])
  <2> SUFFICES ASSUME NEW w \in Workers, w \in ToSet(which)
               PROVE  \E i \in 1 .. c : which[i] = w /\ Joint(after[w], before[w], piece[i])
    BY DEF Extended
  <2>1. PICK i \in 1 .. c : which[i] = w
    BY Places1
  <2>2. after[w] = before[w] \o piece[i] /\ piece[i] \in Seq(Stored)
    BY <1>1, <2>1 DEF Extended
  <2> QED BY <2>1, <2>2, Joining
<1>3. CASE v < n
  <2>1. v \in 0 .. n - 1
    BY <1>3
  <2>2. \E w \in Workers : \E j \in 1 .. Len(before[w]) : before[w][j].vector = v
    BY <2>1 DEF Complete
  <2>3. PICK w \in Workers : \E j \in 1 .. Len(before[w]) : before[w][j].vector = v
    BY <2>2
  <2>4. PICK j \in 1 .. Len(before[w]) : before[w][j].vector = v
    BY <2>3
  <2>5. CASE after[w] = before[w]
    BY <2>4, <2>5
  <2>6. ASSUME NEW i \in 1 .. c, Joint(after[w], before[w], piece[i])
        PROVE  j \in 1 .. Len(after[w]) /\ after[w][j].vector = v
    <3>1. PICK lb \in Nat, lp \in Nat : lb = Len(before[w]) /\ lp = Len(piece[i])
      BY <2>6 DEF Joint
    <3>2. Len(after[w]) = lb + lp /\ after[w][j] = before[w][j]
      BY <2>6, <3>1 DEF Joint
    <3>3. j \in 1 .. lb + lp
      BY <3>1
    <3> QED BY <2>4, <3>2, <3>3
  <2> QED BY <1>2, <2>5, <2>6
<1>4. CASE ~(v < n)
  <2>1. PICK x \in 0 .. Batch - 1 : v = n + x
    <3>1. v - n \in 0 .. Batch - 1 /\ v = n + (v - n)
      BY <1>4, ShardsAssumption
    <3> QED BY <3>1
  <2>2. PICK i \in 1 .. c : Cut(i - 1, c) <= x /\ x < Cut(i, c)
    BY PieceOf
  <2>3. PICK a \in Nat, b \in Nat : a = Cut(i - 1, c) /\ b = Cut(i, c)
    BY CutOf
  <2>4. /\ Len(piece[i]) = b - a
        /\ \A k \in 1 .. Len(piece[i]) : piece[i][k].vector = n + a + k - 1
    BY <2>3 DEF Pieces, Piece
  <2>5. PICK k \in 1 .. b - a : n + a + k - 1 = v
    <3>1. a <= x /\ x < b /\ x \in Nat /\ a \in Nat /\ b \in Nat /\ n \in Nat
      BY <2>2, <2>3
    <3>2. x - a + 1 \in 1 .. b - a
      BY ONLY <3>1
    <3>3. n + a + (x - a + 1) - 1 = v
      BY ONLY <3>1, <2>1
    <3> QED BY <3>2, <3>3
  <2>6. k \in 1 .. Len(piece[i]) /\ piece[i][k].vector = v
    BY <2>4, <2>5
  <2>7. PICK w \in Workers : w = which[i]
    BY Places1
  <2>8. after[w] = before[w] \o piece[i] /\ piece[i] \in Seq(Stored) /\ before[w] \in Seq(Stored)
    BY <1>1, <2>7 DEF Extended
  <2>9. Joint(after[w], before[w], piece[i])
    BY <2>8, Joining
  <2>10. PICK lb \in Nat, lp \in Nat : lb = Len(before[w]) /\ lp = Len(piece[i])
    BY <2>9 DEF Joint
  <2>11. lb + k \in 1 .. lb + lp
    BY <2>6, <2>10
  <2>12. lb + k \in 1 .. Len(after[w]) /\ after[w][lb + k] = piece[i][k]
    BY <2>6, <2>9, <2>10, <2>11 DEF Joint
  <2> QED BY <2>6, <2>12
<1> QED BY <1>3, <1>4

Raised(u, t, c) ==
  \A i \in 0 .. c : u[i] \in Nat /\ t[i] \in Nat /\ u[i] = t[i] + Cut(i, c)

LEMMA SumsAfter ==
  ASSUME NEW which \in Seq(Workers), IsInjective(which), NEW c \in Nat \ {0}, c = Len(which),
         NEW before \in [Workers -> Seq(Stored)], NEW n \in Nat,
         NEW piece, Pieces(piece, c, n), NEW after \in [Workers -> Seq(Stored)],
         Extended(after, before, piece, which),
         NEW t, t = translations(which, before), NEW u, u = translations(which, after)
  PROVE  Raised(u, t, c)
<1>1. SumsOf(t, which, before, c) /\ SumsOf(u, which, after, c)
  BY Sums
<1> DEFINE S == {i \in 0 .. c : u[i] = t[i] + Cut(i, c)}
<1>2. 0 \in S
  BY <1>1, Cuts DEF SumsOf
<1>3. ASSUME NEW k \in 0 .. c - 1, u[k] = t[k] + Cut(k, c) PROVE k + 1 \in S
  <2>1. k + 1 \in 1 .. c /\ (k + 1) - 1 = k /\ k \in 0 .. c /\ k + 1 \in 0 .. c
    OBVIOUS
  <2>2. PICK a \in Nat, b \in Nat : a = Cut(k, c) /\ b = Cut(k + 1, c)
    BY <2>1, CutOf
  <2>3. Len(piece[k + 1]) = b - a /\ piece[k + 1] \in Seq(Stored)
    BY <2>1, <2>2 DEF Pieces, Piece
  <2>4. which[k + 1] \in Workers
    BY <2>1, Places1
  <2>5. after[which[k + 1]] = before[which[k + 1]] \o piece[k + 1]
    BY <2>1 DEF Extended
  <2>6. PICK x \in Nat : x = Len(before[which[k + 1]])
    BY <2>4, LenProperties
  <2>7. Len(after[which[k + 1]]) = x + (b - a)
    <3>1. before[which[k + 1]] \in Seq(Stored)
      BY <2>4
    <3>2. Joint(after[which[k + 1]], before[which[k + 1]], piece[k + 1])
      BY <2>3, <2>5, <3>1, Joining
    <3> QED BY <2>3, <2>6, <3>2 DEF Joint
  <2>8. PICK y \in Nat, z \in Nat : y = t[k] /\ z = u[k] /\ z = y + a
    BY <1>1, <1>3, <2>1, <2>2 DEF SumsOf
  <2>9. t[k + 1] = y + x /\ u[k + 1] = z + (x + (b - a))
    BY <1>1, <2>1, <2>6, <2>7, <2>8 DEF SumsOf
  <2>10. z + (x + (b - a)) = (y + x) + b
    <3>1. a \in Nat /\ b \in Nat /\ x \in Nat /\ y \in Nat
      BY <2>2, <2>6, <2>8
    <3>2. (y + a) + (x + (b - a)) = (y + x) + b
      BY <3>1
    <3> QED BY <2>8, <3>2
  <2> QED BY <2>1, <2>2, <2>9, <2>10
<1>4. \A k \in 0 .. c - 1 : k \in S => k + 1 \in S
  BY <1>3
<1> HIDE DEF S
<1>5. \A k \in 0 .. c : k \in S
  BY <1>2, <1>4, UpTo
<1>6. \A k \in 0 .. c : u[k] \in Nat /\ t[k] \in Nat
  BY <1>1 DEF SumsOf
<1> QED BY <1>5, <1>6 DEF S, Raised

(* An index without vectors: each sub-index starts at 0.                   *)
AllZero(t, c) == \A i \in 0 .. c : t[i] = 0

Bare(which, holding, c) == \A i \in 1 .. c : Len(holding[which[i]]) = 0

LEMMA SumsNone ==
  ASSUME NEW which \in Seq(Workers), IsInjective(which), NEW c \in Nat, c = Len(which),
         NEW holding \in [Workers -> Seq(Stored)], NEW t, t = translations(which, holding),
         Bare(which, holding, c)
  PROVE  AllZero(t, c)
<1> USE DEF Bare
<1>1. SumsOf(t, which, holding, c)
  BY Sums
<1> DEFINE S == {k \in 0 .. c : t[k] = 0}
<1>2. 0 \in S
  BY <1>1 DEF SumsOf
<1>3. \A k \in 0 .. c - 1 : k \in S => k + 1 \in S
  <2> SUFFICES ASSUME NEW k \in 0 .. c - 1, t[k] = 0 PROVE k + 1 \in S
    OBVIOUS
  <2>1. k + 1 \in 1 .. c /\ (k + 1) - 1 = k
    OBVIOUS
  <2>2. t[k + 1] = t[k] + 0
    BY <1>1, <2>1 DEF SumsOf
  <2> QED BY <2>1, <2>2
<1> HIDE DEF S
<1>4. \A k \in 0 .. c : k \in S
  BY <1>2, <1>3, UpTo
<1> QED BY <1>4 DEF S, AllZero

(* An add, after which the sub-indexes have their slices of the batch.     *)
LEMMA SpreadAdd ==
  ASSUME NEW which, NEW before, NEW n, Spread(which, before, n),
         NEW c \in Nat \ {0}, c = Len(which), NEW piece, Pieces(piece, c, n),
         NEW after \in [Workers -> Seq(Stored)], Extended(after, before, piece, which),
         successive_ids => n = 0
  PROVE  Spread(which, after, n + Batch)
<1>1. /\ which \in Seq(Workers) /\ IsInjective(which)
      /\ before \in [Workers -> Seq(Stored)] /\ n \in Nat
      /\ Kept(before, n) /\ Single(before) /\ Complete(before, n)
  BY DEF Spread
<1>2. n + Batch \in Nat
  BY <1>1, ShardsAssumption
<1>3. Kept(after, n + Batch) /\ Single(after) /\ Complete(after, n + Batch)
  BY <1>1, KeptAfter, SingleAfter, CompleteAfter
<1>4. \A w \in Workers \ ToSet(which) : after[w] = <<>>
  BY DEF Spread, Extended
<1>5. PICK t, u : t = translations(which, before) /\ u = translations(which, after)
  OBVIOUS
<1>6. \A i \in 0 .. c : u[i] \in Nat /\ t[i] \in Nat /\ u[i] = t[i] + Cut(i, c)
  <2>1. Raised(u, t, c)
    BY <1>1, <1>5, SumsAfter
  <2> QED BY <2>1 DEF Raised
<1>7. u[c] = n + Batch
  <2>1. t[c] = n /\ Cut(c, c) = Batch /\ c \in 0 .. c
    BY <1>5, Cuts DEF Spread
  <2> QED BY <1>6, <2>1
<1>8. ASSUME successive_ids PROVE InOrder(which, after)
  <2>1. n = 0
    BY <1>8
  <2>2. ASSUME NEW i \in 1 .. c PROVE before[which[i]] = <<>> /\ Len(before[which[i]]) = 0
    <3>1. PICK s \in Seq(Stored) : s = before[which[i]] /\ Len(s) <= 0
      BY <1>1, <2>1, Places1 DEF Kept
    <3>2. Len(s) = 0
      BY <3>1, LenProperties
    <3>3. s = <<>>
      BY <3>2, EmptySeq
    <3> QED BY <3>1, <3>2, <3>3
  <2>3. \A i \in 0 .. c : t[i] = 0
    <3>1. Bare(which, before, c)
      BY <2>2 DEF Bare
    <3>2. AllZero(t, c)
      BY <1>1, <1>5, <3>1, SumsNone
    <3> QED BY <3>2 DEF AllZero
  <2> SUFFICES ASSUME NEW i \in 1 .. c, NEW j \in 1 .. Len(after[which[i]])
               PROVE  after[which[i]][j].vector = u[i - 1] + j - 1
    BY <1>5 DEF InOrder
  <2>4. Piece(piece[i], i, c, n)
    BY DEF Pieces
  <2>5. after[which[i]] = piece[i]
    <3>1. after[which[i]] = <<>> \o piece[i] /\ piece[i] \in Seq(Stored)
      BY <2>2, <2>4 DEF Extended, Piece
    <3> QED BY <3>1, ConcatEmptySeq
  <2>6. u[i - 1] = Cut(i - 1, c) /\ Cut(i - 1, c) \in Nat
    <3>1. i - 1 \in 0 .. c /\ i - 1 \in Nat
      OBVIOUS
    <3>2. PICK a \in Nat : a = Cut(i - 1, c)
      BY <3>1, Cuts
    <3>3. u[i - 1] = 0 + a
      BY <1>6, <2>3, <3>1, <3>2
    <3> QED BY <3>2, <3>3
  <2>7. piece[i][j].vector = n + Cut(i - 1, c) + j - 1
    BY <2>4, <2>5 DEF Piece
  <2> QED BY <2>1, <2>5, <2>6, <2>7
<1> QED BY <1>1, <1>2, <1>3, <1>4, <1>5, <1>7, <1>8 DEF Spread

(* Spread is what EachOnce asks for.                                       *)
Found ==
  LET places == {p \in (1 .. count) \X (1 .. added) : p[2] <= Len(held[indices[p[1]]])}
  IN  /\ ntotal = added /\ Cardinality(places) = added
      /\ {LabelOf(p[1], p[2]) : p \in places} = 0 .. added - 1
      /\ \A p \in places : held[indices[p[1]]][p[2]].vector = LabelOf(p[1], p[2])

LEMMA SpreadFound ==
  ASSUME Spread(indices, held, added), ntotal = added
  PROVE  Found
<1>1. /\ indices \in Seq(Workers) /\ IsInjective(indices)
      /\ held \in [Workers -> Seq(Stored)] /\ added \in Nat
      /\ Kept(held, added) /\ Single(held) /\ Complete(held, added)
      /\ \A w \in Workers \ ToSet(indices) : held[w] = <<>>
  BY DEF Spread
<1>2. /\ count \in Nat
      /\ \A i \in 1 .. count : indices[i] \in Workers /\ Len(held[indices[i]]) \in Nat
      /\ \A i, k \in 1 .. count : indices[i] = indices[k] => i = k
      /\ \A w \in ToSet(indices) : \E i \in 1 .. count : indices[i] = w
  BY <1>1, Places1 DEF count
<1> DEFINE places == {p \in (1 .. count) \X (1 .. added) :
                        p[2] <= Len(held[indices[p[1]]])}
           At(p) == held[indices[p[1]]][p[2]].vector
           f == [p \in places |-> At(p)]
<1>3. ASSUME NEW p \in places
      PROVE  /\ p[1] \in 1 .. count /\ indices[p[1]] \in Workers
             /\ p[2] \in 1 .. Len(held[indices[p[1]]]) /\ p = <<p[1], p[2]>>
  BY <1>2
<1>4. ASSUME NEW p \in places PROVE At(p) \in 0 .. added - 1 /\ At(p) = LabelOf(p[1], p[2])
  <2>1. PICK i, j, w : i = p[1] /\ j = p[2] /\ w = indices[i]
    OBVIOUS
  <2>2. i \in 1 .. count /\ w \in Workers /\ j \in 1 .. Len(held[w])
    BY <1>3, <2>1
  <2>3. held[w][j].vector \in 0 .. added - 1 /\ held[w][j].id = held[w][j].vector
    BY <1>1, <2>2 DEF Kept
  <2>4. successive_ids => held[w][j].vector = translations(indices, held)[i - 1] + j - 1
    BY <2>1, <2>2 DEF Spread, InOrder, count
  <2> QED BY <2>1, <2>3, <2>4 DEF LabelOf
<1>5. ASSUME NEW p \in places, NEW q \in places, At(p) = At(q) PROVE p = q
  <2>1. PICK i, j, w : i = p[1] /\ j = p[2] /\ w = indices[i]
    OBVIOUS
  <2>2. PICK k, l, u : k = q[1] /\ l = q[2] /\ u = indices[k]
    OBVIOUS
  <2>3. /\ i \in 1 .. count /\ w \in Workers /\ j \in 1 .. Len(held[w]) /\ p = <<i, j>>
        /\ k \in 1 .. count /\ u \in Workers /\ l \in 1 .. Len(held[u]) /\ q = <<k, l>>
    BY <1>3, <2>1, <2>2
  <2>4. held[w][j].vector = held[u][l].vector
    BY <1>5, <2>1, <2>2
  <2>5. w = u /\ j = l
    BY <1>1, <2>3, <2>4 DEF Single
  <2>6. i = k
    BY <1>2, <2>1, <2>2, <2>3, <2>5
  <2> QED BY <2>3, <2>5, <2>6
<1>6. ASSUME NEW v \in 0 .. added - 1 PROVE \E p \in places : At(p) = v
  <2>1. PICK w \in Workers : \E j \in 1 .. Len(held[w]) : held[w][j].vector = v
    BY <1>1 DEF Complete
  <2>2. PICK j \in 1 .. Len(held[w]) : held[w][j].vector = v
    BY <2>1
  <2>3. w \in ToSet(indices)
    <3>1. held[w] # <<>>
      BY <2>2
    <3> QED BY <1>1, <3>1
  <2>4. PICK i \in 1 .. count : indices[i] = w
    BY <1>2, <2>3
  <2>5. j \in 1 .. added /\ j <= Len(held[w])
    <3>1. Len(held[w]) \in Nat /\ Len(held[w]) <= added
      BY <1>1, LenProperties DEF Kept
    <3> QED BY <1>1, <3>1
  <2>6. <<i, j>> \in places
    BY <2>4, <2>5
  <2>7. At(<<i, j>>) = v
    BY <2>2, <2>4
  <2> QED BY <2>6, <2>7
<1> HIDE DEF places, At
<1>7. f \in Bijection(places, 0 .. added - 1)
  <2>1. f \in [places -> 0 .. added - 1] /\ \A p \in places : f[p] = At(p)
    BY <1>4
  <2> HIDE DEF f
  <2>2. f \in Injection(places, 0 .. added - 1)
    BY <1>5, <2>1 DEF Injection, IsInjective
  <2>3. f \in Surjection(places, 0 .. added - 1)
    BY <1>6, <2>1 DEF Surjection
  <2> QED BY <2>2, <2>3 DEF Bijection
<1>8. IsFiniteSet(0 .. added - 1) /\ Cardinality(0 .. added - 1) = added
  <2>1. PICK a \in Int, b \in Int : a = 0 /\ b = added - 1
    BY <1>1
  <2>2. IsFiniteSet(a .. b) /\ Cardinality(a .. b) = IF a > b THEN 0 ELSE b - a + 1
    BY FS_Interval
  <2>3. (IF a > b THEN 0 ELSE b - a + 1) = added
    BY <1>1, <2>1
  <2> QED BY <2>1, <2>2, <2>3
<1>9. Cardinality(places) = added
  <2>1. ExistsBijection(0 .. added - 1, places)
    <3>1. ExistsBijection(places, 0 .. added - 1)
      BY <1>7, Zenon DEF ExistsBijection
    <3> QED BY <3>1, Fun_ExistsBijSymmetric
  <2> QED BY <1>8, <2>1, FS_Bijection
<1>10. {LabelOf(p[1], p[2]) : p \in places} = 0 .. added - 1
  BY <1>4, <1>6
<1>11. \A p \in places : held[indices[p[1]]][p[2]].vector = LabelOf(p[1], p[2])
  BY <1>4 DEF At
<1> QED BY <1>9, <1>10, <1>11 DEF Found, places

-----------------------------------------------------------------------------
(***************************************************************************)
(* The invariant about the vectors.  While the calling thread is at rest   *)
(* they are Spread; while a call runs, the sub-indexes are before it or    *)
(* after it, each according to whether its task is done.                   *)
(***************************************************************************)
DataTypes ==
  /\ held \in [Workers -> Seq(Stored)] /\ uneven \in BOOLEAN
  /\ ntotal \in Nat /\ added \in Nat /\ thrown \in Nat

Resting ==
  pc \in {"idle", "starting", "started", "removing"} /\ ~uneven =>
    ntotal = added /\ Spread(indices, held, added)

Done(w) ==
  IF isThreaded THEN promise[Task(w)] = "true" ELSE \E i \in 1 .. pos - 1 : indices[i] = w

(* Each sub-index has what it had before, and its slice if it is done.     *)
Partway(before) ==
  /\ Spread(indices, before, added)
  /\ \A i \in 1 .. Len(indices) :
       held[indices[i]] = IF Done(indices[i]) THEN before[indices[i]] \o Slice(i - 1)
                                              ELSE before[indices[i]]
  /\ \A w \in Workers \ ToSet(indices) : held[w] = before[w]

Adding ==
  op = "add" /\ ~uneven /\ thrown = 0 =>
    (successive_ids => added = 0) /\ \E before : Partway(before)

Resetting ==
  op = "reset" /\ thrown = 0 => \A w \in ToSet(indices) : Done(w) => held[w] = <<>>

Searching == op = "search" /\ ~uneven => Spread(indices, held, added)

(* No task is refused, and the futures got so far were kept or threw.      *)
Answered ==
  isThreaded =>
    /\ \A w \in ToSet(indices) : promise[Task(w)] # "false"
    /\ pc = "waiting" /\ thrown = 0 => \A i \in 1 .. pos - 1 : Done(indices[i])

Underway ==
  pc \in {"posting", "waiting"} =>
    /\ op \in {"add", "search", "reset"} /\ (pc = "posting" => thrown = 0)
    /\ ~uneven => ntotal = added
    /\ Adding /\ Resetting /\ Searching /\ Answered

(* The tasks of calls to come are new, and the workers take them.          *)
Untasked == \A t \in Tasks : t[1] > calls => promise[t] = "none"

TakesTasks ==
  /\ pc \in {"starting", "started"} => ~wantStop[target] /\ op = "none"
  /\ isThreaded /\ pc \notin {"destroying", "joining", "destroyed"} =>
       \A w \in ToSet(indices) : wantStop[w] => pc = "removing" /\ w = target

DataInv == DataTypes /\ Resting /\ Underway /\ Untasked /\ TakesTasks

LEMMA SpreadKept ==
  ASSUME NEW which, NEW holding, NEW n, Spread(which, holding, n),
         indices' = which, held' = holding, added' = n, successive_ids' = successive_ids
  PROVE  Spread(indices, held, added)'
BY DEF Spread

LEMMA SpreadKeptBefore ==
  ASSUME NEW holding, Spread(indices, holding, added),
         indices' = indices, added' = added, successive_ids' = successive_ids
  PROVE  Spread(indices, holding, added)'
BY DEF Spread

LEMMA DataSame ==
  ASSUME DataInv, UNCHANGED <<mode, caller, shards, wantStop, promise>>
  PROVE  DataInv'
<1> USE DEF mode, caller, shards
<1>1. DataTypes' /\ Untasked' /\ TakesTasks'
  BY DEF DataInv, DataTypes, Untasked, TakesTasks
<1>2. Resting' /\ (Searching => Searching')
  <2>1. Spread(indices, held, added) => Spread(indices, held, added)'
    BY SpreadKept
  <2> QED BY <2>1 DEF DataInv, Resting, Searching
<1>3. \A w : Done(w)' = Done(w)
  BY DEF Done, Task
<1>4. ASSUME NEW before, Partway(before) PROVE Partway(before)'
  <2>1. Spread(indices, before, added)'
    BY <1>4, SpreadKeptBefore DEF Partway
  <2> QED BY <1>4, <2>1 DEF Partway, Done, Task, Slice, count
<1>5. Underway'
  BY <1>2, <1>4 DEF DataInv, Underway, Adding, Resetting, Answered, Done, Task
<1> QED BY <1>1, <1>2, <1>5 DEF DataInv

LEMMA SliceType ==
  ASSUME NEW c \in Nat \ {0}, c = count, added \in Nat, ntotal \in Nat, NEW i \in 1 .. c
  PROVE  Slice(i - 1) \in Seq(Stored)
<1>1. PICK a \in Nat, b \in Nat : a = Cut(i - 1, c) /\ b = Cut(i, c) /\ a <= b
  BY CutOf
<1>2. ((i - 1) * Batch) \div count = a /\ (((i - 1) + 1) * Batch) \div count = b
  <2>1. (i - 1) + 1 = i
    OBVIOUS
  <2> QED BY <1>1, <2>1 DEF Cut
<1>3. Slice(i - 1) = [k \in 1 .. b - a |->
                        [id |-> ntotal + (a + k - 1), vector |-> added + (a + k - 1)]]
  BY <1>2 DEF Slice
<1>4. PICK d \in Nat : d = b - a
  BY <1>1
<1>5. Slice(i - 1) \in [1 .. d -> Stored]
  <2>1. \A k \in 1 .. d : ntotal + (a + k - 1) \in Nat /\ added + (a + k - 1) \in Nat
    OBVIOUS
  <2>2. \A k \in 1 .. d :
          [id |-> ntotal + (a + k - 1), vector |-> added + (a + k - 1)] \in Stored
    BY <2>1 DEF Stored
  <2> QED BY <1>3, <1>4, <2>2
<1> QED BY <1>5

(* What a task does to the sub-index it runs on                            *)
Applied(i, answer, v) ==
  /\ \A w \in Workers : w # v => held'[w] = held[w]
  /\ answer = "exception" \/ op \notin {"add", "reset"} => held' = held
  /\ answer # "exception" /\ op = "add" => held'[v] = held[v] \o Slice(i - 1)
  /\ answer # "exception" /\ op = "reset" => held'[v] = <<>>

LEMMA ApplyIs ==
  ASSUME Shapes, DataTypes, NEW i \in 1 .. Len(indices), NEW answer, NEW v, v = indices[i],
         Apply(v, answer)
  PROVE  /\ held' \in [Workers -> Seq(Stored)]
         /\ Applied(i, answer, v)
<1> USE DEF Applied
<1>1. v \in Workers /\ Len(indices) \in Nat
  BY PlacesOf
<1>2. (CHOOSE k \in 1 .. count : indices[k] = v) = i
  <2>1. \A k \in 1 .. count : indices[k] = v <=> k = i
    BY PlacesOf DEF count
  <2> QED BY <2>1 DEF count
<1>3. held \in [Workers -> Seq(Stored)]
  BY DEF DataTypes
<1>4. Slice(i - 1) \in Seq(Stored)
  <2>1. PICK c \in Nat \ {0} : c = count /\ i \in 1 .. c
    BY <1>1 DEF count
  <2> QED BY <2>1, SliceType DEF DataTypes
<1>5. CASE answer = "exception" \/ op \notin {"add", "reset"}
  BY <1>3, <1>5 DEF Apply
<1>6. CASE answer # "exception" /\ op = "add"
  <2>1. held' = [held EXCEPT ![v] = @ \o Slice(i - 1)]
    BY <1>2, <1>6 DEF Apply
  <2>2. held[v] \o Slice(i - 1) \in Seq(Stored)
    BY <1>1, <1>3, <1>4, ConcatProperties
  <2> QED BY <1>1, <1>3, <1>6, <2>1, <2>2
<1>7. CASE answer # "exception" /\ op = "reset"
  <2>1. held' = [held EXCEPT ![v] = <<>>]
    BY <1>7 DEF Apply
  <2> QED BY <1>1, <1>3, <1>7, <2>1
<1> QED BY <1>5, <1>6, <1>7

(* A task is done, or has thrown, and the others are as they were.         *)
LEMMA TaskDone ==
  ASSUME Shapes, DataTypes, Adding, Resetting, Searching,
         NEW i \in 1 .. Len(indices), NEW answer \in Answers, NEW v, v = indices[i],
         Apply(v, answer), ~Done(v),
         thrown' = 0 => thrown = 0 /\ (Done(v)' <=> answer = "true"),
         \A w \in Workers : w # v => Done(w)' = Done(w),
         UNCHANGED <<op, indices, ntotal, added, uneven, successive_ids>>
  PROVE  Adding' /\ Resetting' /\ Searching'
<1>1. /\ v \in Workers /\ \A k \in 1 .. Len(indices) : indices[k] \in Workers
      /\ \A k \in 1 .. Len(indices) : indices[k] = v <=> k = i
      /\ \A w \in ToSet(indices) : w \in Workers
  BY PlacesOf
<1>2. /\ \A w \in Workers : w # v => held'[w] = held[w]
      /\ answer = "exception" \/ op \notin {"add", "reset"} => held' = held
      /\ answer # "exception" /\ op = "add" => held'[v] = held[v] \o Slice(i - 1)
      /\ answer # "exception" /\ op = "reset" => held'[v] = <<>>
  <2>1. Applied(i, answer, v)
    BY ApplyIs
  <2> QED BY <2>1 DEF Applied
<1>3. \A k : Slice(k)' = Slice(k)
  BY DEF Slice, count
<1>4. Searching'
  BY <1>2, SpreadKept DEF Searching
<1>5. answer # "true" => answer = "exception"
  BY DEF Answers
<1>6. ASSUME (op = "reset" /\ thrown = 0)', NEW w \in ToSet(indices), Done(w)'
      PROVE  held'[w] = <<>>
  <2>1. CASE w = v
    BY <1>2, <1>6, <2>1
  <2>2. CASE w # v
    BY <1>1, <1>2, <1>6, <2>2 DEF Resetting
  <2> QED BY <2>1, <2>2
<1>7. Resetting'
  BY <1>6 DEF Resetting, Done, Task
<1>8. ASSUME (op = "add" /\ ~uneven /\ thrown = 0)', NEW before, Partway(before)
      PROVE  Partway(before)'
  <2>1. Spread(indices, before, added)'
    BY <1>8, SpreadKeptBefore DEF Partway
  <2>2. ASSUME NEW k \in 1 .. Len(indices), NEW w, w = indices[k]
        PROVE  held'[w] = IF Done(w)' THEN before[w] \o Slice(k - 1) ELSE before[w]
    <3>1. held[w] = IF Done(w) THEN before[w] \o Slice(k - 1) ELSE before[w]
      BY <1>8, <2>2 DEF Partway
    <3>2. CASE w = v
      <4>1. k = i /\ held[w] = before[w]
        BY <1>1, <2>2, <3>1, <3>2
      <4>2. CASE answer = "true"
        BY <1>2, <1>8, <3>2, <4>1, <4>2
      <4>3. CASE answer # "true"
        BY <1>2, <1>5, <1>8, <3>2, <4>1, <4>3
      <4> QED BY <4>2, <4>3
    <3>3. CASE w # v
      BY <1>1, <1>2, <2>2, <3>1, <3>3
    <3> QED BY <3>2, <3>3
  <2>3. \A w \in Workers \ ToSet(indices) : held'[w] = before[w]
    <3>1. v \in ToSet(indices)
      BY PlacesOf
    <3> QED BY <1>2, <1>8, <3>1 DEF Partway
  <2> QED BY <1>3, <2>1, <2>2, <2>3 DEF Partway
<1>9. Adding'
  BY <1>8 DEF Adding
<1> QED BY <1>4, <1>7, <1>9

(* A worker finishes a task.                                               *)
LEMMA ExecuteData ==
  ASSUME WInv, OwnParts, DataInv, NEW v \in Workers, Execute(v)
  PROVE  DataInv'
<1>1. PICK answer \in Answers : RunCallback(v, answer) /\ Apply(v, answer)
  BY DEF Execute, Answers
<1>2. /\ UNCHANGED <<mode, caller, indices, ntotal, deleted, added, uneven>>
      /\ UNCHANGED <<isThreaded, successive_ids, pc, op, target, pos, thrown, calls, wantStop>>
  BY <1>1 DEF Execute, mode, caller, RunCallback, control
<1>3. Awaited(v) /\ Asked(v)
  <2>1. ~Quiet(v)
    BY <1>1 DEF RunCallback, Quiet
  <2> QED BY <2>1 DEF OwnParts, OneTask
<1>4. current[v] = Task(v) /\ promise[Task(v)] = "pending"
  BY <1>1, <1>3 DEF Asked, RunCallback
<1>5. Task(v) \in Tasks /\ calls \in 1 .. MaxCalls
  <2>1. calls \in 1 .. MaxCalls
    BY <1>3, PlacesOf DEF Awaited, OwnParts, Stations, Shapes
  <2> QED BY <2>1, ShardsAssumption DEF Task
<1>6. /\ promise'[Task(v)] = answer
      /\ \A t \in Tasks : t # Task(v) => promise'[t] = promise[t]
  BY <1>1, <1>4, <1>5 DEF RunCallback, WInv, WorkersTypeOK
<1>7. \A w \in Workers : w # v => Task(w) # Task(v) /\ Task(w) \in Tasks
  BY <1>5, ShardsAssumption DEF Task
<1>8. Untasked'
  <2>1. \A t \in Tasks : t[1] > calls => t # Task(v)
    BY <1>5 DEF Task
  <2> QED BY <1>2, <1>6, <2>1 DEF DataInv, Untasked
<1>9. TakesTasks'
  BY <1>2 DEF DataInv, TakesTasks
<1>10. CASE pc = "started"
  <2>1. held' = held
    BY <1>1, <1>10 DEF Apply, DataInv, TakesTasks
  <2>2. DataTypes'
    BY <1>2, <2>1 DEF DataInv, DataTypes
  <2>3. Spread(indices, held, added) => Spread(indices, held, added)'
    BY <1>2, <2>1, SpreadKept
  <2>4. Resting'
    BY <1>2, <2>1, <2>3 DEF DataInv, Resting
  <2>5. Underway'
    BY <1>2, <1>10 DEF Underway
  <2> QED BY <1>8, <1>9, <2>2, <2>4, <2>5 DEF DataInv
<1>11. CASE pc \in {"posting", "waiting"}
  <2>1. PICK i \in 1 .. Len(indices) : v = indices[i]
    BY <1>3, <1>11, PlacesOf DEF Awaited, OwnParts, Stations, count
  <2>2. isThreaded
    BY <1>3, <1>11 DEF Awaited, OwnParts, Stations
  <2>3. Shapes /\ DataTypes /\ Adding /\ Resetting /\ Searching
    BY <1>11 DEF DataInv, Underway, OwnParts
  <2>4. ~Done(v) /\ (Done(v)' <=> answer = "true")
    BY <1>2, <1>4, <1>6, <2>2 DEF Done, Task
  <2>5. \A w \in Workers : w # v => Done(w)' = Done(w)
    <3>1. ASSUME NEW w \in Workers, w # v PROVE Done(w)' = Done(w)
      <4>1. promise'[Task(w)] = promise[Task(w)]
        BY <1>6, <1>7, <3>1
      <4> QED BY <1>2, <2>2, <4>1 DEF Done, Task
    <3> QED BY <3>1
  <2>6. Adding' /\ Resetting' /\ Searching'
    BY <1>1, <1>2, <2>1, <2>3, <2>4, <2>5, TaskDone
  <2>7. DataTypes'
    <3>1. held' \in [Workers -> Seq(Stored)]
      BY <1>1, <2>1, <2>3, ApplyIs
    <3> QED BY <1>2, <2>3, <3>1 DEF DataTypes
  <2>8. Resting'
    BY <1>2, <1>11 DEF Resting
  <2>9. Answered'
    <3>1. \A w \in ToSet(indices) : w \in Workers
      BY PlacesOf DEF OwnParts
    <3>2. ASSUME NEW w \in ToSet(indices) PROVE promise'[Task(w)] # "false"
      <4>1. promise[Task(w)] # "false"
        BY <1>11, <2>2 DEF DataInv, Underway, Answered
      <4>2. promise'[Task(w)] = promise[Task(w)] \/ promise'[Task(w)] \in Answers
        BY <1>6, <1>7, <3>1
      <4> QED BY <4>1, <4>2 DEF Answers
    <3>3. ASSUME pc = "waiting", thrown = 0, NEW k \in 1 .. pos - 1, NEW w, w = indices[k]
          PROVE  promise'[Task(w)] = "true"
      <4>1. promise[Task(w)] = "true"
        BY <1>11, <2>2, <3>3 DEF DataInv, Underway, Answered, Done
      <4>2. w # v
        BY <1>4, <4>1
      <4>3. w \in Workers
        <5>1. PICK j \in pos .. Len(indices) : TRUE
          BY <1>3, <3>3 DEF Awaited, count
        <5>2. k \in 1 .. Len(indices)
          BY <5>1, PlacesOf DEF OwnParts
        <5> QED BY <3>3, <5>2, PlacesOf DEF OwnParts
      <4> QED BY <1>6, <1>7, <4>1, <4>2, <4>3
    <3> QED BY <1>2, <2>2, <3>2, <3>3 DEF Answered, Done, Task
  <2>10. Underway'
    BY <1>2, <2>6, <2>9 DEF DataInv, Underway
  <2> QED BY <1>8, <1>9, <2>7, <2>8, <2>10 DEF DataInv
<1> QED BY <1>3, <1>10, <1>11 DEF Awaited

(* The calling thread runs it itself.                                      *)
LEMMA RunHereData ==
  ASSUME OwnParts, DataInv, RunHere
  PROVE  DataInv'
<1>1. PICK answer \in Answers :
        /\ Apply(indices[pos], answer)
        /\ thrown' = thrown + (IF answer = "exception" THEN 1 ELSE 0)
  BY DEF RunHere
<1>2. /\ pc = "waiting" /\ ~isThreaded /\ pos <= Len(indices) /\ pos' = pos + 1
      /\ UNCHANGED <<isThreaded, successive_ids, pc, op, target, calls, indices, ntotal,
                     added, uneven, wantStop, promise>>
  BY DEF RunHere, workers, control, tasks, mode, count
<1>3. pos \in 1 .. Len(indices) /\ pos \in Nat
  BY <1>2, PlacesOf DEF OwnParts
<1> PICK v : v = indices[pos]
  OBVIOUS
<1>4. v \in Workers /\ \A k \in 1 .. Len(indices) : indices[k] = v <=> k = pos
  BY <1>3, PlacesOf DEF OwnParts
<1>5. Shapes /\ DataTypes /\ Adding /\ Resetting /\ Searching
  BY <1>2 DEF DataInv, Underway, OwnParts
<1>6. thrown' \in Nat /\ (thrown' = 0 => thrown = 0 /\ answer # "exception")
  BY <1>1, <1>5 DEF DataTypes
<1>7. ~Done(v) /\ Done(v)'
  <2>1. ASSUME NEW k \in 1 .. pos - 1 PROVE indices[k] # v
    BY <1>3, <1>4
  <2>2. pos \in 1 .. (pos + 1) - 1
    BY <1>3
  <2> QED BY <1>2, <2>1, <2>2 DEF Done
<1>8. ASSUME NEW w \in Workers, w # v PROVE Done(w)' = Done(w)
  <2>1. \A k \in 1 .. (pos + 1) - 1 : k = pos \/ k \in 1 .. pos - 1
    BY <1>3
  <2>2. \A k \in 1 .. pos - 1 : k \in 1 .. (pos + 1) - 1
    BY <1>3
  <2> QED BY <1>2, <1>8, <2>1, <2>2 DEF Done
<1>9. Adding' /\ Resetting' /\ Searching'
  <2>1. thrown' = 0 => thrown = 0 /\ (Done(v)' <=> answer = "true")
    BY <1>6, <1>7 DEF Answers
  <2>2. Apply(v, answer)
    BY <1>1
  <2> QED BY <1>2, <1>3, <1>5, <1>7, <1>8, <2>1, <2>2, TaskDone
<1>10. DataTypes'
  <2>1. Apply(v, answer)
    BY <1>1
  <2>2. held' \in [Workers -> Seq(Stored)]
    BY <1>3, <1>5, <2>1, ApplyIs
  <2> QED BY <1>2, <1>5, <1>6, <2>2 DEF DataTypes
<1>11. Underway' /\ Resting' /\ Answered'
  BY <1>2, <1>9 DEF DataInv, Underway, Resting, Answered
<1>12. Untasked' /\ TakesTasks'
  BY <1>2 DEF DataInv, Untasked, TakesTasks
<1> QED BY <1>10, <1>11, <1>12 DEF DataInv

-----------------------------------------------------------------------------
(* The steps of the calling thread                                         *)

LEMMA TotalType ==
  ASSUME DataTypes, NEW which \in Seq(Workers), IsInjective(which)
  PROVE  Total(which) \in Nat
<1>1. PICK n \in Nat : n = Len(which) /\ SumsOf(translations(which, held), which, held, n)
  BY Sums DEF DataTypes
<1> QED BY <1>1 DEF SumsOf, Total

LEMMA UntaskedKept ==
  ASSUME Untasked, promise' = promise, calls \in Nat, calls' \in {calls, calls + 1}
  PROVE  Untasked'
<1> SUFFICES ASSUME NEW t \in Tasks, t[1] > calls' PROVE promise[t] = "none"
  BY DEF Untasked
<1>1. t[1] \in Nat
  BY ShardsAssumption
<1>2. t[1] > calls
  BY <1>1
<1> QED BY <1>2 DEF Untasked

(* Where only the calling thread has moved, from and to a place at rest.   *)
LEMMA RestingKept ==
  ASSUME Resting, pc \in {"idle", "starting", "started", "removing"},
         UNCHANGED <<indices, held, ntotal, added, uneven, successive_ids>>
  PROVE  Resting'
<1>1. Spread(indices, held, added) => Spread(indices, held, added)'
  BY SpreadKept
<1> QED BY <1>1 DEF Resting

LEMMA Joins ==
  ASSUME Shapes, DataTypes, Resting, pc \in {"idle", "started"},
         NEW v \in Workers \ ToSet(indices), indices' = Append(indices, v),
         ntotal' = Total(indices'),
         UNCHANGED <<held, added, uneven, thrown, successive_ids>>
  PROVE  DataTypes' /\ Resting'
<1>1. indices' \in Seq(Workers) /\ IsInjective(indices')
  BY JoinedIn DEF Shapes
<1>2. DataTypes'
  <2>1. ntotal' \in Nat
    BY <1>1, TotalType
  <2> QED BY <2>1 DEF DataTypes
<1>3. ASSUME ~uneven PROVE ntotal' = added /\ Spread(indices, held, added)'
  <2>1. Spread(indices, held, added)
    BY <1>3 DEF Resting
  <2>2. Spread(Append(indices, v), held, added)
    BY <2>1, SpreadJoin
  <2>3. PICK those : those = indices' /\ Spread(those, held, added)
    BY <2>2
  <2>4. ntotal' = added
    BY <2>3 DEF Spread, Total
  <2> QED BY <2>3, <2>4, SpreadKept
<1> QED BY <1>2, <1>3 DEF Resting

LEMMA AddIndexData ==
  ASSUME WInv, OwnParts, DataInv, NEW v \in Workers, AddIndex(v)
  PROVE  DataInv'
<1>1. /\ pc = "idle" /\ calls' = calls + 1 /\ v \in Workers \ ToSet(indices)
      /\ target' = v /\ op' = "none"
      /\ UNCHANGED <<isThreaded, successive_ids, thrown, held, added, uneven>>
  BY DEF AddIndex, Call, Idle, mode
<1>2. promise' = promise /\ Untasked'
  <2>1. promise' = promise
    BY DEF AddIndex, StartThread, workers, tasks
  <2> QED BY <1>1, <2>1, UntaskedKept, PlacesOf DEF DataInv, OwnParts
<1>3. CASE isThreaded
  <2>1. StartThread(v) /\ pc' = "starting" /\ UNCHANGED <<indices, ntotal>>
    BY <1>3 DEF AddIndex
  <2>2. \A w \in Workers : w # v => wantStop'[w] = wantStop[w]
    BY <2>1 DEF StartThread, WInv, WorkersTypeOK
  <2>3. wantStop'[v] = FALSE
    BY <2>1 DEF StartThread, WInv, WorkersTypeOK
  <2>4. \A w \in ToSet(indices) : w \in Workers
    BY PlacesOf DEF OwnParts
  <2>5. TakesTasks'
    BY <1>1, <1>3, <2>1, <2>2, <2>3, <2>4 DEF DataInv, TakesTasks
  <2>6. DataTypes' /\ Resting'
    BY <1>1, <2>1, RestingKept DEF DataInv, DataTypes
  <2> QED BY <1>2, <2>1, <2>5, <2>6 DEF DataInv, Underway
<1>4. CASE ~isThreaded
  <2>1. indices' = Append(indices, v) /\ ntotal' = Total(indices') /\ pc' = "idle"
    BY <1>1, <1>4 DEF AddIndex
  <2>2. DataTypes' /\ Resting'
    BY <1>1, <2>1, Joins DEF DataInv, OwnParts
  <2>3. Underway' /\ TakesTasks'
    BY <1>1, <1>4, <2>1 DEF Underway, TakesTasks
  <2> QED BY <1>2, <2>2, <2>3 DEF DataInv
<1> QED BY <1>3, <1>4

LEMMA PostEmptyTaskData ==
  ASSUME WInv, OwnParts, DataInv, PostEmptyTask
  PROVE  DataInv'
<1>1. /\ pc = "starting" /\ pc' = "started" /\ Add(target, Task(target))
      /\ UNCHANGED <<isThreaded, successive_ids, op, target, thrown, calls, indices, ntotal,
                     held, added, uneven, wantStop>>
  BY DEF PostEmptyTask, mode, shards, Add
<1>2. Untasked'
  <2>1. PICK answer : promise' = [promise EXCEPT ![Task(target)] = answer]
    BY <1>1 DEF Add
  <2>2. calls \in Nat /\ \A t \in Tasks : t[1] > calls => t # Task(target)
    BY PlacesOf DEF OwnParts, Task
  <2>3. \A t \in Tasks : t # Task(target) => promise'[t] = promise[t]
    BY <2>1 DEF WInv, WorkersTypeOK
  <2> QED BY <1>1, <2>2, <2>3 DEF DataInv, Untasked
<1>3. DataTypes' /\ Resting'
  BY <1>1, RestingKept DEF DataInv, DataTypes
<1>4. Underway' /\ TakesTasks'
  BY <1>1 DEF DataInv, Underway, TakesTasks
<1> QED BY <1>2, <1>3, <1>4 DEF DataInv

LEMMA FinishAddIndexData ==
  ASSUME WInv, OwnParts, DataInv, FinishAddIndex
  PROVE  DataInv'
<1>1. /\ pc = "started" /\ pc' = "idle" /\ indices' = Append(indices, target)
      /\ ntotal' = Total(indices') /\ target \in Workers \ ToSet(indices)
      /\ UNCHANGED <<isThreaded, successive_ids, op, target, thrown, calls, held, added,
                     uneven, wantStop, promise>>
  BY DEF FinishAddIndex, mode, workers, control, tasks, OwnParts, Stations
<1>2. DataTypes' /\ Resting'
  BY <1>1, Joins DEF DataInv, OwnParts
<1>3. ToSet(indices') = ToSet(indices) \cup {target}
  BY <1>1, JoinedIn DEF OwnParts, Shapes
<1>4. Underway' /\ TakesTasks' /\ Untasked'
  BY <1>1, <1>3 DEF DataInv, Underway, TakesTasks, Untasked
<1> QED BY <1>2, <1>4 DEF DataInv

LEMMA RunOnIndexData ==
  ASSUME WInv, OwnParts, DataInv, NEW what \in {"add", "search", "reset"}, RunOnIndex(what)
  PROVE  DataInv'
<1>1. /\ pc = "idle" /\ calls < MaxCalls /\ calls' = calls + 1 /\ pos' = 1
      /\ op' = what /\ thrown' = 0 /\ pc' \in {"posting", "waiting"}
      /\ what = "add" /\ successive_ids => ntotal = 0
      /\ UNCHANGED <<isThreaded, successive_ids, target, indices, ntotal, held, added,
                     uneven, wantStop, promise>>
  BY DEF RunOnIndex, Call, Idle, mode, shards, workers, control, tasks
<1>2. calls \in Nat /\ \A w \in ToSet(indices) : w \in Workers
  BY PlacesOf DEF OwnParts
<1>3. Untasked' /\ DataTypes' /\ Resting' /\ TakesTasks'
  BY <1>1, <1>2, UntaskedKept DEF DataInv, DataTypes, Resting, TakesTasks
<1>4. ASSUME NEW w \in ToSet(indices) PROVE promise[<<calls + 1, w>>] = "none"
  <2>1. <<calls + 1, w>> \in Tasks
    BY <1>1, <1>2, ShardsAssumption
  <2> QED BY <1>2, <2>1 DEF DataInv, Untasked
<1>5. ASSUME NEW w \in ToSet(indices) PROVE ~Done(w)'
  <2>1. promise'[Task(w)'] = "none"
    BY <1>1, <1>4 DEF Task
  <2> QED BY <1>1, <2>1 DEF Done, Task
<1>6. ~uneven => ntotal = added /\ Spread(indices, held, added)
  BY <1>1 DEF DataInv, Resting
<1>7. Adding'
  <2> SUFFICES ASSUME what = "add", ~uneven
               PROVE  (successive_ids => added = 0) /\ \E before : Partway(before)'
    BY <1>1 DEF Adding
  <2> PICK before : before = held
    OBVIOUS
  <2>1. Spread(indices, before, added)'
    BY <1>1, <1>6, SpreadKeptBefore
  <2>2. \A i \in 1 .. Len(indices) : indices[i] \in ToSet(indices)
    BY PlacesOf DEF OwnParts
  <2>3. Partway(before)'
    BY <1>1, <1>5, <2>1, <2>2 DEF Partway, Done, Task
  <2> QED BY <1>1, <1>6, <2>3
<1>8. Resetting'
  BY <1>1, <1>5 DEF Resetting, Done, Task
<1>9. Searching'
  BY <1>1, <1>6, SpreadKept DEF Searching
<1>10. Answered'
  BY <1>1, <1>4 DEF Answered, Task
<1> QED BY <1>1, <1>3, <1>6, <1>7, <1>8, <1>9, <1>10 DEF DataInv, Underway

(* A task is posted, or a future got: the vectors are as they were.        *)
LEMMA UnderwayKept ==
  ASSUME Shapes, Adding, Resetting, Searching, \A w \in Workers : Done(w)' = Done(w),
         thrown' = 0 => thrown = 0,
         UNCHANGED <<op, indices, held, ntotal, added, uneven, successive_ids>>
  PROVE  Adding' /\ Resetting' /\ Searching'
<1>1. /\ \A k \in 1 .. Len(indices) : indices[k] \in Workers
      /\ \A w \in ToSet(indices) : w \in Workers
  BY PlacesOf
<1>2. Spread(indices, held, added) => Spread(indices, held, added)'
  BY SpreadKept
<1>3. \A k : Slice(k)' = Slice(k)
  BY DEF Slice, count
<1>4. Resetting'
  <2>1. ASSUME (op = "reset" /\ thrown = 0)', NEW w \in ToSet(indices), Done(w)'
        PROVE  held'[w] = <<>>
    BY <1>1, <2>1 DEF Resetting
  <2> QED BY <2>1 DEF Resetting, Done, Task
<1>5. ASSUME NEW before, Partway(before) PROVE Partway(before)'
  <2>1. Spread(indices, before, added)'
    BY <1>5, SpreadKeptBefore DEF Partway
  <2>2. ASSUME NEW k \in 1 .. Len(indices), NEW w, w = indices[k]
        PROVE  held'[w] = IF Done(w)' THEN before[w] \o Slice(k - 1) ELSE before[w]
    <3>1. held[w] = IF Done(w) THEN before[w] \o Slice(k - 1) ELSE before[w]
      BY <1>5, <2>2 DEF Partway
    <3> QED BY <1>1, <2>2, <3>1
  <2>3. \A w \in Workers \ ToSet(indices) : held'[w] = before[w]
    BY <1>5 DEF Partway
  <2> QED BY <1>3, <2>1, <2>2, <2>3 DEF Partway
<1> QED BY <1>2, <1>4, <1>5 DEF Adding, Searching

LEMMA PostData ==
  ASSUME WInv, OwnParts, DataInv, Post
  PROVE  DataInv'
<1>1. /\ pc = "posting" /\ Add(indices[pos], Task(indices[pos])) /\ isThreaded
      /\ pc' \in {"posting", "waiting"} /\ (pc' = "waiting" => pos' = 1)
      /\ UNCHANGED <<isThreaded, successive_ids, op, target, thrown, calls, indices, ntotal,
                     held, added, uneven, wantStop>>
  BY DEF Post, mode, shards, Add, OwnParts, Stations
<1>2. pos \in 1 .. Len(indices)
  BY <1>1, PlacesOf DEF OwnParts, Stations, count
<1> PICK v \in Workers : v = indices[pos] /\ v \in ToSet(indices)
  BY <1>2, PlacesOf DEF OwnParts
<1>3. ~wantStop[v]
  BY <1>1 DEF DataInv, TakesTasks
<1>4. Task(v) \in Tasks /\ calls \in Nat
  BY <1>1, PlacesOf, ShardsAssumption DEF OwnParts, Stations, Task, Shapes
<1>5. /\ promise[Task(v)] = "none" /\ promise'[Task(v)] = "pending"
      /\ \A t \in Tasks : t # Task(v) => promise'[t] = promise[t]
  BY <1>1, <1>3, <1>4 DEF Add, WInv, WorkersTypeOK
<1>6. \A w \in Workers : w # v => promise'[Task(w)] = promise[Task(w)]
  <2>1. \A w \in Workers : w # v => Task(w) # Task(v) /\ Task(w) \in Tasks
    BY <1>4, ShardsAssumption DEF Task
  <2> QED BY <1>5, <2>1
<1>7. ASSUME NEW w \in Workers PROVE Done(w)' = Done(w)
  <2>1. (promise'[Task(w)] = "true") = (promise[Task(w)] = "true")
    BY <1>5, <1>6
  <2> QED BY <1>1, <2>1 DEF Done, Task
<1>8. Shapes /\ Adding /\ Resetting /\ Searching /\ Answered
  BY <1>1 DEF OwnParts, DataInv, Underway
<1>9. Adding' /\ Resetting' /\ Searching'
  BY <1>1, <1>7, <1>8, UnderwayKept
<1>10. Answered'
  <2>1. ASSUME NEW w \in ToSet(indices) PROVE promise'[Task(w)] # "false"
    <3>1. w \in Workers
      BY PlacesOf DEF OwnParts
    <3> QED BY <1>1, <1>5, <1>6, <1>8, <3>1 DEF Answered
  <2> QED BY <1>1, <2>1 DEF Answered, Task
<1>11. Underway'
  BY <1>1, <1>9, <1>10 DEF DataInv, Underway
<1>12. Untasked'
  <2>1. \A t \in Tasks : t[1] > calls => t # Task(v)
    BY <1>4 DEF Task
  <2> QED BY <1>1, <1>5, <2>1 DEF DataInv, Untasked
<1>13. DataTypes' /\ Resting' /\ TakesTasks'
  BY <1>1 DEF DataInv, DataTypes, Resting, TakesTasks
<1> QED BY <1>11, <1>12, <1>13 DEF DataInv

LEMMA GetFutureData ==
  ASSUME WInv, OwnParts, DataInv, GetFuture
  PROVE  DataInv'
<1>1. /\ pc = "waiting" /\ isThreaded /\ pos <= Len(indices) /\ pos' = pos + 1
      /\ promise[Task(indices[pos])] \notin {"none", "pending"}
      /\ thrown' = thrown + (IF promise[Task(indices[pos])] = "exception" THEN 1 ELSE 0)
      /\ UNCHANGED <<isThreaded, successive_ids, pc, op, target, calls, indices, ntotal,
                     held, added, uneven, wantStop, promise>>
  BY DEF GetFuture, mode, shards, count, workers, control, tasks
<1>2. pos \in 1 .. Len(indices) /\ pos \in Nat
  BY <1>1, PlacesOf DEF OwnParts
<1> PICK v \in Workers : v = indices[pos] /\ v \in ToSet(indices)
  BY <1>2, PlacesOf DEF OwnParts
<1>3. thrown' \in Nat /\ (thrown' = 0 => thrown = 0 /\ promise[Task(v)] # "exception")
  BY <1>1 DEF DataInv, DataTypes
<1>4. Shapes /\ Adding /\ Resetting /\ Searching /\ Answered
  BY <1>1 DEF OwnParts, DataInv, Underway
<1>5. \A w : Done(w)' = Done(w)
  BY <1>1 DEF Done, Task
<1>6. Adding' /\ Resetting' /\ Searching'
  BY <1>1, <1>3, <1>4, <1>5, UnderwayKept
<1>7. thrown' = 0 => promise[Task(v)] = "true"
  <2>1. Task(v) \in Tasks
    BY <1>1, PlacesOf, ShardsAssumption DEF OwnParts, Stations, Task, Shapes
  <2>2. promise[Task(v)] \in {"none", "pending", "true", "false", "exception"}
    BY <2>1 DEF WInv, WorkersTypeOK
  <2>3. promise[Task(v)] # "false"
    BY <1>1, <1>4 DEF Answered
  <2> QED BY <1>1, <1>3, <2>2, <2>3
<1>8. Answered'
  <2>1. ASSUME thrown' = 0, NEW i \in 1 .. (pos + 1) - 1
        PROVE  promise[Task(indices[i])] = "true"
    <3>1. i = pos \/ i \in 1 .. pos - 1
      BY <1>2
    <3> QED BY <1>1, <1>3, <1>4, <1>7, <2>1, <3>1 DEF Answered, Done
  <2> QED BY <1>1, <1>4, <2>1 DEF Answered, Done, Task
<1>9. Underway'
  BY <1>1, <1>6, <1>8 DEF DataInv, Underway
<1>10. DataTypes' /\ Resting' /\ TakesTasks' /\ Untasked'
  BY <1>1, <1>3 DEF DataInv, DataTypes, Resting, TakesTasks, Untasked
<1> QED BY <1>9, <1>10 DEF DataInv

LEMMA RemoveIndexData ==
  ASSUME WInv, OwnParts, DataInv, NEW v \in Workers, RemoveIndex(v)
  PROVE  DataInv'
<1>1. /\ pc = "idle" /\ calls' = calls + 1 /\ v \in ToSet(indices)
      /\ pc' = "removing" /\ target' = v /\ (Stop(v) \/ UNCHANGED workers)
      /\ UNCHANGED <<isThreaded, successive_ids, thrown, indices, ntotal, held, added,
                     uneven>>
  BY DEF RemoveIndex, Call, Idle, mode, shards
<1>2. promise' = promise /\ \A w \in Workers : w # v => wantStop'[w] = wantStop[w]
  BY <1>1 DEF Stop, workers, control, tasks, WInv, WorkersTypeOK
<1>3. Untasked'
  BY <1>1, <1>2, UntaskedKept, PlacesOf DEF DataInv, OwnParts
<1>4. DataTypes' /\ Resting'
  BY <1>1, RestingKept DEF DataInv, DataTypes
<1>5. \A w \in ToSet(indices) : w \in Workers
  BY PlacesOf DEF OwnParts
<1>6. Underway' /\ TakesTasks'
  BY <1>1, <1>2, <1>5 DEF DataInv, Underway, TakesTasks
<1> QED BY <1>3, <1>4, <1>6 DEF DataInv

LEMMA FinishRemoveIndexData ==
  ASSUME WInv, OwnParts, DataInv, FinishRemoveIndex
  PROVE  DataInv'
<1>1. /\ pc = "removing" /\ pc' = "idle" /\ ntotal' = Total(indices')
      /\ indices' = RemoveAt(indices, CHOOSE i \in 1 .. count : indices[i] = target)
      /\ uneven' = (uneven \/ held[target] # <<>>) /\ target \in ToSet(indices)
      /\ UNCHANGED <<isThreaded, successive_ids, op, target, thrown, calls, held, added,
                     wantStop, promise>>
  BY DEF FinishRemoveIndex, mode, workers, control, tasks, OwnParts, Stations
<1>2. PICK i \in 1 .. Len(indices) :
        indices[i] = target /\ indices' = RemoveAt(indices, i)
  <2>1. \E i \in 1 .. Len(indices) : indices[i] = target
    BY <1>1, PlacesOf DEF OwnParts
  <2> QED BY <1>1, <2>1 DEF count
<1>3. /\ indices' \in Seq(Workers) /\ IsInjective(indices')
      /\ ToSet(indices') = ToSet(indices) \ {target}
  BY <1>2, RemovedAt DEF OwnParts, Shapes
<1>4. DataTypes'
  <2>1. ntotal' \in Nat
    BY <1>1, <1>3, TotalType DEF DataInv
  <2> QED BY <1>1, <2>1 DEF DataInv, DataTypes
<1>5. ASSUME ~uneven' PROVE ntotal' = added /\ Spread(indices, held, added)'
  <2>1. Spread(indices, held, added) /\ held[indices[i]] = <<>>
    BY <1>1, <1>2, <1>5 DEF DataInv, Resting
  <2>2. Spread(RemoveAt(indices, i), held, added)
    BY <2>1, SpreadRemove
  <2>3. PICK those : those = indices' /\ Spread(those, held, added)
    BY <1>2, <2>2
  <2>4. ntotal' = added
    BY <1>1, <2>3 DEF Spread, Total
  <2> QED BY <1>1, <2>3, <2>4, SpreadKept
<1>6. Resting'
  BY <1>1, <1>5 DEF Resting
<1>7. Underway' /\ TakesTasks' /\ Untasked'
  BY <1>1, <1>3 DEF DataInv, Underway, TakesTasks, Untasked
<1> QED BY <1>4, <1>6, <1>7 DEF DataInv

LEMMA DestroyData ==
  ASSUME WInv, OwnParts, DataInv, Destroy \/ DestroyNext \/ DestroyJoined \/ Destroyed
  PROVE  DataInv'
<1>1. /\ pc' \in {"destroying", "joining", "destroyed"} /\ promise' = promise
      /\ calls' \in {calls, calls + 1}
      /\ UNCHANGED <<isThreaded, successive_ids, thrown, indices, ntotal, held, added,
                     uneven>>
  BY DEF Destroy, DestroyNext, DestroyJoined, Destroyed, Call, mode, shards, workers,
         control, tasks, Stop
<1>2. Untasked'
  BY <1>1, UntaskedKept, PlacesOf DEF DataInv, OwnParts
<1>3. DataTypes' /\ Resting' /\ Underway' /\ TakesTasks'
  BY <1>1 DEF DataInv, DataTypes, Resting, Underway, TakesTasks
<1> QED BY <1>2, <1>3 DEF DataInv

LEMMA SearchNothingData ==
  ASSUME WInv, OwnParts, DataInv, SearchNothing
  PROVE  DataInv'
<1>1. /\ pc' = "crashed" /\ promise' = promise /\ calls' = calls + 1 /\ ToSet(indices) = {}
      /\ UNCHANGED <<isThreaded, successive_ids, thrown, indices, ntotal, held, added,
                     uneven>>
  BY PlacesOf DEF SearchNothing, Call, mode, shards, workers, control, tasks, ToSet
<1>2. Untasked'
  BY <1>1, UntaskedKept, PlacesOf DEF DataInv, OwnParts
<1>3. DataTypes' /\ Resting' /\ Underway' /\ TakesTasks'
  BY <1>1 DEF DataInv, DataTypes, Resting, Underway, TakesTasks
<1> QED BY <1>2, <1>3 DEF DataInv

(* When no task has thrown, all of them are done.                          *)
LEMMA AllDone ==
  ASSUME Shapes, Answered, pc = "waiting", pos > Len(indices), thrown = 0,
         NEW i \in 1 .. Len(indices)
  PROVE  Done(indices[i])
<1>1. i \in 1 .. pos - 1
  BY PlacesOf
<1> QED BY <1>1 DEF Answered, Done, Shapes

(* The add is complete: every sub-index has its slice.                     *)
LEMMA AddDone ==
  ASSUME Shapes, DataTypes, Adding, Answered, pc = "waiting", pos > Len(indices),
         op = "add", ~uneven, thrown = 0, ntotal = added
  PROVE  Spread(indices, held, added + IF indices = <<>> THEN 0 ELSE Batch)
<1>1. PICK before : Partway(before) /\ (successive_ids => added = 0)
  BY DEF Adding
<1>2. /\ held \in [Workers -> Seq(Stored)] /\ added \in Nat
      /\ before \in [Workers -> Seq(Stored)] /\ Spread(indices, before, added)
  BY <1>1 DEF DataTypes, Partway, Spread
<1>3. PICK c \in Nat : c = Len(indices)
  BY PlacesOf
<1>4. /\ \A i \in 1 .. c : held[indices[i]] = before[indices[i]] \o Slice(i - 1)
      /\ \A w \in Workers \ ToSet(indices) : held[w] = before[w]
  BY <1>1, <1>3, AllDone DEF Partway
<1>5. CASE indices = <<>>
  <2>1. ToSet(indices) = {}
    BY <1>5 DEF ToSet
  <2>2. held = before
    BY <1>2, <1>4, <2>1
  <2> QED BY <1>2, <1>5, <2>2
<1>6. CASE indices # <<>>
  <2>1. c \in Nat \ {0}
    BY <1>3, <1>6, EmptySeq DEF Shapes
  <2> DEFINE piece == [i \in 1 .. c |-> Slice(i - 1)]
  <2>2. \A i \in 1 .. c : piece[i] = Slice(i - 1)
    OBVIOUS
  <2>3. ASSUME NEW i \in 1 .. c PROVE Piece(Slice(i - 1), i, c, added)
    BY <1>2, <1>3, <2>1, SliceIs DEF count
  <2> HIDE DEF piece
  <2>4. Pieces(piece, c, added)
    BY <2>2, <2>3 DEF Pieces
  <2>5. Extended(held, before, piece, indices)
    BY <1>3, <1>4, <2>2 DEF Extended
  <2>6. Spread(indices, held, added + Batch)
    BY <1>1, <1>2, <1>3, <2>1, <2>4, <2>5, SpreadAdd
  <2> QED BY <1>6, <2>6
<1> QED BY <1>5, <1>6

LEMMA FinishRunData ==
  ASSUME WInv, OwnParts, DataInv, FinishRun
  PROVE  DataInv'
<1>1. /\ pc = "waiting" /\ pos > Len(indices) /\ pc' = "idle"
      /\ UNCHANGED <<isThreaded, successive_ids, op, target, thrown, calls, indices, held,
                     wantStop, promise>>
  BY DEF FinishRun, mode, count, workers, control, tasks
<1>2. /\ Shapes /\ DataTypes /\ Adding /\ Resetting /\ Searching /\ Answered
      /\ ~uneven => ntotal = added
      /\ op \in {"add", "search", "reset"}
  BY <1>1 DEF DataInv, Underway, OwnParts
<1>3. indices \in Seq(Workers) /\ IsInjective(indices)
  BY <1>2 DEF Shapes
<1>4. Total(indices) \in Nat
  BY <1>2, <1>3, TotalType
<1>5. Underway' /\ Untasked' /\ TakesTasks'
  BY <1>1 DEF DataInv, Underway, Untasked, TakesTasks
<1> DEFINE Settled == DataTypes' /\ (~uneven' => ntotal' = added' /\ Spread(indices, held, added)')
<1>6. ASSUME thrown > 0 PROVE Settled
  <2>1. uneven' = (uneven \/ op # "search") /\ UNCHANGED <<ntotal, added>>
    BY <1>6 DEF FinishRun
  <2>2. DataTypes'
    BY <1>1, <1>2, <2>1 DEF DataTypes
  <2>3. Spread(indices, held, added) => Spread(indices, held, added)'
    BY <1>1, <2>1, SpreadKept
  <2> QED BY <1>2, <2>1, <2>2, <2>3 DEF Searching
<1>7. ASSUME thrown = 0 PROVE Settled
  <2> USE <1>7
  <2>0. ~(thrown > 0)
    OBVIOUS
  <2>1. CASE op = "add"
    <3>1. /\ ntotal' = Total(indices) /\ uneven' = uneven
          /\ added' = added + IF indices = <<>> THEN 0 ELSE Batch
      BY <2>0, <2>1 DEF FinishRun
    <3>2. DataTypes'
      BY <1>1, <1>2, <1>4, <3>1, ShardsAssumption DEF DataTypes
    <3>3. ASSUME ~uneven PROVE ntotal' = added' /\ Spread(indices, held, added)'
      <4>1. PICK n : n = added + IF indices = <<>> THEN 0 ELSE Batch
        OBVIOUS
      <4>2. Spread(indices, held, n)
        BY <1>1, <1>2, <2>1, <3>3, <4>1, AddDone
      <4>3. Total(indices) = n
        BY <4>2 DEF Spread, Total
      <4>4. Spread(indices, held, added)'
        BY <1>1, <3>1, <4>1, <4>2, SpreadKept
      <4> QED BY <3>1, <4>1, <4>3, <4>4
    <3> QED BY <3>1, <3>2, <3>3
  <2>2. CASE op = "reset"
    <3>1. /\ ntotal' = 0 /\ added' = 0
          /\ uneven' = \E w \in Workers \ ToSet(indices) : held[w] # <<>>
      BY <2>0, <2>2 DEF FinishRun
    <3>2. DataTypes'
      BY <1>1, <1>2, <3>1 DEF DataTypes
    <3>3. ASSUME ~uneven' PROVE Spread(indices, held, added)'
      <4>1. ASSUME NEW w \in ToSet(indices) PROVE held[w] = <<>>
        <5>1. PICK i \in 1 .. Len(indices) : indices[i] = w
          BY <1>2, PlacesOf
        <5>2. Done(w)
          BY <1>1, <1>2, <5>1, AllDone
        <5> QED BY <1>2, <2>2, <5>2 DEF Resetting
      <4>2. held \in [Workers -> Seq(Stored)]
        BY <1>2 DEF DataTypes
      <4>3. \A w \in Workers : held[w] = <<>>
        BY <3>1, <3>3, <4>1
      <4>4. held = [w \in Workers |-> <<>>]
        BY <4>2, <4>3
      <4>5. Spread(indices, held, 0)
        BY <1>3, <4>4, SpreadEmpty
      <4> QED BY <1>1, <3>1, <4>5, SpreadKept
    <3> QED BY <3>1, <3>2, <3>3
  <2>3. CASE op = "search"
    <3>1. UNCHANGED <<ntotal, added, uneven>>
      BY <2>0, <2>3 DEF FinishRun
    <3>2. DataTypes'
      BY <1>1, <1>2, <3>1 DEF DataTypes
    <3>3. Spread(indices, held, added) => Spread(indices, held, added)'
      BY <1>1, <3>1, SpreadKept
    <3> QED BY <1>2, <2>3, <3>1, <3>2, <3>3 DEF Searching
  <2> QED BY <1>2, <2>1, <2>2, <2>3
<1>8. Settled
  <2>1. thrown = 0 \/ thrown > 0
    BY <1>2 DEF DataTypes
  <2> QED BY <1>6, <1>7, <2>1
<1> QED BY <1>5, <1>8 DEF DataInv, Resting

-----------------------------------------------------------------------------
LEMMA InitData == Init => DataInv
<1> SUFFICES ASSUME Init PROVE DataInv
  OBVIOUS
<1>1. /\ pc = "idle" /\ indices = <<>> /\ ntotal = 0 /\ added = 0 /\ uneven = FALSE
      /\ held = [w \in Workers |-> <<>>] /\ thrown = 0 /\ promise = [t \in Tasks |-> "none"]
  BY DEF Init, WorkersInit
<1>2. Spread(indices, held, 0)
  <2>1. indices \in Seq(Workers) /\ IsInjective(indices)
    BY <1>1 DEF IsInjective
  <2> QED BY <1>1, <2>1, SpreadEmpty
<1>3. DataTypes /\ Resting
  <2>1. held \in [Workers -> Seq(Stored)]
    BY <1>1
  <2>2. DataTypes
    BY <1>1, <2>1 DEF DataTypes
  <2> QED BY <1>1, <1>2, <2>2 DEF Resting
<1>4. Underway /\ Untasked /\ TakesTasks
  BY <1>1 DEF Underway, Untasked, TakesTasks, ToSet
<1> QED BY <1>3, <1>4 DEF DataInv

LEMMA NextData ==
  ASSUME WInv, OwnParts, DataInv, owner = "index", Next
  PROVE  DataInv'
<1>1. CASE Caller
  BY <1>1, PostEmptyTaskData, FinishAddIndexData, PostData, GetFutureData, RunHereData,
     FinishRunData, FinishRemoveIndexData, DestroyData DEF Caller
<1>2. ASSUME NEW w \in Workers, AddIndex(w) \/ RemoveIndex(w) PROVE DataInv'
  BY <1>2, AddIndexData, RemoveIndexData
<1>3. ASSUME NEW what \in {"add", "search", "reset"}, RunOnIndex(what) PROVE DataInv'
  BY <1>3, RunOnIndexData
<1>4. CASE Destroy \/ SearchNothing
  BY <1>4, DestroyData, SearchNothingData
<1>5. ASSUME NEW w \in Workers,
             WorkerStep(w) \/ (WakeSpuriously(w) /\ UNCHANGED <<mode, caller, shards>>)
      PROVE  DataInv'
  <2>1. UNCHANGED <<mode, caller, shards, wantStop, promise>>
    BY <1>5 DEF WorkerStep, ThreadStep, WakeSpuriously, Wait, Take, LeaveLoop, FlushNext,
       Exit, control, tasks
  <2> QED BY <2>1, DataSame
<1>6. ASSUME NEW w \in Workers, Execute(w) PROVE DataInv'
  BY <1>6, ExecuteData
<1> QED BY <1>1, <1>2, <1>3, <1>4, <1>5, <1>6 DEF Next, Others

(* For any number of sub-indexes, any batch, and calls without end: while  *)
(* no task has thrown and no shard with vectors has been removed, every    *)
(* vector added is in one shard, and a search reports it under its number. *)
THEOREM EachVectorOnce == Spec => []EachOnce
<1> DEFINE Data == owner = "index" => DataInv
<1>1. Init => Data
  BY InitData
<1>2. IInv /\ Data /\ [Next]_vars => Data'
  <2> SUFFICES ASSUME IInv, Data, [Next]_vars, owner' = "index" PROVE DataInv'
    OBVIOUS
  <2>1. CASE UNCHANGED vars
    <3>1. UNCHANGED <<mode, caller, shards, wantStop, promise>> /\ owner = "index"
      BY <2>1 DEF vars, mode, workers, control, tasks
    <3> QED BY <3>1, DataSame
  <2>2. CASE Next
    <3>1. owner' = owner
      BY <2>2 DEF Next, Caller, PostEmptyTask, FinishAddIndex, Post, GetFuture, RunHere,
         FinishRun, FinishRemoveIndex, DestroyNext, DestroyJoined, Destroyed, AddIndex,
         RemoveIndex, RunOnIndex, SearchNothing, Destroy, Others, WorkerStep, Execute, mode
    <3> QED BY <2>2, <3>1, NextData DEF IInv
  <2> QED BY <2>1, <2>2
<1>3. Data => EachOnce
  BY SpreadFound DEF DataInv, Resting, EachOnce, Idle, Found
<1> QED BY <1>1, <1>2, <1>3, SpecIInv, PTL DEF Spec
-----------------------------------------------------------------------------
(***************************************************************************)
(* No call waits for nothing: the safety half of CallsEnd.  The invariant  *)
(* says how far the posting of a call has come, and that the workers of    *)
(* the index have a thread, and are told to stop before they are joined.   *)
(***************************************************************************)
Untold(w) == promise[Task(w)] = "none"

Posted ==
  /\ pc = "starting" => Untold(target)
  /\ pc = "started" => promise[Task(target)] \in {"pending", "true"}
  /\ pc = "posting" => \A i \in 1 .. Len(indices) : Untold(indices[i]) <=> i >= pos
  /\ pc = "waiting" /\ isThreaded => \A i \in 1 .. Len(indices) : ~Untold(indices[i])

Threaded ==
  /\ pc \in {"starting", "started"} => thread[target] # "none"
  /\ isThreaded => \A w \in ToSet(indices) : thread[w] # "none"
  /\ pc = "removing" /\ isThreaded => wantStop[target]
  /\ pc = "joining" /\ isThreaded => wantStop[indices[pos]]

(* A worker that has had a thread is never without one again: it exits.    *)
LEMMA ThreadStays ==
  ASSUME WInv, NEW v \in Workers, NEW w \in Workers, thread[w] # "none",
         Moves(v) \/ Stop(v) \/ StartThread(v) \/ \E t \in Tasks : Add(v, t)
  PROVE  thread'[w] # "none"
<1> USE DEF WInv, WorkersTypeOK, tasks, control
<1>1. CASE ThreadStep(v) \/ WakeSpuriously(v)
  BY <1>1 DEF ThreadStep, WakeSpuriously, Wait, Take, LeaveLoop, FlushNext, Exit
<1>2. CASE \E answer \in Answers : RunCallback(v, answer)
  BY <1>2 DEF RunCallback
<1>3. CASE Stop(v)
  BY <1>3 DEF Stop, Notify
<1>4. CASE StartThread(v)
  BY <1>4 DEF StartThread
<1>5. ASSUME NEW t \in Tasks, Add(v, t) PROVE thread'[w] # "none"
  BY <1>5 DEF Add, Notify
<1> QED BY <1>1, <1>2, <1>3, <1>4, <1>5 DEF Moves

(* Where the calling thread moves without the workers.                     *)
LEMMA CourseSame ==
  ASSUME OwnParts, Posted, Threaded, UNCHANGED <<workers, isThreaded>>,
         \/ pc' \in {"idle", "destroying", "destroyed", "crashed"}
         \/ pc = "waiting" /\ UNCHANGED <<pc, calls>>,
         ToSet(indices') \subseteq ToSet(indices) \/ (pc = "started" /\ ToSet(indices') = ToSet(indices) \cup {target}),
         pc = "waiting" => indices' = indices
  PROVE  Posted' /\ Threaded'
<1>1. thread' = thread /\ promise' = promise /\ wantStop' = wantStop
  BY DEF workers, control, tasks
<1>2. Threaded'
  BY <1>1 DEF Threaded
<1>3. Posted'
  BY <1>1 DEF Posted, Untold, Task
<1> QED BY <1>2, <1>3

LEMMA AddIndexCourse ==
  ASSUME WInv, OwnParts, Untasked, Posted, Threaded, NEW v \in Workers, AddIndex(v)
  PROVE  Posted' /\ Threaded'
<1>1. /\ pc = "idle" /\ calls' = calls + 1 /\ target' = v /\ calls < MaxCalls
      /\ UNCHANGED isThreaded
  BY DEF AddIndex, Call, Idle, mode
<1>2. CASE ~isThreaded
  BY <1>1, <1>2 DEF AddIndex, Posted, Threaded
<1>3. CASE isThreaded
  <2>1. StartThread(v) /\ pc' = "starting" /\ indices' = indices
    BY <1>3 DEF AddIndex
  <2>2. promise' = promise /\ thread'[v] = "looping"
    BY <2>1 DEF StartThread, WInv, WorkersTypeOK
  <2>3. promise[<<calls + 1, v>>] = "none"
    <3>1. <<calls + 1, v>> \in Tasks /\ <<calls + 1, v>>[1] > calls
      BY <1>1, PlacesOf, ShardsAssumption DEF OwnParts, Shapes
    <3> QED BY <3>1 DEF Untasked
  <2>4. Posted'
    BY <1>1, <2>1, <2>2, <2>3 DEF Posted, Untold, Task
  <2>5. \A w \in ToSet(indices) : thread'[w] # "none"
    BY <1>3, <2>1, ThreadStays, PlacesOf DEF OwnParts, Threaded
  <2> QED BY <1>1, <2>1, <2>2, <2>4, <2>5 DEF Threaded
<1> QED BY <1>2, <1>3

LEMMA PostEmptyTaskCourse ==
  ASSUME WInv, OwnParts, TakesTasks, Posted, Threaded, PostEmptyTask
  PROVE  Posted' /\ Threaded'
<1>1. /\ pc = "starting" /\ pc' = "started" /\ Add(target, Task(target))
      /\ UNCHANGED <<isThreaded, target, calls, indices>> /\ target \in Workers
  BY DEF PostEmptyTask, mode, shards, OwnParts, Stations
<1>2. Task(target) \in Tasks
  BY <1>1, PlacesOf, ShardsAssumption DEF OwnParts, Stations, Task, Shapes
<1>3. promise'[Task(target)] = "pending"
  BY <1>1, <1>2 DEF TakesTasks, Add, WInv, WorkersTypeOK
<1>4. Posted'
  BY <1>1, <1>3 DEF Posted, Task
<1>5. \A w \in Workers : thread[w] # "none" => thread'[w] # "none"
  BY <1>1, <1>2, ThreadStays
<1>6. \A w \in ToSet(indices) : w \in Workers
  BY PlacesOf DEF OwnParts
<1> QED BY <1>1, <1>4, <1>5, <1>6 DEF Threaded

LEMMA RunOnIndexCourse ==
  ASSUME WInv, OwnParts, Untasked, Posted, Threaded, NEW what, RunOnIndex(what)
  PROVE  Posted' /\ Threaded'
<1>1. /\ pc = "idle" /\ calls' = calls + 1 /\ calls < MaxCalls /\ pos' = 1
      /\ pc' = IF isThreaded /\ indices # <<>> THEN "posting" ELSE "waiting"
      /\ UNCHANGED <<isThreaded, indices, thread, promise>>
  BY DEF RunOnIndex, Call, Idle, mode, shards, workers, control, tasks
<1>2. \A w \in Workers : promise[<<calls + 1, w>>] = "none"
  <2>1. ASSUME NEW w \in Workers PROVE <<calls + 1, w>> \in Tasks /\ <<calls + 1, w>>[1] > calls
    BY <1>1, PlacesOf, ShardsAssumption DEF OwnParts, Shapes
  <2> QED BY <2>1 DEF Untasked
<1>3. \A i \in 1 .. Len(indices) : indices[i] \in Workers
  BY PlacesOf DEF OwnParts
<1>4. CASE isThreaded /\ indices # <<>>
  BY <1>1, <1>2, <1>3, <1>4 DEF Posted, Untold, Task, Threaded
<1>5. CASE ~isThreaded
  BY <1>1, <1>5 DEF Posted, Threaded
<1>6. CASE indices = <<>>
  <2>1. Len(indices) = 0
    BY <1>6
  <2>2. \A i \in 1 .. Len(indices') : FALSE
    BY <1>1, <2>1
  <2> QED BY <1>1, <1>6, <2>2 DEF Posted, Threaded
<1> QED BY <1>4, <1>5, <1>6

LEMMA PostCourse ==
  ASSUME WInv, OwnParts, Posted, Threaded, Post
  PROVE  Posted' /\ Threaded'
<1>0. /\ pc = "posting" /\ isThreaded /\ pos \in 1 .. Len(indices)
      /\ indices[pos] \in Workers /\ Len(indices) \in Nat /\ pos \in Nat
  BY PlacesOf DEF Post, OwnParts, Stations, count
<1> PICK v \in Workers : v = indices[pos]
  BY <1>0
<1>1. /\ Add(v, Task(v))
      /\ pos = Len(indices) => pc' = "waiting" /\ pos' = 1
      /\ pos # Len(indices) => pos' = pos + 1 /\ pc' = "posting"
      /\ UNCHANGED <<isThreaded, calls, indices>>
  BY <1>0 DEF Post, mode, shards, count
<1>2. Task(v) \in Tasks
  BY <1>0, PlacesOf, ShardsAssumption DEF OwnParts, Stations, Task, Shapes
<1>3. \A w \in Workers : Untold(w)' <=> Untold(w) /\ w # v
  <2>1. PICK answer \in {"pending", "false"} : promise' = [promise EXCEPT ![Task(v)] = answer]
    BY <1>1 DEF Add
  <2>2. promise'[Task(v)] # "none" /\ \A t \in Tasks : t # Task(v) => promise'[t] = promise[t]
    BY <1>2, <2>1 DEF WInv, WorkersTypeOK
  <2>3. \A w \in Workers : Task(w) \in Tasks /\ (w # v => Task(w) # Task(v))
    BY <1>0, PlacesOf, ShardsAssumption DEF OwnParts, Stations, Task, Shapes
  <2>4. \A w \in Workers : Untold(w)' <=> promise'[Task(w)] = "none"
    BY <1>1 DEF Untold, Task
  <2> QED BY <2>2, <2>3, <2>4 DEF Untold
<1>4. ASSUME NEW i \in 1 .. Len(indices) PROVE Untold(indices[i])' <=> i > pos
  <2>1. indices[i] \in Workers /\ (indices[i] = v <=> i = pos)
    BY <1>0, PlacesOf DEF OwnParts
  <2>2. Untold(indices[i]) <=> i >= pos
    BY <1>0 DEF Posted
  <2>3. Untold(indices[i])' <=> Untold(indices[i]) /\ indices[i] # v
    BY <1>1, <1>3, <2>1 DEF Untold, Task
  <2> QED BY <1>0, <2>1, <2>2, <2>3
<1>5. Posted'
  BY <1>0, <1>1, <1>4 DEF Posted, Untold
<1>6. \A w \in Workers : thread[w] # "none" => thread'[w] # "none"
  BY <1>1, <1>2, ThreadStays
<1>7. \A w \in ToSet(indices) : w \in Workers
  BY PlacesOf DEF OwnParts
<1> QED BY <1>0, <1>1, <1>5, <1>6, <1>7 DEF Threaded

LEMMA StopCourse ==
  ASSUME WInv, OwnParts, Posted, Threaded, NEW v \in Workers,
         RemoveIndex(v) \/ (DestroyNext /\ v = indices[pos])
  PROVE  Posted' /\ Threaded'
<1>1. /\ isThreaded => Stop(v)
      /\ ~isThreaded => UNCHANGED workers
      /\ (pc' = "removing" /\ target' = v) \/ (pc' = "joining" /\ pos' = pos)
      /\ UNCHANGED <<isThreaded, indices>>
      /\ pc' = "joining" => v = indices[pos]
  BY DEF RemoveIndex, DestroyNext, mode, shards
<1>2. Posted'
  BY <1>1 DEF Posted
<1>3. CASE ~isThreaded
  BY <1>1, <1>2, <1>3 DEF Threaded
<1>4. CASE isThreaded
  <2>1. wantStop'[v]
    BY <1>1, <1>4 DEF Stop, WInv, WorkersTypeOK
  <2>2. \A w \in Workers : thread[w] # "none" => thread'[w] # "none"
    BY <1>1, <1>4, ThreadStays
  <2>3. \A w \in ToSet(indices) : w \in Workers
    BY PlacesOf DEF OwnParts
  <2> QED BY <1>1, <1>2, <1>4, <2>1, <2>2, <2>3 DEF Threaded
<1> QED BY <1>3, <1>4

(* A worker's step: it answers what it has been asked, and nothing else.   *)
LEMMA MoveCourse ==
  ASSUME WInv, OwnParts, Posted, Threaded, NEW v \in Workers,
         \/ ThreadStep(v) \/ WakeSpuriously(v)
         \/ \E answer \in IF pc = "started" THEN {"true"} ELSE Answers : RunCallback(v, answer),
         UNCHANGED <<mode, caller, indices>>
  PROVE  Posted' /\ Threaded'
<1> USE DEF mode, caller
<1>1. Moves(v)
  BY DEF Moves, Answers
<1>2. \A w \in Workers : thread[w] # "none" => thread'[w] # "none"
  BY <1>1, ThreadStays
<1>3. wantStop' = wantStop
  BY DEF ThreadStep, WakeSpuriously, Wait, Take, LeaveLoop, FlushNext, Exit, RunCallback, control
<1>4. Threaded'
  <2>1. \A w \in ToSet(indices) : w \in Workers
    BY PlacesOf DEF OwnParts
  <2>2. pc \in {"starting", "started"} => target \in Workers
    BY DEF OwnParts, Stations
  <2> QED BY <1>2, <1>3, <2>1, <2>2 DEF Threaded
<1>5. Posted'
  <2>1. CASE promise' = promise
    BY <2>1 DEF Posted, Untold, Task
  <2>2. CASE promise' # promise
    <3>1. PICK answer \in IF pc = "started" THEN {"true"} ELSE Answers : RunCallback(v, answer)
      BY <2>2 DEF ThreadStep, WakeSpuriously, Wait, Take, LeaveLoop, FlushNext, Exit, tasks
    <3>2. Awaited(v) /\ Asked(v) /\ current[v] = Task(v)
      BY <3>1 DEF RunCallback, OwnParts, OneTask, Quiet, Asked
    <3>3. Task(v) \in Tasks
      <4>1. current[v] # NoTask
        BY <3>1 DEF RunCallback
      <4> QED BY <3>2, <4>1 DEF WInv, WorkersTypeOK
    <3>4. promise' = [promise EXCEPT ![Task(v)] = answer] /\ answer # "none"
      BY <3>1, <3>2 DEF RunCallback, Answers
    <3>5. \A w \in Workers : Untold(w)' <=> Untold(w)
      <4>1. promise'[Task(v)] = answer /\ \A t \in Tasks : t # Task(v) => promise'[t] = promise[t]
        BY <3>3, <3>4 DEF WInv, WorkersTypeOK
      <4>2. \A w \in Workers : Task(w) \in Tasks
        BY <3>3, ShardsAssumption DEF Task
      <4>3. promise[Task(v)] = "pending"
        BY <3>2 DEF Asked
      <4>4. \A w \in Workers : Untold(w)' <=> promise'[Task(w)] = "none"
        BY DEF Untold, Task
      <4> QED BY <3>4, <4>1, <4>2, <4>3, <4>4 DEF Untold
    <3>6. pc = "started" => promise'[Task(target)] = "true"
      BY <3>1, <3>2, <3>3, <3>4 DEF Awaited, WInv, WorkersTypeOK
    <3>7. \A i \in 1 .. Len(indices) : indices[i] \in Workers
      BY PlacesOf DEF OwnParts
    <3>8. pc = "starting" => target \in Workers
      BY DEF OwnParts, Stations
    <3> QED BY <3>5, <3>6, <3>7, <3>8 DEF Posted, Untold, Task
  <2> QED BY <2>1, <2>2
<1> QED BY <1>4, <1>5

LEMMA NextCourse ==
  ASSUME WInv, OwnParts, DataInv, Posted, Threaded, owner = "index", Next
  PROVE  Posted' /\ Threaded'
<1>1. CASE FinishAddIndex
  <2>1. ToSet(indices') = ToSet(indices) \cup {target}
    BY <1>1, JoinedIn DEF FinishAddIndex, OwnParts, Shapes, Stations
  <2> QED BY <1>1, <2>1, CourseSame DEF FinishAddIndex, mode
<1>2. CASE FinishRemoveIndex
  <2>1. PICK i \in 1 .. Len(indices) : indices' = RemoveAt(indices, i)
    <3>1. \E i \in 1 .. count : indices[i] = target
      BY <1>2, PlacesOf DEF FinishRemoveIndex, OwnParts, Stations, count
    <3> QED BY <1>2, <3>1 DEF FinishRemoveIndex, count
  <2>2. ToSet(indices') \subseteq ToSet(indices)
    BY <2>1, RemovedAt DEF OwnParts, Shapes
  <2> QED BY <1>2, <2>2, CourseSame DEF FinishRemoveIndex, mode
<1>3. CASE GetFuture \/ FinishRun \/ DestroyJoined \/ Destroyed \/ Destroy \/ SearchNothing
  <2>1. UNCHANGED <<workers, isThreaded, indices>>
    BY <1>3 DEF GetFuture, FinishRun, DestroyJoined, Destroyed, Destroy, SearchNothing,
       mode, shards
  <2>2. \/ pc' \in {"idle", "destroying", "destroyed", "crashed"}
        \/ pc = "waiting" /\ UNCHANGED <<pc, calls>>
    BY <1>3 DEF GetFuture, FinishRun, DestroyJoined, Destroyed, Destroy, SearchNothing
  <2> QED BY <2>1, <2>2, CourseSame
<1>4. CASE RunHere
  BY <1>4, CourseSame DEF RunHere, mode
<1>5. CASE DestroyNext
  <2>1. pos \in 1 .. Len(indices)
    BY <1>5, PlacesOf DEF DestroyNext, OwnParts, count
  <2>2. indices[pos] \in Workers
    BY <2>1, PlacesOf DEF OwnParts
  <2> QED BY <1>5, <2>2, StopCourse
<1>6. CASE PostEmptyTask \/ Post
  BY <1>6, PostEmptyTaskCourse, PostCourse DEF DataInv
<1>7. ASSUME NEW w \in Workers, AddIndex(w) \/ RemoveIndex(w) PROVE Posted' /\ Threaded'
  BY <1>7, AddIndexCourse, StopCourse DEF DataInv
<1>8. ASSUME NEW what, RunOnIndex(what) PROVE Posted' /\ Threaded'
  BY <1>8, RunOnIndexCourse DEF DataInv
<1>9. ASSUME NEW w \in Workers,
             \/ WorkerStep(w) \/ Execute(w)
             \/ WakeSpuriously(w) /\ UNCHANGED <<mode, caller, shards>>
      PROVE  Posted' /\ Threaded'
  <2>1. /\ \/ ThreadStep(w) \/ WakeSpuriously(w)
           \/ \E answer \in IF pc = "started" THEN {"true"} ELSE Answers : RunCallback(w, answer)
        /\ UNCHANGED <<mode, caller, indices>>
    BY <1>9 DEF WorkerStep, Execute, shards
  <2> QED BY <2>1, MoveCourse
<1> QED BY <1>1, <1>2, <1>3, <1>4, <1>5, <1>6, <1>7, <1>8, <1>9 DEF Next, Caller, Others

(* Who has a promise to keep can go on with it.                            *)
LEMMA PendingServed ==
  ASSUME WInv, OwnParts, PromisesHeld, NEW v \in Workers, calls # 0,
         promise[Task(v)] = "pending"
  PROVE  WorkerCanGo(v)
<1>1. Task(v) \in Tasks
  BY ShardsAssumption DEF Task, OwnParts, Shapes
<1>2. PICK w \in Workers : current[w] = Task(v) \/ Queued(w, Task(v))
  BY <1>1 DEF PromisesHeld
<1>3. queue[w] \in Seq(Tasks) /\ next[w] \in Nat /\ Len(queue[w]) \in Nat
  BY LenProperties DEF WInv, WorkersTypeOK
<1>4. Asked(w)
  <2>1. ~Quiet(w)
    <3>1. CASE current[w] = Task(v)
      BY <1>1, <3>1, TaskAssumption DEF Quiet
    <3>2. CASE Queued(w, Task(v))
      BY <1>3, <3>2 DEF Quiet, Queued
    <3> QED BY <1>2, <3>1, <3>2
  <2> QED BY <2>1 DEF OwnParts, OneTask
<1>5. w = v
  <2>1. Task(w) = Task(v)
    <3>1. CASE current[w] # NoTask
      <4>1. current[w] = Task(w) /\ ~Queued(w, Task(v))
        BY <1>3, <1>4, <3>1 DEF Asked, Queued
      <4> QED BY <1>2, <4>1
    <3>2. CASE current[w] = NoTask
      <4>1. Queued(w, Task(v))
        BY <1>1, <1>2, <3>2, TaskAssumption
      <4>2. \/ next[w] > Len(queue[w])
            \/ next[w] = Len(queue[w]) /\ queue[w][next[w]] = Task(w)
        BY <1>4 DEF Asked
      <4> QED BY <1>3, <4>1, <4>2 DEF Queued
    <3> QED BY <3>1, <3>2
  <2> QED BY <2>1 DEF Task
<1>6. CASE current[w] # NoTask
  BY <1>5, <1>6 DEF WorkerCanGo
<1>7. CASE current[w] = NoTask
  <2>1. next[w] = Len(queue[w])
    <3>1. \A t \in Tasks : t # NoTask
      BY TaskAssumption
    <3> QED BY <1>1, <1>4, <1>5, <1>7, <3>1 DEF Asked
  <2>2. queue[w] # <<>>
    <3>1. next[w] # 0
      BY DEF WInv, WorkersTypeOK
    <3>2. Len(queue[w]) # 0
      BY <2>1, <3>1
    <3> QED BY <3>2
  <2>3. thread[w] \in {"looping", "flushing"}
    <3>1. thread[w] # "none" /\ thread[w] # "asleep"
      BY <2>2 DEF WInv, Places, Unstarted, NothingMissed
    <3>2. thread[w] # "exited"
      BY <1>3, <2>1 DEF WInv, Places, AtEnd
    <3> QED BY <3>1, <3>2 DEF WInv, WorkersTypeOK
  <2> QED BY <1>5, <2>2, <2>3 DEF WorkerCanGo
<1> QED BY <1>6, <1>7

(* Who has been told to stop does so.                                      *)
LEMMA StoppedServed ==
  ASSUME WInv, NEW v \in Workers, wantStop[v], thread[v] # "none"
  PROVE  Joined(v) \/ WorkerCanGo(v)
<1>1. thread[v] \in {"looping", "flushing", "exited"}
  BY DEF WInv, WorkersTypeOK, NothingMissed
<1> QED BY <1>1 DEF Joined, WorkerCanGo

LEMMA AlwaysServed ==
  ASSUME WInv, OwnParts, PromisesHeld, Posted, Threaded,
         pc \notin {"idle", "destroyed", "crashed"}
  PROVE  CallerCanGo \/ WorkerCanGo(IF pc \in {"started", "removing"} THEN target ELSE indices[pos])
<1>1. calls # 0 /\ \A i \in 1 .. Len(indices) : indices[i] \in Workers /\ indices[i] \in ToSet(indices)
  BY PlacesOf DEF OwnParts, Stations
<1>2. CASE pc = "starting"
  BY <1>2 DEF Posted, Threaded, Untold, CallerCanGo
<1>3. CASE pc = "started"
  <2>1. target \in Workers /\ promise[Task(target)] \in {"pending", "true"}
    BY <1>3 DEF OwnParts, Stations, Posted
  <2> QED BY <1>1, <1>3, <2>1, PendingServed DEF CallerCanGo
<1>4. CASE pc = "posting"
  <2>1. pos \in 1 .. Len(indices) /\ isThreaded
    BY <1>4, PlacesOf DEF OwnParts, Stations, count
  <2>2. Untold(indices[pos]) /\ thread[indices[pos]] # "none"
    BY <1>1, <1>4, <2>1 DEF Posted, Threaded
  <2> QED BY <1>4, <2>2 DEF CallerCanGo, Untold
<1>5. CASE pc = "waiting"
  <2>1. CASE ~(pos <= count /\ isThreaded)
    BY <1>5, <2>1 DEF CallerCanGo
  <2>2. CASE pos <= count /\ isThreaded
    <3>1. pos \in 1 .. Len(indices)
      BY <2>2, PlacesOf DEF OwnParts, count
    <3>2. indices[pos] \in Workers /\ promise[Task(indices[pos])] # "none"
      BY <1>1, <1>5, <2>2, <3>1 DEF Posted, Untold
    <3> QED BY <1>1, <1>5, <2>2, <3>2, PendingServed DEF CallerCanGo
  <2> QED BY <2>1, <2>2
<1>6. CASE pc = "removing"
  <2>1. target \in Workers /\ target \in ToSet(indices)
    BY <1>6, PlacesOf DEF OwnParts, Stations
  <2>2. isThreaded => wantStop[target] /\ thread[target] # "none"
    BY <1>6, <2>1 DEF Threaded
  <2> QED BY <1>6, <2>1, <2>2, StoppedServed DEF CallerCanGo
<1>7. CASE pc = "destroying"
  <2>1. pos <= count => pos \in 1 .. Len(indices)
    BY PlacesOf DEF OwnParts, count
  <2> QED BY <1>1, <1>7, <2>1 DEF Threaded, CallerCanGo
<1>8. CASE pc = "joining"
  <2>1. pos \in 1 .. Len(indices)
    BY <1>8, PlacesOf DEF OwnParts, Stations, count
  <2>2. isThreaded => wantStop[indices[pos]] /\ thread[indices[pos]] # "none"
    BY <1>1, <1>8, <2>1 DEF Threaded
  <2> QED BY <1>1, <1>8, <2>1, <2>2, StoppedServed DEF CallerCanGo
<1> QED BY <1>2, <1>3, <1>4, <1>5, <1>6, <1>7, <1>8 DEF OwnParts, Shapes

(* No call of the index waits for a worker that has nothing to do, or that *)
(* is asleep, or gone: for any number of sub-indexes, calls and exceptions.*)
(* (The one search that may stop the program leaves nobody waiting.)       *)
THEOREM CallsServed == Spec => []CallerServed
<1> DEFINE Course == owner = "index" => DataInv /\ PromisesHeld /\ Posted /\ Threaded
<1>1. Init => Course
  <2>1. Init => PromisesHeld /\ DataInv
    BY InitWInv, InitData DEF Init
  <2>2. Init => Posted /\ Threaded
    BY DEF Init, Posted, Threaded, ToSet
  <2> QED BY <2>1, <2>2
<1>2. IInv /\ Course /\ [Next]_vars => Course'
  <2> SUFFICES ASSUME IInv, Course, [Next]_vars, owner' = "index"
               PROVE  (DataInv /\ PromisesHeld /\ Posted /\ Threaded)'
    OBVIOUS
  <2>1. PromisesHeld => PromisesHeld'
    BY NextUses, PromisesStep DEF IInv
  <2>2. CASE UNCHANGED vars
    <3>1. UNCHANGED <<mode, caller, shards, workers, wantStop, promise, thread>> /\ owner = "index"
      BY <2>2 DEF vars, mode, workers, control, tasks
    <3>2. Posted' /\ Threaded'
      BY <3>1 DEF Posted, Threaded, Untold, Task, mode, caller, shards
    <3> QED BY <2>1, <3>1, <3>2, DataSame
  <2>3. CASE Next
    <3>1. owner' = owner
      BY <2>3 DEF Next, Caller, PostEmptyTask, FinishAddIndex, Post, GetFuture, RunHere,
         FinishRun, FinishRemoveIndex, DestroyNext, DestroyJoined, Destroyed, AddIndex,
         RemoveIndex, RunOnIndex, SearchNothing, Destroy, Others, WorkerStep, Execute, mode
    <3> QED BY <2>1, <2>3, <3>1, NextData, NextCourse DEF IInv
  <2> QED BY <2>2, <2>3
<1>3. IInv /\ Course => CallerServed
  BY AlwaysServed DEF IInv, CallerServed
<1> QED BY <1>1, <1>2, <1>3, SpecIInv, PTL DEF Spec
=============================================================================
