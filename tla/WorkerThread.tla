---------------------------- MODULE WorkerThread ----------------------------
(***************************************************************************)
(* WorkerThread: a thread with a queue of tasks.  add(), stop() and the    *)
(* loop of the thread each hold mutex_ from their first to their last      *)
(* access of queue_ and wantStop_, so each is one step; the thread gives   *)
(* the mutex up while it waits for monitor_ and while it runs a task.      *)
(* After stop() it runs what is left in the queue without the mutex.       *)
(*                                                                         *)
(* thread[w]:                                                              *)
(*   "none"      not started, or its object is gone                        *)
(*   "looping"   about to test wantStop_ and the queue                     *)
(*   "asleep"    in monitor_.wait                                          *)
(*   "flushing"  in threadMain after the loop, at queue_[next]             *)
(*   "exited"    threadMain has returned; join() does                      *)
(* and current[w] is the task it is running in runCallback.                *)
(***************************************************************************)
EXTENDS Naturals, Sequences

CONSTANTS Workers, Tasks, NoTask

ASSUME TaskAssumption == NoTask \notin Tasks

VARIABLES thread, wantStop, queue, next, current, promise

control == <<thread, wantStop>>
tasks   == <<queue, next, current, promise>>
workers == <<control, tasks>>

WorkersInit ==
  /\ thread = [w \in Workers |-> "none"]
  /\ wantStop = [w \in Workers |-> FALSE]
  /\ queue = [w \in Workers |-> <<>>] /\ next = [w \in Workers |-> 1]
  /\ current = [w \in Workers |-> NoTask]
  /\ promise = [t \in Tasks |-> "none"]

-----------------------------------------------------------------------------
(* Mutant: monitor_ is not notified.                                       *)
NotifyNobody(w) == UNCHANGED thread

(* notify_one: the one thread that can wait for monitor_ is w's own.       *)
Notify(w) ==
  thread' = [thread EXCEPT ![w] = IF @ = "asleep" THEN "looping" ELSE @]

(* startThread, in the constructor of a new object                         *)
StartThread(w) ==
  /\ thread[w] \in {"none", "exited"}
  /\ thread' = [thread EXCEPT ![w] = "looping"]
  /\ wantStop' = [wantStop EXCEPT ![w] = FALSE]
  /\ queue' = [queue EXCEPT ![w] = <<>>] /\ next' = [next EXCEPT ![w] = 1]
  /\ UNCHANGED <<current, promise>>

(* Mutant: wantStop_ is not tested.                                        *)
AddAnyway(w, t) ==
  /\ thread[w] # "none" /\ promise[t] = "none"
  /\ promise' = [promise EXCEPT ![t] = "pending"]
  /\ queue' = [queue EXCEPT ![w] = Append(@, t)]
  /\ Notify(w)
  /\ UNCHANGED <<wantStop, next, current>>

(* add: refused at once after stop(), else queued.                         *)
Add(w, t) ==
  /\ thread[w] # "none" /\ promise[t] = "none"
  /\ IF wantStop[w]
     THEN /\ promise' = [promise EXCEPT ![t] = "false"]
          /\ UNCHANGED <<thread, queue>>
     ELSE /\ promise' = [promise EXCEPT ![t] = "pending"]
          /\ queue' = [queue EXCEPT ![w] = Append(@, t)]
          /\ Notify(w)
  /\ UNCHANGED <<wantStop, next, current>>

Stop(w) ==
  /\ thread[w] # "none"
  /\ wantStop' = [wantStop EXCEPT ![w] = TRUE]
  /\ Notify(w)
  /\ UNCHANGED tasks

(* threadLoop: wait while there is nothing to do.                          *)
Wait(w) ==
  /\ thread[w] = "looping" /\ current[w] = NoTask
  /\ ~wantStop[w] /\ queue[w] = <<>>
  /\ thread' = [thread EXCEPT ![w] = "asleep"]
  /\ UNCHANGED <<wantStop, tasks>>

(* wait() may return without a notification.                               *)
WakeSpuriously(w) ==
  /\ thread[w] = "asleep"
  /\ thread' = [thread EXCEPT ![w] = "looping"]
  /\ UNCHANGED <<wantStop, tasks>>

Take(w) ==
  /\ thread[w] = "looping" /\ current[w] = NoTask
  /\ ~wantStop[w] /\ queue[w] # <<>>
  /\ current' = [current EXCEPT ![w] = Head(queue[w])]
  /\ queue' = [queue EXCEPT ![w] = Tail(@)]
  /\ UNCHANGED <<control, next, promise>>

LeaveLoop(w) ==
  /\ thread[w] = "looping" /\ current[w] = NoTask /\ wantStop[w]
  /\ thread' = [thread EXCEPT ![w] = "flushing"]
  /\ UNCHANGED <<wantStop, tasks>>

(* threadMain goes over the queue, which keeps its elements.               *)
FlushNext(w) ==
  /\ thread[w] = "flushing" /\ current[w] = NoTask
  /\ next[w] <= Len(queue[w])
  /\ current' = [current EXCEPT ![w] = queue[w][next[w]]]
  /\ next' = [next EXCEPT ![w] = @ + 1]
  /\ UNCHANGED <<control, queue, promise>>

(* Mutant: the thread leaves without a look at the queue.                  *)
ExitAtOnce(w) ==
  /\ thread[w] = "flushing" /\ current[w] = NoTask
  /\ thread' = [thread EXCEPT ![w] = "exited"]
  /\ UNCHANGED <<wantStop, tasks>>

Exit(w) ==
  /\ thread[w] = "flushing" /\ current[w] = NoTask
  /\ next[w] > Len(queue[w])
  /\ thread' = [thread EXCEPT ![w] = "exited"]
  /\ UNCHANGED <<wantStop, tasks>>

(* runCallback: the task returns, or what it throws goes to the promise.   *)
RunCallback(w, answer) ==
  /\ current[w] # NoTask
  /\ promise' = [promise EXCEPT ![current[w]] = answer]
  /\ current' = [current EXCEPT ![w] = NoTask]
  /\ UNCHANGED <<control, queue, next>>

(* waitForThreadExit                                                       *)
Joined(w) == thread[w] = "exited"

Answers == {"true", "exception"}

(* A step of the thread between tasks.                                     *)
ThreadStep(w) == Wait(w) \/ Take(w) \/ LeaveLoop(w) \/ FlushNext(w) \/ Exit(w)

(* Any use of the objects: any thread may add and stop.  A new object is   *)
(* made only after the thread of the old one has been joined.              *)
WorkersNext ==
  \E w \in Workers :
    \/ StartThread(w) \/ Stop(w)
    \/ \E t \in Tasks : Add(w, t)
    \/ ThreadStep(w) \/ WakeSpuriously(w)
    \/ \E answer \in Answers : RunCallback(w, answer)

WorkersSpec ==
  /\ WorkersInit /\ [][WorkersNext]_workers
  /\ \A w \in Workers : /\ WF_workers(ThreadStep(w))
                        /\ WF_workers(\E answer \in Answers : RunCallback(w, answer))

-----------------------------------------------------------------------------
(* The tasks a worker has accepted and not begun.                          *)
Waiting(w) == SubSeq(queue[w], next[w], Len(queue[w]))

(* Types.  next moves only while the thread flushes.                       *)
WorkersTypeOK ==
  /\ thread \in [Workers -> {"none", "looping", "asleep", "flushing", "exited"}]
  /\ wantStop \in [Workers -> BOOLEAN]
  /\ queue \in [Workers -> Seq(Tasks)] /\ next \in [Workers -> Nat \ {0}]
  /\ current \in [Workers -> Tasks \cup {NoTask}]
  /\ promise \in [Tasks -> {"none", "pending", "true", "false", "exception"}]

(* No wake-up is lost: a sleeping thread has nothing to do.                *)
NothingMissed ==
  \A w \in Workers : thread[w] = "asleep" => ~wantStop[w] /\ queue[w] = <<>>

(* The queue is read without the mutex only when it can no longer change.  *)
QuietQueue ==
  [][\A w \in Workers : thread[w] = "flushing" => queue'[w] = queue[w]]_workers

(* The thread is a TaskQueue: what it accepts it runs, in order.           *)
TQ == INSTANCE TaskQueue WITH
        open    <- {w \in Workers : thread[w] # "none" /\ ~wantStop[w]},
        waiting <- [w \in Workers |-> Waiting(w)]

Implements == TQ!QueueSpec
=============================================================================
