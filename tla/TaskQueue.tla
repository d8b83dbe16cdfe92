----------------------------- MODULE TaskQueue -----------------------------
(***************************************************************************)
(* What a WorkerThread promises to those who hand it tasks: it runs every  *)
(* task it has accepted, one at a time, in the order they came, and        *)
(* answers "true" or with the exception the task threw; once closed it     *)
(* accepts no more, and answers "false" without running the task.          *)
(***************************************************************************)
EXTENDS Sequences

CONSTANTS Workers, Tasks, NoTask

VARIABLES
  open,           (* the workers that accept tasks                         *)
  waiting,        (* the tasks each has accepted and not begun             *)
  current,        (* the task each is running, or NoTask                   *)
  promise         (* of each task: "none" before it is handed in           *)

queues == <<open, waiting, current, promise>>

QueueInit ==
  /\ open = {} /\ waiting = [w \in Workers |-> <<>>]
  /\ current = [w \in Workers |-> NoTask]
  /\ promise = [t \in Tasks |-> "none"]

(* A new worker takes the place of one that has done all its work.         *)
Open(w) ==
  /\ w \notin open /\ waiting[w] = <<>> /\ current[w] = NoTask
  /\ open' = open \cup {w}
  /\ UNCHANGED <<waiting, current, promise>>

Accept(w, t) ==
  /\ w \in open /\ promise[t] = "none"
  /\ waiting' = [waiting EXCEPT ![w] = Append(@, t)]
  /\ promise' = [promise EXCEPT ![t] = "pending"]
  /\ UNCHANGED <<open, current>>

Refuse(w, t) ==
  /\ w \notin open /\ promise[t] = "none"
  /\ promise' = [promise EXCEPT ![t] = "false"]
  /\ UNCHANGED <<open, waiting, current>>

Close(w) == open' = open \ {w} /\ UNCHANGED <<waiting, current, promise>>

Begin(w) ==
  /\ current[w] = NoTask /\ waiting[w] # <<>>
  /\ current' = [current EXCEPT ![w] = Head(waiting[w])]
  /\ waiting' = [waiting EXCEPT ![w] = Tail(@)]
  /\ UNCHANGED <<open, promise>>

End(w) ==
  /\ current[w] # NoTask
  /\ \E answer \in {"true", "exception"} :
       promise' = [promise EXCEPT ![current[w]] = answer]
  /\ current' = [current EXCEPT ![w] = NoTask]
  /\ UNCHANGED <<open, waiting>>

QueueNext ==
  \E w \in Workers : \/ Open(w) \/ Close(w) \/ Begin(w) \/ End(w)
                     \/ \E t \in Tasks : Accept(w, t) \/ Refuse(w, t)

QueueSpec ==
  /\ QueueInit /\ [][QueueNext]_queues
  /\ \A w \in Workers : WF_queues(Begin(w)) /\ WF_queues(End(w))
=============================================================================
