---------------------------- MODULE IndexShards ----------------------------
(***************************************************************************)
(* ThreadedIndex, and IndexShards on top of it: an index made of           *)
(* sub-indexes, each with a WorkerThread of its own if isThreaded_.  One   *)
(* thread calls the index (the class is not thread-safe); a call that runs *)
(* on all sub-indexes posts one task per worker and waits for all of them. *)
(*                                                                         *)
(* A sub-index and its worker have the same name.  A task is named by the  *)
(* call that posts it and its worker.  Where the objects have no index     *)
(* over them (owner = "others"), any threads use them, as the class        *)
(* WorkerThread allows.                                                    *)
(***************************************************************************)
EXTENDS WorkerThread, SequencesExt

CONSTANTS
  Batch,          (* n of every add                                        *)
  MaxCalls        (* bound: calls of the index                             *)

ASSUME ShardsAssumption ==
  Batch \in Nat /\ MaxCalls \in Nat /\ Tasks = (1 .. MaxCalls) \X Workers

VARIABLES
  owner, isThreaded, own_indices, successive_ids,
  pc,             (* where the calling thread is                           *)
  op,             (* "add", "search" or "reset" in runOnIndex              *)
  target, pos, thrown,
  calls,
  indices,        (* indices_                                              *)
  ntotal,         (* of the whole                                          *)
  held,           (* of each sub-index: [id, vector] in the order added    *)
  deleted,        (* sub-indexes deleted with own_indices                  *)
  added,          (* history: vectors added since the last reset           *)
  uneven          (* history: a task threw, or a shard was removed full    *)

mode   == <<owner, isThreaded, own_indices, successive_ids>>
caller == <<pc, op, target, pos, thrown, calls>>
shards == <<indices, ntotal, held, deleted, added, uneven>>
vars   == <<workers, mode, caller, shards>>

-----------------------------------------------------------------------------
count     == Len(indices)
Task(w)   == <<calls, w>>

(* Mutant: the end of a slice is rounded up.                               *)
SliceRoundedUp(no) ==
  [k \in 1 .. ((no + 1) * Batch + count - 1) \div count - (no * Batch) \div count |->
     LET i == (no * Batch) \div count + k - 1
     IN  [id |-> ntotal + i, vector |-> added + i]]

(* The vectors of the batch that the no-th shard takes (from 0), and the   *)
(* ids aids[] gives them.                                                  *)
Slice(no) ==
  [k \in 1 .. ((no + 1) * Batch) \div count - (no * Batch) \div count |->
     LET i == (no * Batch) \div count + k - 1
     IN  [id |-> ntotal + i, vector |-> added + i]]

(* The vectors in the sub-indexes before each of which, from 0, and last   *)
(* those in all of them.                                                   *)
translations(which, holding) ==
  LET start[i \in 0 .. Len(which)] ==
        IF i = 0 THEN 0 ELSE start[i - 1] + Len(holding[which[i]])
  IN  start

(* syncWithSubIndexes *)
Total(which) == translations(which, held)[Len(which)]

(* The function passed to runOnIndex, on sub-index w: it throws and leaves *)
(* the sub-index as it was, or does what the call asks for.                *)
Apply(w, answer) ==
  held' = IF answer = "exception" \/ op \notin {"add", "reset"} THEN held
          ELSE [held EXCEPT ![w] =
                  IF op = "reset" THEN <<>>
                  ELSE @ \o Slice((CHOOSE i \in 1 .. count : indices[i] = w) - 1)]

Idle == pc = "idle" /\ owner = "index"
Call == Idle /\ calls < MaxCalls /\ calls' = calls + 1

-----------------------------------------------------------------------------
Init ==
  /\ WorkersInit
  /\ owner \in {"index", "others"}
  /\ isThreaded \in BOOLEAN /\ own_indices \in BOOLEAN
  /\ successive_ids \in BOOLEAN
  /\ owner = "others" => isThreaded /\ ~own_indices /\ ~successive_ids
  /\ pc = "idle" /\ op = "none" /\ target = NoTask /\ pos = 1 /\ thrown = 0
  /\ calls = 0
  /\ indices = <<>> /\ ntotal = 0 /\ held = [w \in Workers |-> <<>>]
  /\ deleted = {} /\ added = 0 /\ uneven = FALSE

(* addIndex: the constructor of WorkerThread starts the thread and waits   *)
(* for an empty task before the index joins the others.                    *)
AddIndex(w) ==
  /\ Call /\ w \notin ToSet(indices) \cup deleted
  /\ IF isThreaded
     THEN StartThread(w) /\ pc' = "starting" /\ UNCHANGED <<indices, ntotal>>
     ELSE /\ indices' = Append(indices, w) /\ ntotal' = Total(indices')
          /\ UNCHANGED <<workers, pc>>
  /\ target' = w /\ op' = "none"
  /\ UNCHANGED <<mode, pos, thrown, held, deleted, added, uneven>>

PostEmptyTask ==
  /\ pc = "starting" /\ Add(target, Task(target))
  /\ pc' = "started"
  /\ UNCHANGED <<mode, op, target, pos, thrown, calls, shards>>

FinishAddIndex ==
  /\ pc = "started" /\ promise[Task(target)] = "true"
  /\ indices' = Append(indices, target) /\ ntotal' = Total(indices')
  /\ pc' = "idle"
  /\ UNCHANGED <<workers, mode, op, target, pos, thrown, calls, held, deleted,
                 added, uneven>>

(* add_with_ids without ids, search and reset go to all sub-indexes.  With *)
(* successive_ids only the first add is let through.  (For a search of     *)
(* that kind without sub-indexes, see SearchNothing.)                      *)
RunOnIndex(what) ==
  /\ Call
  /\ what = "add" /\ successive_ids => ntotal = 0
  /\ op' = what /\ pos' = 1 /\ thrown' = 0
  /\ pc' = IF isThreaded /\ indices # <<>> THEN "posting" ELSE "waiting"
  /\ UNCHANGED <<workers, mode, target, shards>>

(* With successive_ids, the default, search sets translations[0], which an *)
(* index without sub-indexes does not have.  That is undefined: the write  *)
(* does no harm and RunOnIndex goes on, or, as here, the program stops.    *)
SearchNothing ==
  /\ Call /\ successive_ids /\ indices = <<>>
  /\ op' = "search" /\ pc' = "crashed"
  /\ UNCHANGED <<workers, mode, target, pos, thrown, shards>>

Post ==
  /\ pc = "posting" /\ Add(indices[pos], Task(indices[pos]))
  /\ IF pos = count THEN pc' = "waiting" /\ pos' = 1
                    ELSE pos' = pos + 1 /\ UNCHANGED pc
  /\ UNCHANGED <<mode, op, target, thrown, calls, shards>>

(* Mutant: the wait is given up at the first exception.                    *)
GetFutureOrLeave ==
  /\ pc = "waiting" /\ isThreaded /\ pos <= count
  /\ promise[Task(indices[pos])] \notin {"none", "pending"}
  /\ IF promise[Task(indices[pos])] = "exception"
     THEN thrown' = thrown + 1 /\ pos' = count + 1
     ELSE pos' = pos + 1 /\ UNCHANGED thrown
  /\ UNCHANGED <<workers, mode, pc, op, target, calls, shards>>

(* waitAndHandleFutures: get() every future, and count what they throw.    *)
GetFuture ==
  /\ pc = "waiting" /\ isThreaded /\ pos <= count
  /\ promise[Task(indices[pos])] \notin {"none", "pending"}
  /\ thrown' = thrown + (IF promise[Task(indices[pos])] = "exception" THEN 1 ELSE 0)
  /\ pos' = pos + 1
  /\ UNCHANGED <<workers, mode, pc, op, target, calls, shards>>

(* Without threads the caller runs the function itself.                    *)
RunHere ==
  /\ pc = "waiting" /\ ~isThreaded /\ pos <= count
  /\ \E answer \in Answers :
       /\ Apply(indices[pos], answer)
       /\ thrown' = thrown + (IF answer = "exception" THEN 1 ELSE 0)
  /\ pos' = pos + 1
  /\ UNCHANGED <<workers, mode, pc, op, target, calls, indices, ntotal, deleted,
                 added, uneven>>

(* handleExceptions throws if anything was thrown, past the update of      *)
(* ntotal.                                                                 *)
FinishRun ==
  /\ pc = "waiting" /\ pos > count
  /\ IF thrown > 0
     THEN /\ uneven' = (uneven \/ op # "search")
          /\ UNCHANGED <<ntotal, added>>
     ELSE CASE op = "add" ->
               /\ ntotal' = Total(indices)
               /\ added' = added + IF indices = <<>> THEN 0 ELSE Batch
               /\ UNCHANGED uneven
            [] op = "reset" ->
               /\ ntotal' = 0 /\ added' = 0
               /\ uneven' = \E w \in Workers \ ToSet(indices) : held[w] # <<>>
            [] OTHER -> UNCHANGED <<ntotal, added, uneven>>
  /\ pc' = "idle"
  /\ UNCHANGED <<workers, mode, op, target, pos, thrown, calls, indices, held,
                 deleted>>

(* removeIndex stops the worker and joins it before the index goes.        *)
RemoveIndex(w) ==
  /\ Call /\ w \in ToSet(indices)
  /\ IF isThreaded THEN Stop(w) ELSE UNCHANGED workers
  /\ pc' = "removing" /\ target' = w
  /\ UNCHANGED <<mode, op, pos, thrown, shards>>

FinishRemoveIndex ==
  /\ pc = "removing" /\ (isThreaded => Joined(target))
  /\ indices' = RemoveAt(indices, CHOOSE i \in 1 .. count : indices[i] = target)
  /\ ntotal' = Total(indices')
  /\ deleted' = IF own_indices THEN deleted \cup {target} ELSE deleted
  /\ uneven' = (uneven \/ held[target] # <<>>)
  /\ pc' = "idle"
  /\ UNCHANGED <<workers, mode, op, target, pos, thrown, calls, held, added>>

(* ~ThreadedIndex: the same for every sub-index in turn.                   *)
Destroy ==
  /\ Call /\ pc' = "destroying" /\ pos' = 1
  /\ UNCHANGED <<workers, mode, op, target, thrown, shards>>

DestroyNext ==
  /\ pc = "destroying" /\ pos <= count
  /\ IF isThreaded THEN Stop(indices[pos]) ELSE UNCHANGED workers
  /\ pc' = "joining"
  /\ UNCHANGED <<mode, op, target, pos, thrown, calls, shards>>

DestroyJoined ==
  /\ pc = "joining" /\ (isThreaded => Joined(indices[pos]))
  /\ deleted' = IF own_indices THEN deleted \cup {indices[pos]} ELSE deleted
  /\ pos' = pos + 1 /\ pc' = "destroying"
  /\ UNCHANGED <<workers, mode, op, target, thrown, calls, indices, ntotal, held,
                 added, uneven>>

Destroyed ==
  /\ pc = "destroying" /\ pos > count
  /\ pc' = "destroyed"
  /\ UNCHANGED <<workers, mode, op, target, pos, thrown, calls, shards>>

(* A worker finishes a task: of runOnIndex, or the empty one.              *)
Execute(w) ==
  /\ \E answer \in IF pc = "started" THEN {"true"} ELSE Answers :
       RunCallback(w, answer) /\ Apply(w, answer)
  /\ UNCHANGED <<mode, caller, indices, ntotal, deleted, added, uneven>>

WorkerStep(w) == ThreadStep(w) /\ UNCHANGED <<mode, caller, shards>>

(* Objects that no index owns: here calls counts the tasks.                *)
Others ==
  /\ owner = "others"
  /\ \E w \in Workers :
       \/ (StartThread(w) \/ Stop(w)) /\ UNCHANGED calls
       \/ calls < MaxCalls /\ calls' = calls + 1 /\ Add(w, <<calls', w>>)
  /\ UNCHANGED <<mode, pc, op, target, pos, thrown, shards>>

Caller ==
  \/ PostEmptyTask \/ FinishAddIndex \/ Post \/ GetFuture \/ RunHere \/ FinishRun
  \/ FinishRemoveIndex \/ DestroyNext \/ DestroyJoined \/ Destroyed

Next ==
  \/ Caller
  \/ \E w \in Workers : AddIndex(w) \/ RemoveIndex(w)
  \/ \E what \in {"add", "search", "reset"} : RunOnIndex(what)
  \/ SearchNothing \/ Destroy \/ Others
  \/ \E w \in Workers : WorkerStep(w) \/ Execute(w)
  \/ \E w \in Workers : WakeSpuriously(w) /\ UNCHANGED <<mode, caller, shards>>

(* A running thread goes on; nobody has to make another call.              *)
Spec ==
  /\ Init /\ [][Next]_vars /\ WF_vars(Caller)
  /\ \A w \in Workers : WF_vars(WorkerStep(w)) /\ WF_vars(Execute(w))

-----------------------------------------------------------------------------
(* Types.                                                                  *)
TypeOK ==
  /\ WorkersTypeOK
  /\ pc \in {"idle", "starting", "started", "posting", "waiting", "removing",
             "destroying", "joining", "destroyed", "crashed"}
  /\ indices \in Seq(Workers) /\ IsInjective(indices)
  /\ pos \in Nat \ {0} /\ thrown \in Nat
  /\ ntotal \in Nat /\ added \in Nat /\ deleted \subseteq Workers

(* When a call has returned, thrown or not, nothing of it is still queued  *)
(* or running, so that the caller may read the sub-indexes; a sub-index    *)
(* that was taken out has no thread, and none runs on a deleted one.       *)
QuietCalls ==
  owner = "index" =>
    /\ \A w \in deleted : current[w] = NoTask
    /\ pc \in {"idle", "destroyed"} =>
         \A w \in Workers :
           /\ current[w] = NoTask /\ Waiting(w) = <<>>
           /\ w \notin ToSet(indices) \/ pc = "destroyed" =>
                thread[w] \in {"none", "exited"}

(* While no task has thrown and no shard with vectors has been removed,    *)
(* every vector added is in one shard, and a search reports it under its   *)
(* number: its id, or its place among all with successive_ids.             *)
LabelOf(i, j) ==
  IF successive_ids THEN translations(indices, held)[i - 1] + j - 1
                    ELSE held[indices[i]][j].id

EachOnce ==
  Idle /\ ~uneven =>
    LET places == {p \in (1 .. count) \X (1 .. added) : p[2] <= Len(held[indices[p[1]]])}
    IN  /\ ntotal = added /\ Cardinality(places) = added
        /\ {LabelOf(p[1], p[2]) : p \in places} = 0 .. added - 1
        /\ \A p \in places : held[indices[p[1]]][p[2]].vector = LabelOf(p[1], p[2])

(* Every call returns, and the destructor ends -- but for a search with    *)
(* successive_ids of an index without sub-indexes, which is undefined and  *)
(* may stop the program (SearchNothing).                                   *)
CallsEnd == pc \notin {"idle", "crashed"} ~> pc \in {"idle", "destroyed"}

(* Nobody waits for nothing: while the calling thread is inside a call,    *)
(* its own next step is possible, or one of the worker it waits for.       *)
CallerCanGo ==
  \/ pc \in {"starting", "posting"} /\ LET w == IF pc = "starting" THEN target ELSE indices[pos]
                                       IN  thread[w] # "none" /\ promise[Task(w)] = "none"
  \/ pc = "started" /\ promise[Task(target)] = "true"
  \/ /\ pc = "waiting"
     /\ pos <= count /\ isThreaded => promise[Task(indices[pos])] \notin {"none", "pending"}
  \/ pc = "removing" /\ (isThreaded => Joined(target))
  \/ pc = "destroying" /\ (pos <= count /\ isThreaded => thread[indices[pos]] # "none")
  \/ pc = "joining" /\ (isThreaded => Joined(indices[pos]))

WorkerCanGo(w) ==
  \/ current[w] # NoTask \/ thread[w] = "flushing"
  \/ thread[w] = "looping" /\ (wantStop[w] \/ queue[w] # <<>>)

CallerServed ==
  owner = "index" /\ pc \notin {"idle", "destroyed", "crashed"} =>
    CallerCanGo \/ WorkerCanGo(IF pc \in {"started", "removing"} THEN target ELSE indices[pos])
=============================================================================
