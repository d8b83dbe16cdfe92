------------------------------ MODULE Prefetch ------------------------------
(***************************************************************************)
(* OngoingPrefetch: the threads that read inverted lists ahead of a search *)
(* so that their pages are in memory, composed with LockLevels, whose      *)
(* level-1 lock they take around each list, next to threads that add to or *)
(* resize lists.                                                           *)
(*                                                                         *)
(* Several slices of a search may call prefetch_lists at once.  A call     *)
(* takes `mutex`, empties list_ids, joins the threads of the call before,  *)
(* fills list_ids and creates new threads.  The threads take lists from    *)
(* list_ids under `list_ids_mutex`; the call fills it, and resets          *)
(* cur_list, without that mutex, because no thread is left by then.        *)
(***************************************************************************)
EXTENDS LockLevels, Sequences

CONSTANTS
  Callers,     (* threads that call prefetch_lists                         *)
  NoCaller,    (* owner of the free `mutex`                                *)
  Fetchers,    (* threads that prefetch: as many as prefetch_nthread       *)
  Arguments,   (* bound: the sequences of list numbers calls are made with *)
  MaxCalls,    (* bound: calls of each caller                              *)
  MaxWrites    (* bound: additions and resizes, of all writers             *)

ASSUME PrefetchAssumption ==
  /\ NoCaller \notin Callers /\ Fetchers \subseteq Threads
  /\ Arguments \subseteq Seq(Lists) /\ MaxCalls \in Nat /\ MaxWrites \in Nat

VARIABLES
  mutex,       (* the caller inside prefetch_lists                         *)
  cpc,         (* where a caller is                                        *)
  list_nos,    (* its argument                                             *)
  filled,      (* how much of it has been looked at                        *)
  list_ids, cur_list,
  threads,     (* created and not yet joined                               *)
  exited,      (* those of them that have returned                         *)
  taken,       (* the position of list_ids a thread works on               *)
  read,        (* positions whose list has been read                       *)
  calls, writes, destroyed

tasks  == <<list_ids, cur_list, taken, read>>
caller == <<mutex, cpc, list_nos, filled, calls, destroyed>>
all    == <<vars, caller, tasks, threads, exited, writes>>

prefetch_nthread == Cardinality(Fetchers)
Writers == Threads \ Fetchers

GotoC(c, loc) == cpc' = [cpc EXCEPT ![c] = loc]

PfInit ==
  /\ Init
  /\ mutex = NoCaller
  /\ cpc = [c \in Callers |-> "out"]
  /\ list_nos = [c \in Callers |-> <<>>] /\ filled = 0
  /\ list_ids = <<>> /\ cur_list = 0
  /\ threads = {} /\ exited = {}
  /\ taken = [t \in Fetchers |-> 0] /\ read = {}
  /\ calls = [c \in Callers |-> 0] /\ writes = 0 /\ destroyed = FALSE

-----------------------------------------------------------------------------
(* prefetch_lists takes the mutex and empties list_ids, so that the        *)
(* threads of the call before stop after the list they are at.             *)
PrefetchLists(c, nos) ==
  /\ cpc[c] = "out" /\ calls[c] < MaxCalls /\ ~destroyed
  /\ mutex = NoCaller
  /\ mutex' = c
  /\ calls' = [calls EXCEPT ![c] = @ + 1]
  /\ list_nos' = [list_nos EXCEPT ![c] = nos] /\ filled' = 0
  /\ list_ids' = <<>>
  /\ GotoC(c, "join")
  /\ UNCHANGED <<vars, cur_list, taken, read, threads, exited, writes, destroyed>>

(* Mutant: the threads are not joined.                                     *)
AllExitedUnasked == TRUE

AllExited == threads \subseteq exited

(* Mutant: a new call goes on where the call before stopped.               *)
JoinKeepingPlace(c) ==
  /\ cpc[c] = "join" /\ AllExited
  /\ threads' = {} /\ exited' = {} /\ read' = {}
  /\ GotoC(c, "fill")
  /\ UNCHANGED <<vars, mutex, list_nos, filled, list_ids, cur_list, taken, calls,
                 writes, destroyed>>

(* The threads of the call before are joined.                              *)
Join(c) ==
  /\ cpc[c] = "join" /\ AllExited
  /\ threads' = {} /\ exited' = {}
  /\ cur_list' = 0 /\ read' = {}
  /\ GotoC(c, "fill")
  /\ UNCHANGED <<vars, mutex, list_nos, filled, list_ids, taken, calls, writes, destroyed>>

(* One list number: kept if it is one, and if the list, whose size is read *)
(* without a lock, does not look empty.                                    *)
Fill(c) ==
  /\ cpc[c] = "fill" /\ filled < Len(list_nos[c])
  /\ filled' = filled + 1
  /\ list_ids' \in {list_ids, Append(list_ids, list_nos[c][filled + 1])}
  /\ UNCHANGED <<vars, mutex, cpc, list_nos, cur_list, taken, read, threads, exited,
                 calls, writes, destroyed>>

(* One thread after the other is created, and may start at once: as many   *)
(* as the call has list numbers, kept or not, and no more than             *)
(* prefetch_nthread.                                                       *)
Missing(c) ==
  Cardinality(threads) < prefetch_nthread /\ Cardinality(threads) < Len(list_nos[c])

Create(c, t) ==
  /\ cpc[c] = "fill" /\ filled = Len(list_nos[c]) /\ Missing(c)
  /\ t \in Fetchers \ threads
  /\ threads' = threads \cup {t}
  /\ UNCHANGED <<vars, caller, tasks, exited, writes>>

Return(c) ==
  /\ cpc[c] = "fill" /\ filled = Len(list_nos[c]) /\ ~Missing(c)
  /\ mutex' = NoCaller
  /\ GotoC(c, "out")
  /\ UNCHANGED <<vars, list_nos, filled, tasks, threads, exited, calls, writes, destroyed>>

(* The destructor, which nobody may call during a call, joins the threads; *)
(* it leaves list_ids alone, so they read all that is left.                *)
Destroy ==
  /\ ~destroyed /\ mutex = NoCaller /\ AllExited
  /\ destroyed' = TRUE
  /\ UNCHANGED <<vars, mutex, cpc, list_nos, filled, tasks, threads, exited, calls, writes>>

-----------------------------------------------------------------------------
Running(t) == t \in threads \ exited

(* one_list: the next list number, then lock_1 on it.                      *)
GetNextList(t) ==
  /\ Running(t) /\ pc[t] = "out"
  /\ IF cur_list < Len(list_ids)
     THEN /\ cur_list' = cur_list + 1
          /\ taken' = [taken EXCEPT ![t] = cur_list + 1]
          /\ Call(t, list_ids[cur_list + 1])
          /\ UNCHANGED exited
     ELSE exited' = exited \cup {t} /\ UNCHANGED <<vars, cur_list, taken>>
  /\ UNCHANGED <<caller, list_ids, read, threads, writes>>

LockList(t) ==
  /\ Lock1(t)
  /\ UNCHANGED <<caller, tasks, threads, exited, writes>>

(* The ids and codes have been read: unlock_1.                             *)
UnlockList(t) ==
  /\ Unlock1(t)
  /\ read' = read \cup {taken[t]}
  /\ UNCHANGED <<caller, list_ids, cur_list, taken, threads, exited, writes>>

(* add_entries and resize, as in LockLevels, a bounded number of times.    *)
Write(t) ==
  \/ /\ writes < MaxWrites /\ ~destroyed
     /\ \E no \in Lists : Call(t, no)
     /\ writes' = writes + 1
     /\ UNCHANGED <<caller, tasks, threads, exited>>
  \/ /\ Acquire(t) \/ Release(t)
     /\ UNCHANGED <<caller, tasks, threads, exited, writes>>

WakeUp(t) ==
  /\ \E lv \in Levels : SpuriousWakeUp(t, lv)
  /\ UNCHANGED <<caller, tasks, threads, exited, writes>>

Idle ==
  /\ \A t \in Threads : pc[t] = "out"
  /\ AllExited /\ mutex = NoCaller

PfNext ==
  \/ \E c \in Callers :
       \/ \E nos \in Arguments : PrefetchLists(c, nos)
       \/ Join(c) \/ Fill(c) \/ Return(c)
       \/ \E t \in Fetchers : Create(c, t)
  \/ Destroy
  \/ \E t \in Fetchers : GetNextList(t) \/ LockList(t) \/ UnlockList(t)
  \/ \E t \in Writers : Write(t)
  \/ \E t \in Threads : WakeUp(t)
  \/ Idle /\ UNCHANGED all

(***************************************************************************)
(* Fairness: a thread that can go on does, as in LockLevels, and a caller  *)
(* goes on with the call it is in.  Nobody has to call, write or destroy.  *)
(***************************************************************************)
PfFairness ==
  /\ \A c \in Callers :
       /\ WF_all(Join(c)) /\ WF_all(Fill(c)) /\ WF_all(Return(c))
       /\ WF_all(\E t \in Fetchers : Create(c, t))
  /\ \A t \in Fetchers :
       WF_all(GetNextList(t)) /\ WF_all(LockList(t)) /\ WF_all(UnlockList(t))
  /\ \A t \in Writers :
       /\ WF_all(Lock1(t) /\ Write(t)) /\ WF_all(Lock2(t) /\ Write(t))
       /\ WF_all(Lock3(t) /\ Write(t)) /\ WF_all(Release(t) /\ Write(t))

PfSpec == PfInit /\ [][PfNext]_all /\ PfFairness

-----------------------------------------------------------------------------
PfTypeOK ==
  /\ TypeOK
  /\ mutex \in Callers \cup {NoCaller}
  /\ cpc \in [Callers -> {"out", "join", "fill"}]
  /\ threads \subseteq Fetchers /\ exited \subseteq threads
  /\ list_ids \in Seq(Lists) /\ cur_list \in Nat
  /\ read \subseteq Nat

(***************************************************************************)
(* While list_ids and cur_list are written without list_ids_mutex, no      *)
(* thread of an earlier call is left that could read them, and none is     *)
(* inside the lock of a list; after the destructor none is either.         *)
(***************************************************************************)
QuietFill ==
  \A t \in Fetchers :
    \/ destroyed
    \/ \E c \in Callers : cpc[c] = "fill" /\ filled < Len(list_nos[c])
    => ~Running(t) /\ pc[t] = "out"

(* When the threads of a call have returned and no later call has begun,   *)
(* every list the call kept has been read.                                 *)
AllRead ==
  mutex = NoCaller /\ AllExited => read = DOMAIN list_ids

(***************************************************************************)
(* A call returns: it never waits for ever for the threads of the call     *)
(* before, whatever locks they have to wait for themselves.                *)
(***************************************************************************)
Returns == \A c \in Callers : cpc[c] = "join" ~> cpc[c] = "out"

(***************************************************************************)
(* A call, the threads it joins and the writers never wait for each other  *)
(* in a circle: the call can go on, or a thread can take its next list,    *)
(* leave its place in the lock, or goes on with the lock's mutex.          *)
(***************************************************************************)
CallCanGo(c) ==
  IF cpc[c] = "join" THEN AllExited
  ELSE filled < Len(list_nos[c]) \/ ~Missing(c) \/ Fetchers \ threads # {}

ThreadCanGo(t) ==
  \/ t \in Fetchers /\ Running(t) /\ pc[t] = "out"
  \/ pc[t] # "out" /\ CanGo(t)
  \/ mutex1 = t /\ (At(t, "lock_2") \/ At(t, "lock_3") \/ pc[t] = "level_3")

CallsGoOn ==
  \A c \in Callers : cpc[c] # "out" => CallCanGo(c) \/ \E t \in Threads : ThreadCanGo(t)

(***************************************************************************)
(* While a call joins the threads of the call before, they take no list    *)
(* any more and no thread is added to them: each is waited for until it    *)
(* has read the list it is at, and no longer.                              *)
(***************************************************************************)
Inside == {t \in Fetchers : pc[t] # "out"}

JoinsShrink ==
  [][\A c \in Callers : cpc[c] = "join" /\ cpc'[c] = "join" =>
       /\ threads' = threads /\ cur_list' = cur_list
       /\ exited \subseteq exited' /\ Inside' \subseteq Inside]_all
=============================================================================
