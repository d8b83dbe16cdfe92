----------------------------- MODULE LockLevels -----------------------------
(***************************************************************************)
(* The three-level lock of OnDiskInvertedLists, and the way its callers    *)
(* use it.                                                                 *)
(*                                                                         *)
(* A thread that touches list no holds lock_1(no).  To change the table of *)
(* free slots it takes lock_2 as well, and to grow the file, which unmaps  *)
(* and remaps every list, lock_3 on top.  The lock is built from one mutex *)
(* and three condition variables:                                          *)
(*   - lock_1 and lock_2 test their condition and sleep until a wake-up;   *)
(*   - lock_3 sleeps until every holder of a level-1 lock is inside lock_2 *)
(*     and returns WITHOUT releasing the mutex, unlock_3 does that.        *)
(*                                                                         *)
(* pthread_cond_signal wakes one sleeper, whichever; a woken thread has to *)
(* win the mutex and tests again, and others may come first.               *)
(***************************************************************************)
EXTENDS Integers, FiniteSets

CONSTANTS
  Threads,   (* threads that add to, resize or prefetch lists               *)
  NoThread,  (* owner of the free mutex                                     *)
  Lists      (* list numbers                                                *)

ASSUME ThreadsAssumption == NoThread \notin Threads /\ IsFiniteSet(Threads)

VARIABLES
  mutex1,          (* owner of mutex1 between two steps: lock_3's caller    *)
  level1_holders,  (* lists whose level-1 lock is held                      *)
  n_level2,        (* threads inside lock_2 .. unlock_2                     *)
  level2_in_use,
  level3_in_use,
  asleep,          (* the threads sleeping on each condition variable       *)
  pc,              (* where a thread is                                     *)
  list             (* the list of the thread's operation                    *)

vars == <<mutex1, level1_holders, n_level2, level2_in_use, level3_in_use, asleep, pc, list>>

Levels == 1 .. 3

(* A step that takes mutex1 and, if it sleeps or returns, releases it.     *)
Free == mutex1 = NoThread

(* The thread is at the location and awake.                                *)
At(t, loc) == pc[t] = loc /\ \A lv \in Levels : t \notin asleep[lv]

Goto(t, loc) == pc' = [pc EXCEPT ![t] = loc]

Sleep(t, lv) == asleep' = [asleep EXCEPT ![lv] = @ \cup {t}]

(* pthread_cond_broadcast                                                  *)
Broadcast(lv) == asleep' = [asleep EXCEPT ![lv] = {}]

(* pthread_cond_signal                                                     *)
Signal(lv) ==
  IF asleep[lv] = {} THEN asleep' = asleep
  ELSE \E t \in asleep[lv] : asleep' = [asleep EXCEPT ![lv] = @ \ {t}]

Init ==
  /\ mutex1 = NoThread
  /\ level1_holders = {}
  /\ n_level2 = 0
  /\ level2_in_use = FALSE
  /\ level3_in_use = FALSE
  /\ asleep = [lv \in Levels |-> {}]
  /\ pc = [t \in Threads |-> "out"]
  /\ list \in [Threads -> Lists]

-----------------------------------------------------------------------------
(* add_entries, resize or one_list calls lock_1(no).                       *)
Call(t, no) ==
  /\ pc[t] = "out"
  /\ Goto(t, "lock_1")
  /\ list' = [list EXCEPT ![t] = no]
  /\ UNCHANGED <<mutex1, level1_holders, n_level2, level2_in_use, level3_in_use, asleep>>

(* lock_1 has to wait.                                                     *)
Busy1(no) == level3_in_use \/ no \in level1_holders

Lock1(t) ==
  /\ Free /\ At(t, "lock_1")
  /\ IF Busy1(list[t])
     THEN Sleep(t, 1) /\ UNCHANGED <<level1_holders, pc>>
     ELSE /\ level1_holders' = level1_holders \cup {list[t]}
          /\ Goto(t, "level_1")
          /\ UNCHANGED asleep
  /\ UNCHANGED <<mutex1, n_level2, level2_in_use, level3_in_use, list>>

(* Mutant: signal instead of broadcast, to sleepers that wait for          *)
(* different lists.                                                        *)
WakeAfterUnlock1Signal == IF level3_in_use THEN Signal(3) ELSE Signal(1)

(* Mutant: only a thread inside lock_3 is told.                            *)
WakeAfterUnlock1Grower == IF level3_in_use THEN Signal(3) ELSE UNCHANGED asleep

(* Whom unlock_1 wakes: a thread inside lock_3, or all those in lock_1.    *)
WakeAfterUnlock1 == IF level3_in_use THEN Signal(3) ELSE Broadcast(1)

Unlock1(t) ==
  /\ Free /\ pc[t] \in {"level_1", "done"}
  /\ level1_holders' = level1_holders \ {list[t]}
  /\ WakeAfterUnlock1
  /\ Goto(t, "out")
  /\ UNCHANGED <<mutex1, n_level2, level2_in_use, level3_in_use, list>>

(* Mutant: the thread inside lock_3 is not told that this one blocks.      *)
TellBlockedNever == UNCHANGED asleep

(* lock_2 wakes a thread inside lock_3.                                    *)
TellBlocked == IF level3_in_use THEN Signal(3) ELSE UNCHANGED asleep

Counted == n_level2 + 1

(* lock_2, first part: be counted, before the mutex is given up.           *)
EnterLock2(t) ==
  /\ Free /\ pc[t] = "level_1"
  /\ n_level2' = Counted
  /\ TellBlocked
  /\ Goto(t, "lock_2")
  /\ mutex1' = t
  /\ UNCHANGED <<level1_holders, level2_in_use, level3_in_use, list>>

(* lock_2, the loop: the first test comes with the mutex still held, the   *)
(* next ones after a wake-up.                                              *)
Lock2(t) ==
  /\ mutex1 \in {t, NoThread} /\ At(t, "lock_2")
  /\ IF level2_in_use
     THEN Sleep(t, 2) /\ UNCHANGED <<level2_in_use, pc>>
     ELSE /\ level2_in_use' = TRUE
          /\ Goto(t, "level_2")
          /\ UNCHANGED asleep
  /\ mutex1' = NoThread
  /\ UNCHANGED <<level1_holders, n_level2, level3_in_use, list>>

(* unlock_2, once free_slot, allocate_slot and the copy are done.          *)
Unlock2(t) ==
  /\ Free /\ pc[t] \in {"level_2", "grown"}
  /\ level2_in_use' = FALSE
  /\ n_level2' = n_level2 - 1
  /\ Signal(2)
  /\ Goto(t, "done")
  /\ UNCHANGED <<mutex1, level1_holders, level3_in_use, list>>

(* allocate_slot finds no slot: lock_3, first part.                        *)
EnterLock3(t) ==
  /\ Free /\ pc[t] = "level_2"
  /\ level3_in_use' = TRUE
  /\ mutex1' = t
  /\ Goto(t, "lock_3")
  /\ UNCHANGED <<level1_holders, n_level2, level2_in_use, asleep, list>>

(* Mutant: do not wait for the holders of other level-1 locks.             *)
OthersActiveNever == FALSE

(* Some level-1 holder is not inside lock_2.                               *)
OthersActive == Cardinality(level1_holders) > n_level2

(* lock_3, the loop: on success the mutex stays held.                      *)
Lock3(t) ==
  /\ mutex1 \in {t, NoThread} /\ At(t, "lock_3")
  /\ IF OthersActive
     THEN Sleep(t, 3) /\ mutex1' = NoThread /\ UNCHANGED pc
     ELSE mutex1' = t /\ Goto(t, "level_3") /\ UNCHANGED asleep
  /\ UNCHANGED <<level1_holders, n_level2, level2_in_use, level3_in_use, list>>

(* update_totsize is over: unlock_3 releases the mutex lock_3 kept.        *)
Unlock3(t) ==
  /\ pc[t] = "level_3"
  /\ level3_in_use' = FALSE
  /\ Broadcast(1)
  /\ mutex1' = NoThread
  /\ Goto(t, "grown")
  /\ UNCHANGED <<level1_holders, n_level2, level2_in_use, list>>

(* A condition wait may return without a signal.                           *)
SpuriousWakeUp(t, lv) ==
  /\ t \in asleep[lv]
  /\ asleep' = [asleep EXCEPT ![lv] = @ \ {t}]
  /\ UNCHANGED <<mutex1, level1_holders, n_level2, level2_in_use, level3_in_use, pc, list>>

Acquire(t) == Lock1(t) \/ EnterLock2(t) \/ Lock2(t) \/ EnterLock3(t) \/ Lock3(t)

Release(t) == Unlock1(t) \/ Unlock2(t) \/ Unlock3(t)

Next ==
  \E t \in Threads :
    \/ \E no \in Lists : Call(t, no)
    \/ Acquire(t)
    \/ Release(t)
    \/ \E lv \in Levels : SpuriousWakeUp(t, lv)

(***************************************************************************)
(* Fairness: a thread that holds a lock goes on and releases it, and one   *)
(* that is awake tests its condition again.  Nobody has to call lock_1,    *)
(* and nothing is said of who wins the mutex.                              *)
(***************************************************************************)
Fairness ==
  \A t \in Threads : WF_vars(Lock1(t)) /\ WF_vars(Lock2(t)) /\ WF_vars(Lock3(t))
                     /\ WF_vars(Release(t))

Spec == Init /\ [][Next]_vars /\ Fairness

-----------------------------------------------------------------------------
TypeOK ==
  /\ mutex1 \in Threads \cup {NoThread}
  /\ level1_holders \subseteq Lists
  /\ n_level2 \in Nat
  /\ level2_in_use \in BOOLEAN
  /\ level3_in_use \in BOOLEAN
  /\ asleep \in [Levels -> SUBSET Threads]
  /\ pc \in [Threads -> {"out", "lock_1", "level_1", "lock_2", "level_2",
                         "lock_3", "level_3", "grown", "done"}]
  /\ list \in [Threads -> Lists]

(* Threads that hold a level-1 lock, are between lock_2 and unlock_2, have *)
(* returned from lock_2, or are between lock_3 and unlock_3.               *)
Holders == {t \in Threads : pc[t] \notin {"out", "lock_1"}}
Inside2 == {t \in Threads : pc[t] \in {"lock_2", "level_2", "lock_3", "level_3", "grown"}}
Owners2 == {t \in Threads : pc[t] \in {"level_2", "lock_3", "level_3", "grown"}}
Inside3 == {t \in Threads : pc[t] \in {"lock_3", "level_3"}}

(***************************************************************************)
(* A list is locked by one thread, the slot table is changed by one        *)
(* thread, and while a thread has the file unmapped (between lock_3 and    *)
(* unlock_3) no other one reads or writes a list: those that hold a        *)
(* level-1 lock are all stopped inside lock_2.                             *)
(***************************************************************************)
Exclusion ==
  \A t, u \in Threads : t # u =>
    /\ t \in Holders /\ u \in Holders => list[t] # list[u]
    /\ ~(t \in Owners2 /\ u \in Owners2)
    /\ pc[t] = "level_3" => pc[u] \in {"out", "lock_1", "lock_2"}

(***************************************************************************)
(* No wake-up is lost.  Whoever sleeps has a reason to: in lock_1 its list *)
(* is taken or a thread is inside lock_3, which will broadcast; in lock_2  *)
(* the level is in use, or one of the waiters has been woken and has yet   *)
(* to test; in lock_3 some holder is active.                               *)
(***************************************************************************)
NoLostWakeUp ==
  /\ \A t \in asleep[1] : Busy1(list[t])
  /\ asleep[2] # {} => level2_in_use \/ \E t \in Threads : At(t, "lock_2")
  /\ asleep[3] # {} => OthersActive

(***************************************************************************)
(* A thread that needs the file to grow gets lock_3 and gives it back,     *)
(* however many other threads keep calling: it keeps newcomers out of      *)
(* level 1 and is told about every holder that leaves or blocks.           *)
(***************************************************************************)
Grows == \A t \in Threads : pc[t] = "lock_3" ~> pc[t] = "grown"

(***************************************************************************)
(* The comment on LockLevels: "a single thread can hold lock3, if it holds *)
(* lock1(n) for some n AND lock2 AND no other thread holds lock1(m) for    *)
(* m != n".  The code lets the others keep lock1(m) as long as they are    *)
(* stopped inside lock_2.                                                  *)
(***************************************************************************)
NoOtherLevel1 ==
  \A t \in Threads : pc[t] = "level_3" => level1_holders = {list[t]}

(***************************************************************************)
(* Nobody waits for nobody.  The mutex is held between two steps only by a *)
(* thread that is awake, and when it is free and some thread is inside the *)
(* lock, one of them can go on: not just test its condition and sleep      *)
(* again, but leave the place where it is.                                 *)
(***************************************************************************)
CanGo(t) ==
  \/ pc[t] \in {"level_1", "level_2", "grown", "done"} /\ Free
  \/ pc[t] = "level_3"
  \/ At(t, "lock_1") /\ Free /\ ~Busy1(list[t])
  \/ At(t, "lock_2") /\ mutex1 \in {t, NoThread} /\ ~level2_in_use
  \/ At(t, "lock_3") /\ mutex1 \in {t, NoThread} /\ ~OthersActive

NeverStuck ==
  /\ \A t \in Threads : mutex1 = t => At(t, "lock_2") \/ At(t, "lock_3") \/ pc[t] = "level_3"
  /\ Free /\ (\E t \in Threads : pc[t] # "out") => \E t \in Threads : CanGo(t)

(***************************************************************************)
(* While a thread waits in lock_3, those it waits for become fewer: no     *)
(* thread joins the holders that are not inside lock_2, whoever calls.     *)
(***************************************************************************)
OthersOnlyLeave ==
  [][\A t \in Threads : pc[t] = "lock_3" /\ pc'[t] = "lock_3" =>
       (Holders \ Inside2)' \subseteq Holders \ Inside2]_vars

(***************************************************************************)
(* The lock does what LevelLock says.                                      *)
(***************************************************************************)
Held == {<<t, list[t]>> : t \in Holders}
InFile == {t \in Threads : pc[t] = "level_3"}
Stopped == Inside2 \ Owners2

Promised == INSTANCE LevelLock WITH
  level1 <- Held, level2 <- Owners2, level3 <- InFile, stopped <- Stopped

LockImplements == Promised!LockSpec
=============================================================================
