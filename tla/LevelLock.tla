----------------------------- MODULE LevelLock -----------------------------
(***************************************************************************)
(* What LockLevels promises to those who call it, without mutex, counters  *)
(* and condition variables: who holds which lock, and who is stopped on    *)
(* the way to level 2 and touches no list meanwhile.                       *)
(*                                                                         *)
(*   - a list is held by one thread, the table of slots by one thread;     *)
(*   - the file is given to one thread only while every other thread that  *)
(*     holds a list is stopped, and until it is given back nobody goes on. *)
(***************************************************************************)
CONSTANTS Threads, Lists

VARIABLES
  level1,     (* the pairs of a thread and the list it holds               *)
  level2,     (* the threads that hold the table of slots                  *)
  level3,     (* the threads that hold the file                            *)
  stopped     (* the threads that wait for level 2                         *)

locks == <<level1, level2, level3, stopped>>

LockInit == level1 = {} /\ level2 = {} /\ level3 = {} /\ stopped = {}

Active(t) == t \notin stopped \cup level2

TakeList(t, no) ==
  /\ level3 = {}
  /\ \A held \in level1 : held[1] # t /\ held[2] # no
  /\ level1' = level1 \cup {<<t, no>>}
  /\ UNCHANGED <<level2, level3, stopped>>

GiveList(t, no) ==
  /\ <<t, no>> \in level1 /\ Active(t)
  /\ level1' = level1 \ {<<t, no>>}
  /\ UNCHANGED <<level2, level3, stopped>>

StopFor2(t, no) ==
  /\ <<t, no>> \in level1 /\ Active(t)
  /\ stopped' = stopped \cup {t}
  /\ UNCHANGED <<level1, level2, level3>>

TakeSlots(t) ==
  /\ t \in stopped /\ level2 = {}
  /\ level2' = {t} /\ stopped' = stopped \ {t}
  /\ UNCHANGED <<level1, level3>>

GiveSlots(t) ==
  /\ t \in level2 /\ level3 = {}
  /\ level2' = {}
  /\ UNCHANGED <<level1, level3, stopped>>

TakeFile(t) ==
  /\ t \in level2 /\ level3 = {}
  /\ \A held \in level1 : held[1] = t \/ held[1] \in stopped
  /\ level3' = {t}
  /\ UNCHANGED <<level1, level2, stopped>>

GiveFile(t) ==
  /\ t \in level3
  /\ level3' = {}
  /\ UNCHANGED <<level1, level2, stopped>>

LockNext ==
  \E t \in Threads :
    \/ \E no \in Lists : TakeList(t, no) \/ GiveList(t, no) \/ StopFor2(t, no)
    \/ TakeSlots(t) \/ GiveSlots(t) \/ TakeFile(t) \/ GiveFile(t)

LockSpec == LockInit /\ [][LockNext]_locks
=============================================================================
