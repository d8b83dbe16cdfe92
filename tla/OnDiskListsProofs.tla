------------------------- MODULE OnDiskListsProofs -------------------------
(***************************************************************************)
(* Proofs about OnDiskInvertedLists: its lock, the prefetch that takes the *)
(* lock, and its storage.                                                  *)
(*                                                                         *)
(* LockLevels, for any number of threads and lists: its types, mutual      *)
(* exclusion at the three levels, and that no wake-up is lost.  Prefetch,  *)
(* which extends it, for any number of callers, threads that prefetch and  *)
(* writers, any arguments, and any number of calls and writes.             *)
(* OnDiskLists, for any number of lists, sizes, code size and length of    *)
(* the file: that lists and free slots stay apart, and that lists keep     *)
(* their codes.                                                            *)
(***************************************************************************)
EXTENDS Prefetch, OnDiskLists, FiniteSetTheorems, SequenceTheorems, WellFoundedInduction, TLAPS

-----------------------------------------------------------------------------
(***************************************************************************)
(* The inductive invariant of LockLevels.                                  *)
(***************************************************************************)

(* The flags and the set say where the threads are.                        *)
Marks ==
  /\ level1_holders = {list[t] : t \in Holders}
  /\ level2_in_use <=> Owners2 # {}
  /\ level3_in_use <=> Inside3 # {}

(* What lock_3 compares are numbers of threads.                            *)
Counts ==
  /\ IsFiniteSet(level1_holders)
  /\ Cardinality(level1_holders) = Cardinality(Holders)
  /\ n_level2 = Cardinality(Inside2)

Unique ==
  /\ \A t, u \in Holders : t # u => list[t] # list[u]
  /\ \A t, u \in Owners2 : t = u

(* A thread sleeps only in the loop of its condition variable.             *)
Sleepers ==
  /\ \A t \in asleep[1] : pc[t] = "lock_1"
  /\ \A t \in asleep[2] : pc[t] = "lock_2"
  /\ \A t \in asleep[3] : pc[t] = "lock_3"

(* The mutex is held between two steps only on the way through lock_2 and  *)
(* lock_3, and from the return of lock_3 on.                               *)
MutexOwner ==
  /\ \A t \in Threads : mutex1 = t =>
       /\ pc[t] \in {"lock_2", "lock_3", "level_3"}
       /\ t \notin asleep[2] /\ t \notin asleep[3]
  /\ \A t \in Threads : pc[t] = "level_3" => mutex1 = t

(* What lock_3 waited for stays true until unlock_3.                       *)
Frozen == \A t \in Threads : pc[t] = "level_3" => ~OthersActive

IInv ==
  /\ TypeOK /\ Marks /\ Counts /\ Unique /\ Sleepers /\ MutexOwner /\ Frozen
  /\ NoLostWakeUp

-----------------------------------------------------------------------------
(* The sets of threads are finite, and their sizes are numbers.            *)
LEMMA Finite ==
  /\ IsFiniteSet(Holders) /\ IsFiniteSet(Inside2)
  /\ Cardinality(Holders) \in Nat /\ Cardinality(Inside2) \in Nat
<1>1. Holders \in SUBSET Threads /\ Inside2 \in SUBSET Threads
  BY DEF Holders, Inside2
<1>2. IsFiniteSet(Holders) /\ IsFiniteSet(Inside2)
  BY <1>1, FS_Subset, ThreadsAssumption
<1> QED BY <1>2, FS_CardinalityType

(* Adding a thread to a set of threads, or removing it, counts one.        *)
LEMMA OneMore ==
  ASSUME NEW S, NEW x, IsFiniteSet(S), x \notin S
  PROVE  IsFiniteSet(S \cup {x}) /\ Cardinality(S \cup {x}) = Cardinality(S) + 1
BY FS_AddElement

LEMMA OneLess ==
  ASSUME NEW S, NEW x, IsFiniteSet(S), x \in S
  PROVE  IsFiniteSet(S \ {x}) /\ Cardinality(S \ {x}) = Cardinality(S) - 1
BY FS_RemoveElement

(* At most one thread sleeps in lock_3; nobody does when the flag is down  *)
(* or when a thread has returned from lock_2 and is not inside lock_3.     *)
LEMMA OneWriter ==
  ASSUME IInv
  PROVE  /\ \A t, u \in asleep[3] : t = u
         /\ ~level3_in_use => asleep[3] = {}
         /\ \A t \in Threads : pc[t] \in {"level_2", "grown", "level_3"} => asleep[3] = {}
<1>1. asleep[3] \subseteq Threads
  BY DEF IInv, TypeOK, Levels
<1>2. asleep[3] \subseteq Inside3 /\ asleep[3] \subseteq Owners2
  BY <1>1 DEF IInv, Sleepers, Inside3, Owners2
<1>3. Inside3 \subseteq Owners2
  BY DEF Inside3, Owners2
<1>4. \A t \in Threads : pc[t] \in {"level_2", "grown", "level_3"} => t \in Owners2 /\ t \notin asleep[3]
  BY DEF Owners2, IInv, Sleepers
<1> QED BY <1>1, <1>2, <1>3, <1>4 DEF IInv, Unique, Marks

(* lock_3 returns when every holder of a level-1 lock is inside lock_2.    *)
LEMMA AllBlocked ==
  ASSUME IInv, ~OthersActive
  PROVE  Holders = Inside2
<1>1. Inside2 \in SUBSET Holders
  BY DEF Inside2, Holders
<1>2. Cardinality(Holders) <= Cardinality(Inside2)
  BY Finite DEF IInv, Counts, OthersActive
<1>3. Cardinality(Inside2) <= Cardinality(Holders)
  BY <1>1, Finite, FS_Subset
<1>4. Cardinality(Inside2) = Cardinality(Holders)
  BY <1>2, <1>3, Finite
<1> QED BY <1>1, <1>4, Finite, FS_Subset

(* The inductive invariant gives mutual exclusion.                         *)
LEMMA IInvExclusion == IInv => Exclusion
<1> SUFFICES ASSUME IInv, NEW t \in Threads, NEW u \in Threads, t # u
             PROVE  /\ t \in Holders /\ u \in Holders => list[t] # list[u]
                    /\ ~(t \in Owners2 /\ u \in Owners2)
                    /\ pc[t] = "level_3" => pc[u] \in {"out", "lock_1", "lock_2"}
  BY DEF Exclusion
<1>1. ~(t \in Owners2 /\ u \in Owners2)
  BY DEF IInv, Unique
<1>2. ASSUME pc[t] = "level_3" PROVE pc[u] \in {"out", "lock_1", "lock_2"}
  <2>1. Holders = Inside2
    BY <1>2, AllBlocked DEF IInv, Frozen
  <2>2. t \in Owners2
    BY <1>2 DEF Owners2
  <2>3. u \notin Owners2
    BY <2>2, <1>1
  <2>4. u \in Holders => pc[u] = "lock_2"
    BY <2>1, <2>3 DEF Inside2, Owners2
  <2> QED BY <2>4 DEF Holders
<1> QED BY <1>1, <1>2 DEF IInv, Unique

LEMMA InitIInv == Init => IInv
<1> SUFFICES ASSUME Init PROVE IInv
  OBVIOUS
<1>1. Holders = {} /\ Inside2 = {} /\ Owners2 = {} /\ Inside3 = {}
  BY DEF Init, Holders, Inside2, Owners2, Inside3
<1>2. TypeOK
  BY DEF Init, TypeOK, Levels
<1>3. Counts
  BY <1>1, FS_EmptySet DEF Init, Counts
<1>4. Marks /\ Unique
  BY <1>1 DEF Init, Marks, Unique
<1>5. Sleepers /\ MutexOwner /\ Frozen
  BY ThreadsAssumption DEF Init, Sleepers, MutexOwner, Frozen, Levels
<1>6. NoLostWakeUp
  BY DEF Init, NoLostWakeUp, Levels
<1> QED BY <1>2, <1>3, <1>4, <1>5, <1>6 DEF IInv

-----------------------------------------------------------------------------
(* Steps that leave the counted sets alone keep the counts.                *)
LEMMA SameCounts ==
  ASSUME Counts, Holders' = Holders, Inside2' = Inside2,
         level1_holders' = level1_holders, n_level2' = n_level2
  PROVE  Counts' /\ (OthersActive' <=> OthersActive)
BY DEF Counts, OthersActive

LEMMA CallStep ==
  ASSUME IInv, NEW t \in Threads, NEW no \in Lists, Call(t, no)
  PROVE  IInv'
<1> USE DEF Call, Goto
<1>1. TypeOK'
  BY DEF IInv, TypeOK
<1>2. Holders' = Holders /\ Inside2' = Inside2 /\ Owners2' = Owners2 /\ Inside3' = Inside3
  BY DEF IInv, TypeOK, Holders, Inside2, Owners2, Inside3
<1>3. Counts' /\ (OthersActive' <=> OthersActive)
  BY <1>2, SameCounts DEF IInv
<1>4. \A u \in Holders : list'[u] = list[u]
  BY DEF IInv, TypeOK, Holders
<1>5. Marks' /\ Unique'
  BY <1>2, <1>4 DEF IInv, Marks, Unique
<1>6. Sleepers' /\ MutexOwner' /\ Frozen'
  BY <1>3 DEF IInv, TypeOK, Sleepers, MutexOwner, Frozen
<1>7. NoLostWakeUp'
  <2>1. \A u \in asleep[1] : u # t
    BY DEF IInv, Sleepers
  <2>2. \A u \in asleep'[1] : Busy1(list[u])'
    BY <2>1 DEF IInv, NoLostWakeUp, Busy1, TypeOK, Levels
  <2>3. \A u \in Threads : At(u, "lock_2") => At(u, "lock_2")'
    BY DEF At, IInv, TypeOK
  <2> QED BY <2>2, <2>3, <1>3 DEF IInv, NoLostWakeUp
<1> QED BY <1>1, <1>3, <1>5, <1>6, <1>7 DEF IInv

LEMMA Lock1Step ==
  ASSUME IInv, NEW t \in Threads, Lock1(t)
  PROVE  IInv'
<1> USE DEF Lock1, Goto, Sleep, At, Free
<1>1. TypeOK'
  BY DEF IInv, TypeOK, Levels
<1>2. CASE Busy1(list[t])
  <2>1. Holders' = Holders /\ Inside2' = Inside2 /\ Owners2' = Owners2 /\ Inside3' = Inside3
    BY <1>2 DEF Holders, Inside2, Owners2, Inside3
  <2>2. Counts' /\ (OthersActive' <=> OthersActive)
    BY <1>2, <2>1, SameCounts DEF IInv
  <2>3. asleep'[1] = asleep[1] \cup {t} /\ asleep'[2] = asleep[2] /\ asleep'[3] = asleep[3]
    BY <1>2 DEF IInv, TypeOK, Levels
  <2>4. Marks' /\ Unique' /\ MutexOwner' /\ Frozen' /\ Sleepers'
    BY <1>2, <2>1, <2>2, <2>3 DEF IInv, Marks, Unique, MutexOwner, Frozen, Sleepers
  <2>5. \A u \in asleep'[1] : Busy1(list[u])'
    BY <1>2, <2>3 DEF IInv, NoLostWakeUp, Busy1
  <2>6. \A u \in Threads : At(u, "lock_2") => At(u, "lock_2")'
    BY <1>2, <2>3 DEF Levels
  <2>7. NoLostWakeUp'
    BY <1>2, <2>2, <2>3, <2>5, <2>6 DEF IInv, NoLostWakeUp
  <2> QED BY <1>1, <2>2, <2>4, <2>7 DEF IInv
<1>3. CASE ~Busy1(list[t])
  <2>1. /\ Holders' = Holders \cup {t} /\ t \notin Holders
        /\ Inside2' = Inside2 /\ Owners2' = Owners2 /\ Inside3' = Inside3
    BY <1>3 DEF IInv, TypeOK, Holders, Inside2, Owners2, Inside3
  <2>2. /\ ~level3_in_use /\ list[t] \notin level1_holders
        /\ level1_holders' = level1_holders \cup {list[t]} /\ n_level2' = n_level2
    BY <1>3 DEF Busy1
  <2>3. Counts'
    <3>1. Cardinality(Holders') = Cardinality(Holders) + 1
      BY <2>1, Finite, OneMore
    <3>2. /\ IsFiniteSet(level1_holders')
          /\ Cardinality(level1_holders') = Cardinality(level1_holders) + 1
      BY <2>2, OneMore DEF IInv, Counts
    <3> QED BY <2>1, <2>2, <3>1, <3>2 DEF IInv, Counts
  <2>4. Marks'
    BY <1>3, <2>1, <2>2 DEF IInv, Marks
  <2>5. Unique'
    BY <1>3, <2>1, <2>2 DEF IInv, Unique, Marks
  <2>6. asleep[3] = {} /\ Inside3 = {}
    BY <2>2, OneWriter DEF IInv, Marks
  <2>7. Sleepers' /\ MutexOwner'
    BY <1>3 DEF IInv, TypeOK, Sleepers, MutexOwner, Levels
  <2>8. Frozen'
    BY <2>1, <2>6 DEF Frozen, Inside3
  <2>9. NoLostWakeUp'
    <3>1. \A u \in asleep'[1] : Busy1(list[u])'
      BY <1>3, <2>2 DEF IInv, NoLostWakeUp, Busy1
    <3>2. \A u \in Threads : At(u, "lock_2") => At(u, "lock_2")'
      BY <1>3 DEF IInv, TypeOK
    <3> QED BY <1>3, <3>1, <3>2, <2>6 DEF IInv, NoLostWakeUp
  <2> QED BY <1>1, <2>3, <2>4, <2>5, <2>7, <2>8, <2>9 DEF IInv
<1> QED BY <1>2, <1>3

(* A signal to the one thread in lock_3 leaves nobody asleep there.        *)
LEMMA SignalWriter ==
  ASSUME IInv, IF level3_in_use THEN Signal(3) ELSE UNCHANGED asleep
  PROVE  /\ asleep' \in [Levels -> SUBSET Threads]
         /\ asleep'[1] = asleep[1] /\ asleep'[2] = asleep[2] /\ asleep'[3] = {}
<1>1. CASE ~level3_in_use
  BY <1>1, OneWriter DEF IInv, TypeOK
<1>2. CASE level3_in_use /\ asleep[3] = {}
  BY <1>2 DEF Signal, IInv, TypeOK
<1>3. CASE level3_in_use /\ asleep[3] # {}
  <2>1. PICK u \in asleep[3] : asleep' = [asleep EXCEPT ![3] = @ \ {u}]
    BY <1>3 DEF Signal
  <2>2. asleep[3] = {u}
    BY <2>1, OneWriter
  <2> QED BY <2>1, <2>2 DEF IInv, TypeOK, Levels
<1> QED BY <1>1, <1>2, <1>3

LEMMA Unlock1Step ==
  ASSUME IInv, NEW t \in Threads, Unlock1(t)
  PROVE  IInv'
<1> USE DEF Unlock1, Goto
<1>1. /\ asleep' \in [Levels -> SUBSET Threads]
      /\ asleep'[1] = (IF level3_in_use THEN asleep[1] ELSE {})
      /\ asleep'[2] = asleep[2] /\ asleep'[3] = {}
  <2>1. CASE level3_in_use
    BY <2>1, SignalWriter DEF WakeAfterUnlock1
  <2>2. CASE ~level3_in_use
    BY <2>2, OneWriter DEF WakeAfterUnlock1, Broadcast, IInv, TypeOK, Levels
  <2> QED BY <2>1, <2>2
<1>2. TypeOK'
  BY <1>1 DEF IInv, TypeOK
<1>3. /\ Holders' = Holders \ {t} /\ t \in Holders
      /\ Inside2' = Inside2 /\ Owners2' = Owners2 /\ Inside3' = Inside3
  BY DEF IInv, TypeOK, Holders, Inside2, Owners2, Inside3
<1>4. list[t] \in level1_holders
  BY <1>3 DEF IInv, Marks
<1>5. Counts'
  <2>1. Cardinality(Holders') = Cardinality(Holders) - 1
    BY <1>3, Finite, OneLess
  <2>2. IsFiniteSet(level1_holders') /\ Cardinality(level1_holders') = Cardinality(level1_holders) - 1
    BY <1>4, OneLess DEF IInv, Counts
  <2> QED BY <1>3, <2>1, <2>2 DEF IInv, Counts
<1>6. Unique'
  BY <1>3 DEF IInv, Unique
<1>7. Marks'
  <2>1. level1_holders' = {list[u] : u \in Holders \ {t}}
    BY <1>3 DEF IInv, Marks, Unique
  <2> QED BY <2>1, <1>3 DEF IInv, Marks
<1>8. Sleepers' /\ MutexOwner'
  BY <1>1 DEF IInv, TypeOK, Sleepers, MutexOwner, Free
<1>9. \A u \in Threads : pc'[u] # "level_3"
  BY ThreadsAssumption DEF IInv, TypeOK, MutexOwner, Free
<1>10. NoLostWakeUp'
  <2>1. \A u \in asleep'[1] : Busy1(list[u])'
    BY <1>1 DEF Busy1
  <2>2. \A u \in Threads : At(u, "lock_2") => At(u, "lock_2")'
    BY <1>1 DEF At, Levels
  <2> QED BY <1>1, <2>1, <2>2 DEF IInv, NoLostWakeUp
<1> QED BY <1>2, <1>5, <1>6, <1>7, <1>8, <1>9, <1>10 DEF IInv, Frozen

LEMMA EnterLock2Step ==
  ASSUME IInv, NEW t \in Threads, EnterLock2(t)
  PROVE  IInv'
<1> USE DEF EnterLock2, Goto
<1>1. /\ asleep' \in [Levels -> SUBSET Threads]
      /\ asleep'[1] = asleep[1] /\ asleep'[2] = asleep[2] /\ asleep'[3] = {}
  BY SignalWriter DEF TellBlocked
<1>2. /\ Holders' = Holders /\ Owners2' = Owners2 /\ Inside3' = Inside3
      /\ Inside2' = Inside2 \cup {t} /\ t \notin Inside2
  BY DEF IInv, TypeOK, Holders, Inside2, Owners2, Inside3
<1>3. TypeOK'
  BY <1>1 DEF IInv, TypeOK, Counted
<1>4. Counts'
  <2>1. Cardinality(Inside2') = Cardinality(Inside2) + 1
    BY <1>2, Finite, OneMore
  <2> QED BY <1>2, <2>1 DEF IInv, Counts, Counted
<1>5. Marks' /\ Unique'
  BY <1>2 DEF IInv, Marks, Unique
<1>6. t \notin asleep[1] /\ t \notin asleep[2] /\ t \notin asleep[3]
  BY DEF IInv, Sleepers
<1>7. Sleepers' /\ MutexOwner'
  BY <1>1, <1>6, ThreadsAssumption DEF IInv, TypeOK, Sleepers, MutexOwner, Free
<1>8. \A u \in Threads : pc'[u] # "level_3"
  BY ThreadsAssumption DEF IInv, TypeOK, MutexOwner, Free
<1>9. NoLostWakeUp'
  <2>1. \A u \in asleep'[1] : Busy1(list[u])'
    BY <1>1 DEF Busy1, IInv, NoLostWakeUp
  <2>2. \A u \in Threads : At(u, "lock_2") => At(u, "lock_2")'
    BY <1>1 DEF At, Levels, IInv, TypeOK
  <2> QED BY <1>1, <2>1, <2>2 DEF IInv, NoLostWakeUp
<1> QED BY <1>3, <1>4, <1>5, <1>7, <1>8, <1>9 DEF IInv, Frozen

LEMMA Lock2Step ==
  ASSUME IInv, NEW t \in Threads, Lock2(t)
  PROVE  IInv'
<1> USE DEF Lock2, Goto, Sleep
<1>1. TypeOK'
  <2>1. asleep' \in [Levels -> SUBSET Threads]
    BY DEF IInv, TypeOK, Levels
  <2>2. pc' \in [Threads -> {"out", "lock_1", "level_1", "lock_2", "level_2",
                             "lock_3", "level_3", "grown", "done"}]
    BY DEF IInv, TypeOK
  <2>3. level2_in_use' \in BOOLEAN
    BY DEF IInv, TypeOK
  <2> QED BY <2>1, <2>2, <2>3 DEF IInv, TypeOK
<1>2. pc[t] = "lock_2" /\ \A lv \in Levels : t \notin asleep[lv]
  BY DEF At
<1>3. \A u \in Threads : pc'[u] # "level_3"
  BY <1>2, ThreadsAssumption DEF IInv, TypeOK, MutexOwner
<1>4. Holders' = Holders /\ Inside2' = Inside2 /\ Inside3' = Inside3
  BY <1>2 DEF IInv, TypeOK, Holders, Inside2, Inside3
<1>5. Counts' /\ (OthersActive' <=> OthersActive)
  BY <1>4, SameCounts DEF IInv
<1>6. CASE level2_in_use
  <2>1. asleep'[1] = asleep[1] /\ asleep'[2] = asleep[2] \cup {t} /\ asleep'[3] = asleep[3]
    BY <1>6 DEF IInv, TypeOK, Levels
  <2>2. Owners2' = Owners2
    BY <1>6 DEF Owners2
  <2>3. Marks' /\ Unique'
    BY <1>4, <1>6, <2>2 DEF IInv, Marks, Unique
  <2>4. Sleepers' /\ MutexOwner'
    BY <1>2, <1>3, <1>6, <2>1, ThreadsAssumption DEF IInv, Sleepers, MutexOwner
  <2>5. NoLostWakeUp'
    BY <1>5, <1>6, <2>1 DEF IInv, NoLostWakeUp, Busy1
  <2> QED BY <1>1, <1>3, <1>5, <2>3, <2>4, <2>5 DEF IInv, Frozen
<1>7. CASE ~level2_in_use
  <2>1. Owners2 = {} /\ Owners2' = {t}
    BY <1>2, <1>7 DEF IInv, TypeOK, Marks, Owners2
  <2>2. Marks' /\ Unique'
    BY <1>4, <1>7, <2>1 DEF IInv, Marks, Unique
  <2>3. Sleepers' /\ MutexOwner'
    BY <1>2, <1>3, <1>7, ThreadsAssumption DEF IInv, TypeOK, Sleepers, MutexOwner, Levels
  <2>4. NoLostWakeUp'
    BY <1>5, <1>7 DEF IInv, NoLostWakeUp, Busy1
  <2> QED BY <1>1, <1>3, <1>5, <2>2, <2>3, <2>4 DEF IInv, Frozen
<1> QED BY <1>6, <1>7

LEMMA Unlock2Step ==
  ASSUME IInv, NEW t \in Threads, Unlock2(t)
  PROVE  IInv'
<1> USE DEF Unlock2, Goto
<1>1. /\ Holders' = Holders /\ Inside3' = Inside3
      /\ Inside2' = Inside2 \ {t} /\ t \in Inside2
      /\ Owners2' = Owners2 \ {t} /\ t \in Owners2
  BY DEF IInv, TypeOK, Holders, Inside2, Owners2, Inside3
<1>2. Owners2' = {}
  BY <1>1 DEF IInv, Unique
<1>3. asleep[3] = {}
  BY OneWriter
<1>4. /\ asleep' \in [Levels -> SUBSET Threads]
      /\ asleep'[1] = asleep[1] /\ asleep'[3] = {} /\ asleep'[2] \subseteq asleep[2]
      /\ asleep[2] # {} => \E u \in asleep[2] : u \notin asleep'[2]
  <2>1. CASE asleep[2] = {}
    BY <1>3, <2>1 DEF Signal, IInv, TypeOK
  <2>2. CASE asleep[2] # {}
    <3>1. PICK u \in asleep[2] : asleep' = [asleep EXCEPT ![2] = @ \ {u}]
      BY <2>2 DEF Signal
    <3> QED BY <1>3, <3>1 DEF IInv, TypeOK, Levels
  <2> QED BY <2>1, <2>2
<1>5. n_level2 \in Nat /\ n_level2 = Cardinality(Inside2)
  BY DEF IInv, TypeOK, Counts
<1>6. Cardinality(Inside2 \ {t}) = Cardinality(Inside2) - 1 /\ Cardinality(Inside2 \ {t}) \in Nat
  BY <1>1, Finite, OneLess, FS_CardinalityType
<1>7. n_level2 - 1 \in Nat
  BY <1>5, <1>6
<1>8. TypeOK'
  BY <1>4, <1>7 DEF IInv, TypeOK
<1>9. Counts'
  BY <1>1, <1>5, <1>6 DEF IInv, Counts
<1>10. Marks' /\ Unique'
  BY <1>1, <1>2 DEF IInv, Marks, Unique
<1>11. t \notin asleep[1] /\ t \notin asleep[2]
  BY DEF IInv, Sleepers
<1>12. Sleepers' /\ MutexOwner'
  BY <1>4, <1>11, ThreadsAssumption DEF IInv, TypeOK, Sleepers, MutexOwner, Free
<1>13. \A u \in Threads : pc'[u] # "level_3"
  BY ThreadsAssumption DEF IInv, TypeOK, MutexOwner, Free
<1>14. NoLostWakeUp'
  <2>1. \A u \in asleep'[1] : Busy1(list[u])'
    BY <1>4 DEF Busy1, IInv, NoLostWakeUp
  <2>2. ASSUME asleep'[2] # {} PROVE \E u \in Threads : At(u, "lock_2")'
    <3>1. PICK u \in asleep[2] : u \notin asleep'[2]
      BY <1>4, <2>2
    <3>2. u \in Threads /\ pc[u] = "lock_2" /\ u # t
      BY <3>1, <1>11 DEF IInv, TypeOK, Sleepers, Levels
    <3>3. u \notin asleep[1]
      BY <3>2 DEF IInv, Sleepers
    <3> QED BY <1>4, <3>1, <3>2, <3>3 DEF At, Levels, IInv, TypeOK
  <2> QED BY <1>4, <2>1, <2>2 DEF NoLostWakeUp
<1> QED BY <1>8, <1>9, <1>10, <1>12, <1>13, <1>14 DEF IInv, Frozen

LEMMA EnterLock3Step ==
  ASSUME IInv, NEW t \in Threads, EnterLock3(t)
  PROVE  IInv'
<1> USE DEF EnterLock3, Goto
<1>1. TypeOK'
  BY DEF IInv, TypeOK
<1>2. Holders' = Holders /\ Inside2' = Inside2 /\ Owners2' = Owners2 /\ t \in Inside3'
  BY DEF IInv, TypeOK, Holders, Inside2, Owners2, Inside3
<1>3. Counts' /\ (OthersActive' <=> OthersActive)
  BY <1>2, SameCounts DEF IInv
<1>4. Marks' /\ Unique'
  BY <1>2 DEF IInv, Marks, Unique
<1>5. t \notin asleep[1] /\ t \notin asleep[2] /\ t \notin asleep[3]
  BY DEF IInv, Sleepers
<1>6. Sleepers' /\ MutexOwner'
  BY <1>5, ThreadsAssumption DEF IInv, TypeOK, Sleepers, MutexOwner, Free
<1>7. \A u \in Threads : pc'[u] # "level_3"
  BY ThreadsAssumption DEF IInv, TypeOK, MutexOwner, Free
<1>8. NoLostWakeUp'
  <2>1. \A u \in asleep'[1] : Busy1(list[u])'
    BY DEF Busy1
  <2>2. \A u \in Threads : At(u, "lock_2") => At(u, "lock_2")'
    BY DEF At, IInv, TypeOK
  <2> QED BY <1>3, <2>1, <2>2 DEF IInv, NoLostWakeUp
<1> QED BY <1>1, <1>3, <1>4, <1>6, <1>7, <1>8 DEF IInv, Frozen

LEMMA Lock3Step ==
  ASSUME IInv, NEW t \in Threads, Lock3(t)
  PROVE  IInv'
<1> USE DEF Lock3, Goto, Sleep
<1>1. TypeOK'
  BY DEF IInv, TypeOK, Levels
<1>2. pc[t] = "lock_3" /\ \A lv \in Levels : t \notin asleep[lv]
  BY DEF At
<1>3. Holders' = Holders /\ Inside2' = Inside2 /\ Owners2' = Owners2 /\ Inside3' = Inside3
  BY <1>2 DEF IInv, TypeOK, Holders, Inside2, Owners2, Inside3
<1>4. Counts' /\ (OthersActive' <=> OthersActive)
  BY <1>3, SameCounts DEF IInv
<1>5. Marks' /\ Unique'
  BY <1>3 DEF IInv, Marks, Unique
<1>6. \A u \in Threads : pc[u] # "level_3"
  BY <1>2, ThreadsAssumption DEF IInv, TypeOK, MutexOwner
<1>7. CASE OthersActive
  <2>1. asleep'[1] = asleep[1] /\ asleep'[2] = asleep[2] /\ asleep'[3] = asleep[3] \cup {t}
    BY <1>7 DEF IInv, TypeOK, Levels
  <2>2. Sleepers' /\ MutexOwner' /\ Frozen'
    BY <1>2, <1>6, <1>7, <2>1, ThreadsAssumption DEF IInv, Sleepers, MutexOwner, Frozen
  <2>3. \A u \in Threads : At(u, "lock_2") => At(u, "lock_2")'
    BY <1>2, <1>7, <2>1 DEF At, Levels
  <2>4. NoLostWakeUp'
    BY <1>4, <1>7, <2>1, <2>3 DEF IInv, NoLostWakeUp, Busy1
  <2> QED BY <1>1, <1>4, <1>5, <2>2, <2>4 DEF IInv
<1>8. CASE ~OthersActive
  <2>1. Sleepers' /\ MutexOwner'
    BY <1>2, <1>6, <1>8, ThreadsAssumption DEF IInv, TypeOK, Sleepers, MutexOwner, Levels
  <2>2. Frozen'
    BY <1>4, <1>8 DEF Frozen
  <2>3. \A u \in Threads : At(u, "lock_2") => At(u, "lock_2")'
    BY <1>2, <1>8 DEF At, IInv, TypeOK
  <2>4. NoLostWakeUp'
    BY <1>4, <1>8, <2>3 DEF IInv, NoLostWakeUp, Busy1
  <2> QED BY <1>1, <1>4, <1>5, <2>1, <2>2, <2>4 DEF IInv
<1> QED BY <1>7, <1>8

LEMMA Unlock3Step ==
  ASSUME IInv, NEW t \in Threads, Unlock3(t)
  PROVE  IInv'
<1> USE DEF Unlock3, Goto, Broadcast
<1>1. TypeOK'
  BY DEF IInv, TypeOK, Levels
<1>2. Holders' = Holders /\ Inside2' = Inside2 /\ Owners2' = Owners2 /\ t \in Owners2
  BY DEF IInv, TypeOK, Holders, Inside2, Owners2
<1>3. Inside3' = {}
  BY <1>2 DEF IInv, TypeOK, Unique, Inside3, Owners2
<1>4. Counts' /\ (OthersActive' <=> OthersActive)
  BY <1>2, SameCounts DEF IInv
<1>5. Marks' /\ Unique'
  BY <1>2, <1>3 DEF IInv, Marks, Unique
<1>6. asleep'[1] = {} /\ asleep'[2] = asleep[2] /\ asleep'[3] = asleep[3] /\ asleep[3] = {}
  BY OneWriter DEF IInv, TypeOK, Levels
<1>7. \A u \in Threads : pc'[u] # "level_3"
  BY <1>3 DEF Inside3
<1>8. Sleepers' /\ MutexOwner'
  BY <1>6, <1>7, ThreadsAssumption DEF IInv, TypeOK, Sleepers, MutexOwner
<1>9. NoLostWakeUp'
  <2>1. \A u \in Threads : At(u, "lock_2") => At(u, "lock_2")'
    BY <1>6 DEF At, Levels, IInv, TypeOK
  <2> QED BY <1>6, <2>1 DEF IInv, NoLostWakeUp
<1> QED BY <1>1, <1>4, <1>5, <1>7, <1>8, <1>9 DEF IInv, Frozen

LEMMA SpuriousWakeUpStep ==
  ASSUME IInv, NEW t \in Threads, NEW lv \in Levels, SpuriousWakeUp(t, lv)
  PROVE  IInv'
<1> USE DEF SpuriousWakeUp
<1>1. TypeOK'
  BY DEF IInv, TypeOK
<1>2. Holders' = Holders /\ Inside2' = Inside2 /\ Owners2' = Owners2 /\ Inside3' = Inside3
  BY DEF Holders, Inside2, Owners2, Inside3
<1>3. Counts' /\ (OthersActive' <=> OthersActive)
  BY <1>2, SameCounts DEF IInv
<1>4. \A l \in Levels : asleep'[l] \subseteq asleep[l]
  BY DEF IInv, TypeOK
<1>5. Marks' /\ Unique'
  BY <1>2 DEF IInv, Marks, Unique
<1>6. Sleepers' /\ MutexOwner' /\ Frozen'
  BY <1>3, <1>4 DEF IInv, Sleepers, MutexOwner, Frozen, Levels
<1>7. NoLostWakeUp'
  <2>1. \A u \in asleep'[1] : Busy1(list[u])'
    BY <1>4 DEF Busy1, IInv, NoLostWakeUp, Levels
  <2>2. \A u \in Threads : At(u, "lock_2") => At(u, "lock_2")'
    BY <1>4 DEF At
  <2> QED BY <1>3, <1>4, <2>1, <2>2 DEF IInv, NoLostWakeUp, Levels
<1> QED BY <1>1, <1>3, <1>5, <1>6, <1>7 DEF IInv

-----------------------------------------------------------------------------
LEMMA NextIInv == IInv /\ [Next]_vars => IInv'
<1> SUFFICES ASSUME IInv, [Next]_vars PROVE IInv'
  OBVIOUS
<1>1. CASE UNCHANGED vars
  BY <1>1 DEF vars, IInv, TypeOK, Marks, Counts, Unique, Sleepers, MutexOwner, Frozen,
    NoLostWakeUp, OthersActive, Busy1, At, Holders, Inside2, Owners2, Inside3
<1>2. ASSUME NEW t \in Threads, NEW no \in Lists, Call(t, no) PROVE IInv'
  BY <1>2, CallStep
<1>3. ASSUME NEW t \in Threads, Acquire(t) PROVE IInv'
  BY <1>3, Lock1Step, EnterLock2Step, Lock2Step, EnterLock3Step, Lock3Step DEF Acquire
<1>4. ASSUME NEW t \in Threads, Release(t) PROVE IInv'
  BY <1>4, Unlock1Step, Unlock2Step, Unlock3Step DEF Release
<1>5. ASSUME NEW t \in Threads, NEW lv \in Levels, SpuriousWakeUp(t, lv) PROVE IInv'
  BY <1>5, SpuriousWakeUpStep
<1> QED BY <1>1, <1>2, <1>3, <1>4, <1>5 DEF Next

(* The strengthened invariant holds in every reachable state.              *)
THEOREM Invariant == Spec => []IInv
<1>1. Init => IInv
  BY InitIInv
<1>2. IInv /\ [Next]_vars => IInv'
  BY NextIInv
<1> QED BY <1>1, <1>2, PTL DEF Spec

(* Variables keep their types; n_level2 never falls below zero.            *)
THEOREM TypeCorrect == Spec => []TypeOK
<1>1. IInv => TypeOK
  BY DEF IInv
<1> QED BY <1>1, Invariant, PTL

(* Mutual exclusion at the three levels: nobody touches a list while the   *)
(* file is unmapped, however many threads and lists there are.             *)
THEOREM MutualExclusion == Spec => []Exclusion
<1>1. IInv => Exclusion
  BY IInvExclusion
<1> QED BY <1>1, Invariant, PTL

(* Signalling one sleeper at levels 2 and 3 and none of level 1 while      *)
(* lock_3 is wanted loses no wake-up.                                      *)
THEOREM WakeUpsKept == Spec => []NoLostWakeUp
<1>1. IInv => NoLostWakeUp
  BY DEF IInv
<1> QED BY <1>1, Invariant, PTL

-----------------------------------------------------------------------------
(***************************************************************************)
(* Waiting ends: the safety half of Grows and of every call.               *)
(***************************************************************************)

(* Who holds the mutex between two steps is awake.                         *)
LEMMA MutexAwake ==
  ASSUME IInv, NEW t \in Threads, mutex1 = t
  PROVE  At(t, "lock_2") \/ At(t, "lock_3") \/ pc[t] = "level_3"
<1>1. pc[t] \in {"lock_2", "lock_3", "level_3"} /\ t \notin asleep[2] /\ t \notin asleep[3]
  BY DEF IInv, MutexOwner
<1>2. pc[t] # "lock_1" => t \notin asleep[1]
  BY DEF IInv, Sleepers
<1> QED BY <1>1, <1>2 DEF At, Levels

(* A holder outside lock_2, or the owner of level 2, or a waiter.          *)
LEMMA FreeGoes ==
  ASSUME IInv, Free, NEW t \in Threads, pc[t] # "out"
  PROVE  \E u \in Threads : CanGo(u)
<1>1. \A u \in Threads : pc[u] # "level_3"
  BY ThreadsAssumption DEF IInv, MutexOwner, Free
<1>2. CASE \E u \in Threads : pc[u] \in {"level_1", "level_2", "grown", "done"}
  BY <1>2 DEF CanGo
<1>3. CASE /\ \A u \in Threads : pc[u] \notin {"level_1", "level_2", "grown", "done"}
           /\ \E u \in Threads : pc[u] = "lock_3"
  <2>1. PICK u \in Threads : pc[u] = "lock_3"
    BY <1>3
  <2>2. Holders = Inside2
    BY <1>1, <1>3 DEF Holders, Inside2, IInv, TypeOK
  <2>3. ~OthersActive
    BY <2>2, Finite DEF IInv, Counts, OthersActive
  <2>4. u \notin asleep[1] /\ u \notin asleep[2] /\ u \notin asleep[3]
    BY <2>1, <2>3 DEF IInv, Sleepers, NoLostWakeUp
  <2> QED BY <2>1, <2>3, <2>4 DEF CanGo, At, Levels, Free
<1>4. CASE /\ \A u \in Threads : pc[u] \in {"out", "lock_1", "lock_2"}
           /\ \E u \in Threads : pc[u] = "lock_2"
  <2>1. ~level2_in_use
    BY <1>4 DEF IInv, Marks, Owners2
  <2>2. PICK u \in Threads : At(u, "lock_2")
    <3>1. CASE asleep[2] # {}
      BY <2>1, <3>1 DEF IInv, NoLostWakeUp
    <3>2. CASE asleep[2] = {}
      <4>1. PICK u \in Threads : pc[u] = "lock_2"
        BY <1>4
      <4> QED BY <3>2, <4>1 DEF At, Levels, IInv, Sleepers
    <3> QED BY <3>1, <3>2
  <2> QED BY <2>1, <2>2 DEF CanGo, Free
<1>5. CASE \A u \in Threads : pc[u] \in {"out", "lock_1"}
  <2>1. Holders = {} /\ Inside3 = {}
    BY <1>5 DEF Holders, Inside3
  <2>2. ~Busy1(list[t])
    BY <2>1 DEF IInv, Marks, Busy1
  <2>3. pc[t] = "lock_1"
    BY <1>5
  <2>4. At(t, "lock_1")
    BY <2>2, <2>3 DEF At, Levels, IInv, Sleepers, NoLostWakeUp
  <2> QED BY <2>2, <2>4 DEF CanGo
<1> QED BY <1>1, <1>2, <1>3, <1>4, <1>5 DEF IInv, TypeOK

(* In no state do the threads inside the lock only wait for one another,   *)
(* at whatever levels and on whatever lists.                               *)
THEOREM NoDeadlock == Spec => []NeverStuck
<1>1. IInv => NeverStuck
  BY MutexAwake, FreeGoes DEF NeverStuck
<1> QED BY <1>1, Invariant, PTL

LEMMA OnlyLeave ==
  ASSUME IInv, [Next]_vars, NEW t \in Threads, pc[t] = "lock_3", pc'[t] = "lock_3"
  PROVE  (Holders \ Inside2)' \subseteq Holders \ Inside2
<1>1. level3_in_use /\ t \in Owners2
  BY DEF IInv, Marks, Inside3, Owners2
<1>2. \A u \in Threads : pc[u] \in {"level_2", "grown", "level_3", "lock_3"} => u = t
  BY <1>1 DEF IInv, Unique, Owners2
<1>3. pc \in [Threads -> {"out", "lock_1", "level_1", "lock_2", "level_2",
                         "lock_3", "level_3", "grown", "done"}]
  BY DEF IInv, TypeOK
<1> DEFINE Loose == {u \in Threads : pc[u] \in {"level_1", "done"}}
<1>4. Holders \ Inside2 = Loose
  BY <1>3 DEF Holders, Inside2
<1>5. (Holders \ Inside2)' = Loose'
  BY NextIInv DEF Holders, Inside2, IInv, TypeOK
<1>6. SUFFICES ASSUME NEW u \in Threads, pc'[u] \in {"level_1", "done"}
               PROVE  pc[u] \in {"level_1", "done"}
  BY <1>4, <1>5
<1>7. CASE UNCHANGED vars
  BY <1>6, <1>7 DEF vars
<1>8. ASSUME NEW v \in Threads, \/ \E no \in Lists : Call(v, no)
                                \/ Lock1(v) \/ EnterLock2(v) \/ Lock2(v) \/ EnterLock3(v)
                                \/ Lock3(v) \/ Unlock1(v) \/ Unlock3(v)
      PROVE  pc[u] \in {"level_1", "done"}
  BY <1>1, <1>3, <1>6, <1>8
     DEF Call, Lock1, EnterLock2, Lock2, EnterLock3, Lock3, Unlock1, Unlock3, Goto, Busy1
<1>9. ASSUME NEW v \in Threads, Unlock2(v) PROVE FALSE
  BY <1>2, <1>9, <1>3 DEF Unlock2
<1>10. ASSUME NEW v \in Threads, NEW lv \in Levels, SpuriousWakeUp(v, lv)
      PROVE  pc[u] \in {"level_1", "done"}
  BY <1>6, <1>10 DEF SpuriousWakeUp
<1> QED BY <1>7, <1>8, <1>9, <1>10 DEF Next, Acquire, Release

(* A thread that waits for the file waits for fewer and fewer others.      *)
THEOREM WaitShrinks == Spec => OthersOnlyLeave
<1>1. IInv /\ [Next]_vars =>
        [\A t \in Threads : pc[t] = "lock_3" /\ pc'[t] = "lock_3" =>
           (Holders \ Inside2)' \subseteq Holders \ Inside2]_vars
  BY OnlyLeave
<1> QED BY <1>1, Invariant, PTL DEF Spec, OthersOnlyLeave

-----------------------------------------------------------------------------
(***************************************************************************)
(* The lock implements LevelLock.                                          *)
(***************************************************************************)
LEMMA MapsInit == Init => Promised!LockInit
BY DEF Init, Promised!LockInit, Held, InFile, Stopped, Holders, Inside2, Owners2

(* What LevelLock sees of the state.                                       *)
Seen == <<Held, Owners2, InFile, Stopped>>

(* The guard of lock_1 is the one LevelLock asks for.                      *)
LEMMA MapsLock1 ==
  ASSUME IInv, NEW t \in Threads, Lock1(t)
  PROVE  Promised!TakeList(t, list[t]) \/ UNCHANGED Seen
<1>1. CASE Busy1(list[t])
  BY <1>1 DEF Lock1, Seen, Held, InFile, Stopped, Holders, Inside2, Owners2
<1>2. CASE ~Busy1(list[t])
  <2>1. InFile = {}
    BY <1>2 DEF Busy1, IInv, Marks, Inside3, InFile
  <2>2. \A held \in Held : held[1] # t /\ held[2] # list[t]
    BY <1>2 DEF Busy1, IInv, Marks, Held, Holders, Lock1, At
  <2>3. /\ Holders' = Holders \cup {t} /\ list' = list
        /\ UNCHANGED <<Owners2, InFile, Stopped>>
    BY <1>2 DEF Lock1, At, Goto, IInv, TypeOK, InFile, Stopped, Holders, Inside2, Owners2
  <2>4. Held' = Held \cup {<<t, list[t]>>}
    BY <2>3 DEF Held
  <2> QED BY <2>1, <2>2, <2>3, <2>4 DEF Promised!TakeList
<1> QED BY <1>1, <1>2

LEMMA MapsUnlock1 ==
  ASSUME IInv, NEW t \in Threads, Unlock1(t)
  PROVE  Promised!GiveList(t, list[t])
<1>1. t \in Holders /\ t \notin Stopped \cup Owners2
  BY DEF Unlock1, Holders, Stopped, Inside2, Owners2
<1>2. Holders' = Holders \ {t} /\ list' = list /\ UNCHANGED <<Owners2, InFile, Stopped>>
  BY DEF Unlock1, Goto, IInv, TypeOK, InFile, Stopped, Holders, Inside2, Owners2
<1>3. Held' = Held \ {<<t, list[t]>>}
  BY <1>2 DEF Held
<1> QED BY <1>1, <1>2, <1>3 DEF Promised!GiveList, Promised!Active, Held

LEMMA MapsEnterLock2 ==
  ASSUME IInv, NEW t \in Threads, EnterLock2(t)
  PROVE  Promised!StopFor2(t, list[t])
<1>1. t \in Holders /\ t \notin Stopped \cup Owners2
  BY DEF EnterLock2, Holders, Stopped, Inside2, Owners2
<1>2. /\ Holders' = Holders /\ list' = list /\ Stopped' = Stopped \cup {t}
      /\ UNCHANGED <<Owners2, InFile>>
  BY DEF EnterLock2, Goto, IInv, TypeOK, InFile, Stopped, Holders, Inside2, Owners2
<1> QED BY <1>1, <1>2 DEF Promised!StopFor2, Promised!Active, Held

LEMMA MapsLock2 ==
  ASSUME IInv, NEW t \in Threads, Lock2(t)
  PROVE  Promised!TakeSlots(t) \/ UNCHANGED Seen
<1>1. CASE level2_in_use
  BY <1>1 DEF Lock2, Seen, Held, InFile, Stopped, Holders, Inside2, Owners2
<1>2. CASE ~level2_in_use
  <2>1. Owners2 = {} /\ t \in Stopped
    BY <1>2 DEF IInv, Marks, Lock2, At, Stopped, Inside2, Owners2
  <2>2. /\ Holders' = Holders /\ list' = list /\ Owners2' = Owners2 \cup {t}
        /\ Stopped' = Stopped \ {t} /\ InFile' = InFile
    BY <1>2 DEF Lock2, At, Goto, IInv, TypeOK, InFile, Stopped, Holders, Inside2, Owners2
  <2> QED BY <2>1, <2>2 DEF Promised!TakeSlots, Held
<1> QED BY <1>1, <1>2

LEMMA MapsUnlock2 ==
  ASSUME IInv, NEW t \in Threads, Unlock2(t)
  PROVE  Promised!GiveSlots(t)
<1>1. t \in Owners2 /\ InFile = {}
  BY ThreadsAssumption DEF Unlock2, Free, Owners2, InFile, IInv, MutexOwner
<1>2. Owners2 = {t}
  BY <1>1 DEF IInv, Unique
<1>3. /\ Holders' = Holders /\ list' = list /\ Owners2' = Owners2 \ {t}
      /\ UNCHANGED <<InFile, Stopped>>
  BY DEF Unlock2, Goto, IInv, TypeOK, InFile, Stopped, Holders, Inside2, Owners2
<1> QED BY <1>1, <1>2, <1>3 DEF Promised!GiveSlots, Held

(* lock_3 returns when all other holders are stopped.                      *)
LEMMA MapsLock3 ==
  ASSUME IInv, NEW t \in Threads, Lock3(t)
  PROVE  Promised!TakeFile(t) \/ UNCHANGED Seen
<1>1. CASE OthersActive
  BY <1>1 DEF Lock3, Seen, Held, InFile, Stopped, Holders, Inside2, Owners2
<1>2. CASE ~OthersActive
  <2>1. t \in Owners2 /\ InFile = {}
    BY ThreadsAssumption DEF Lock3, At, Owners2, InFile, IInv, MutexOwner
  <2>2. \A u \in Holders : u = t \/ u \in Stopped
    BY <1>2, <2>1, AllBlocked DEF IInv, Unique, Stopped
  <2>3. \A held \in Held : held[1] = t \/ held[1] \in Stopped
    BY <2>2 DEF Held
  <2>4. /\ Holders' = Holders /\ list' = list /\ InFile' = InFile \cup {t}
        /\ UNCHANGED <<Owners2, Stopped>>
    BY <1>2 DEF Lock3, At, Goto, IInv, TypeOK, InFile, Stopped, Holders, Inside2, Owners2
  <2> QED BY <2>1, <2>3, <2>4 DEF Promised!TakeFile, Held
<1> QED BY <1>1, <1>2

LEMMA MapsUnlock3 ==
  ASSUME IInv, NEW t \in Threads, Unlock3(t)
  PROVE  Promised!GiveFile(t)
<1>1. t \in InFile /\ \A u \in InFile : u = t
  BY DEF Unlock3, InFile, IInv, MutexOwner
<1>2. /\ Holders' = Holders /\ list' = list /\ InFile' = InFile \ {t}
      /\ UNCHANGED <<Owners2, Stopped>>
  BY DEF Unlock3, Goto, IInv, TypeOK, InFile, Stopped, Holders, Inside2, Owners2
<1> QED BY <1>1, <1>2 DEF Promised!GiveFile, Held

(* The other steps are not seen.                                           *)
LEMMA MapsOther ==
  ASSUME IInv, NEW t \in Threads,
         \/ \E no \in Lists : Call(t, no)
         \/ EnterLock3(t)
         \/ \E lv \in Levels : SpuriousWakeUp(t, lv)
  PROVE  UNCHANGED Seen
<1>1. UNCHANGED <<Holders, Inside2, Owners2, InFile>> /\ \A u \in Holders : list'[u] = list[u]
  BY DEF Call, EnterLock3, SpuriousWakeUp, Goto, IInv, TypeOK, InFile, Holders, Inside2, Owners2
<1> QED BY <1>1 DEF Seen, Held, Stopped

LEMMA MapsNext == IInv /\ [Next]_vars => [Promised!LockNext]_Seen
<1> SUFFICES ASSUME IInv, [Next]_vars PROVE Promised!LockNext \/ UNCHANGED Seen
  OBVIOUS
<1>1. CASE UNCHANGED vars
  BY <1>1 DEF vars, Seen, Held, InFile, Stopped, Holders, Inside2, Owners2
<1>2. ASSUME NEW t \in Threads, list[t] \in Lists,
             \/ Lock1(t) \/ Unlock1(t) \/ EnterLock2(t) \/ Lock2(t) \/ Unlock2(t)
             \/ Lock3(t) \/ Unlock3(t)
      PROVE  Promised!LockNext \/ UNCHANGED Seen
  BY <1>2, MapsLock1, MapsUnlock1, MapsEnterLock2, MapsLock2, MapsUnlock2, MapsLock3, MapsUnlock3
     DEF Promised!LockNext
<1>3. \A t \in Threads : list[t] \in Lists
  BY DEF IInv, TypeOK
<1> QED BY <1>1, <1>2, <1>3, MapsOther DEF Next, Acquire, Release

(* The mutex, the counters and the three condition variables implement the *)
(* lock that LevelLock promises: callers can reason with that one.         *)
THEOREM LockRefines == Spec => LockImplements
<1>1. IInv /\ [Next]_vars => [Promised!LockNext]_Promised!locks
  BY MapsNext DEF Seen, Promised!locks
<1> QED BY <1>1, MapsInit, Invariant, PTL DEF Spec, LockImplements, Promised!LockSpec

-----------------------------------------------------------------------------
(***************************************************************************)
(* The inductive invariant of Prefetch, next to that of the lock.          *)
(***************************************************************************)
Types ==
  /\ mutex \in Callers \cup {NoCaller}
  /\ cpc \in [Callers -> {"out", "join", "fill"}]
  /\ list_nos \in [Callers -> Seq(Lists)] /\ filled \in Nat
  /\ list_ids \in Seq(Lists) /\ cur_list \in Nat
  /\ taken \in [Fetchers -> Nat] /\ read \subseteq Nat
  /\ threads \subseteq Fetchers /\ exited \subseteq threads
  /\ destroyed \in BOOLEAN

(* One caller at a time, and none once all is destroyed.                   *)
OneCaller ==
  /\ \A c \in Callers : cpc[c] # "out" <=> mutex = c
  /\ destroyed => mutex = NoCaller /\ AllExited

(* A thread that has not been created, or has returned, is inside no lock. *)
Outside == \A t \in Fetchers : ~Running(t) => pc[t] = "out"

(* While a call looks at its list numbers there are no threads.            *)
Alone ==
  \A c \in Callers :
    /\ cpc[c] = "join" => list_ids = <<>> /\ filled = 0
    /\ cpc[c] = "fill" =>
         /\ Len(list_ids) <= filled /\ filled <= Len(list_nos[c])
         /\ filled < Len(list_nos[c]) => threads = {}

(* What has been handed out has been read or is being read.                *)
HandedOut ==
  read \cup {taken[t] : t \in {u \in Fetchers : pc[u] # "out"}} = 1 .. cur_list

(* No more is handed out than there is, and who returns leaves nothing.    *)
Consumed ==
  /\ (\A c \in Callers : cpc[c] # "join") => cur_list <= Len(list_ids)
  /\ exited # {} => Len(list_ids) <= cur_list
  /\ Fetchers # {} /\ mutex = NoCaller /\ threads = {} => list_ids = <<>>

PfInv ==
  /\ IInv /\ Types /\ OneCaller /\ Outside /\ Alone /\ HandedOut /\ Consumed

-----------------------------------------------------------------------------
(* There is a thread to create as long as a call has list numbers.         *)
LEMMA Nthread == prefetch_nthread \in Nat /\ (Fetchers # {} => prefetch_nthread > 0)
<1>1. IsFiniteSet(Fetchers)
  BY FS_Subset, ThreadsAssumption, PrefetchAssumption
<1> QED BY <1>1, FS_CardinalityType, FS_EmptySet DEF prefetch_nthread

LEMMA NextList ==
  ASSUME Types, cur_list < Len(list_ids)
  PROVE  list_ids[cur_list + 1] \in Lists /\ Len(list_ids) \in Nat
<1>1. Len(list_ids) \in Nat /\ cur_list + 1 \in 1 .. Len(list_ids)
  BY DEF Types
<1> QED BY <1>1 DEF Types

(* The threads use the lock as LockLevels lets its callers.                *)
LEMMA LockSteps == ASSUME Types, [PfNext]_all PROVE [Next]_vars
<1>1. CASE UNCHANGED all
  BY <1>1 DEF all
<1>2. ASSUME NEW c \in Callers,
             \/ \E nos \in Arguments : PrefetchLists(c, nos)
             \/ Join(c) \/ Fill(c) \/ Return(c)
             \/ \E t \in Fetchers : Create(c, t)
      PROVE  UNCHANGED vars
  BY <1>2 DEF PrefetchLists, Join, Fill, Return, Create
<1>3. CASE Destroy
  BY <1>3 DEF Destroy
<1>4. ASSUME NEW t \in Fetchers, GetNextList(t) PROVE [Next]_vars
  <2>1. CASE UNCHANGED vars
    BY <2>1
  <2>2. CASE cur_list < Len(list_ids) /\ Call(t, list_ids[cur_list + 1])
    <3>1. PICK no \in Lists : Call(t, no)
      BY <2>2, NextList
    <3> QED BY <3>1, PrefetchAssumption DEF Next
  <2> QED BY <1>4, <2>1, <2>2 DEF GetNextList
<1>5. ASSUME NEW t \in Fetchers, LockList(t) PROVE [Next]_vars
  BY <1>5, PrefetchAssumption DEF LockList, Next, Acquire
<1>6. ASSUME NEW t \in Fetchers, UnlockList(t) PROVE [Next]_vars
  BY <1>6, PrefetchAssumption DEF UnlockList, Next, Release
<1>7. ASSUME NEW t \in Writers, Write(t) PROVE [Next]_vars
  BY <1>7 DEF Write, Writers, Next
<1>8. ASSUME NEW t \in Threads, WakeUp(t) PROVE [Next]_vars
  BY <1>8 DEF WakeUp, Next
<1>9. CASE Idle /\ UNCHANGED all
  BY <1>1, <1>9
<1> QED BY <1>1, <1>2, <1>3, <1>4, <1>5, <1>6, <1>7, <1>8, <1>9 DEF PfNext

(* The invariant holds at first.                                           *)
LEMMA PfInitially == ASSUME PfInit PROVE PfInv
<1>1. IInv
  BY InitIInv DEF PfInit
<1>2. {u \in Fetchers : pc[u] # "out"} = {}
  BY PrefetchAssumption DEF PfInit, Init
<1>3. 1 .. 0 = {} /\ <<>> \in Seq(Lists)
  OBVIOUS
<1>4. Types
  BY <1>3 DEF PfInit, Types
<1>5. OneCaller
  BY PrefetchAssumption DEF PfInit, OneCaller, AllExited
<1>6. Outside /\ Alone
  BY PrefetchAssumption DEF PfInit, Init, Outside, Alone
<1>7. HandedOut
  BY <1>2, <1>3 DEF PfInit, HandedOut
<1>8. Consumed
  BY DEF PfInit, Consumed
<1> QED BY <1>1, <1>4, <1>5, <1>6, <1>7, <1>8 DEF PfInv

(* Nobody who has returned is inside a lock, so all is read.               *)
LEMMA AtRest ==
  ASSUME PfInv, AllExited
  PROVE  (\A t \in Fetchers : pc[t] = "out") /\ read = 1 .. cur_list
<1>1. \A t \in Fetchers : pc[t] = "out"
  BY DEF PfInv, Outside, AllExited, Running
<1>2. {u \in Fetchers : pc[u] # "out"} = {}
  BY <1>1
<1> QED BY <1>1, <1>2 DEF PfInv, HandedOut

(* A caller inside is the only one, before the destructor.                 *)
LEMMA Inside1 ==
  ASSUME PfInv, NEW c \in Callers, cpc[c] # "out"
  PROVE  /\ mutex = c /\ mutex # NoCaller /\ ~destroyed
         /\ \A b \in Callers : b # c => cpc[b] = "out"
BY PrefetchAssumption DEF PfInv, OneCaller

-----------------------------------------------------------------------------
(* A call takes the mutex and empties list_ids.                            *)
LEMMA PrefetchListsKeeps ==
  ASSUME PfInv, NEW c \in Callers, NEW nos \in Arguments, PrefetchLists(c, nos)
  PROVE  Types' /\ OneCaller' /\ Outside' /\ Alone' /\ HandedOut' /\ Consumed'
<1>1. /\ cpc[c] = "out" /\ ~destroyed /\ mutex = NoCaller /\ mutex' = c
      /\ list_nos' = [list_nos EXCEPT ![c] = nos] /\ filled' = 0 /\ list_ids' = <<>>
      /\ cpc' = [cpc EXCEPT ![c] = "join"]
      /\ UNCHANGED <<pc, cur_list, taken, read, threads, exited, destroyed>>
  BY DEF PrefetchLists, GotoC, vars
<1>2. \A b \in Callers : cpc[b] = "out"
  BY <1>1, PrefetchAssumption DEF PfInv, OneCaller
<1>3. nos \in Seq(Lists) /\ <<>> \in Seq(Lists) /\ Len(<<>>) = 0
  BY PrefetchAssumption
<1>4. Types'
  BY <1>1, <1>3 DEF PfInv, Types
<1>5. cpc' \in [Callers -> {"out", "join", "fill"}] /\ cpc'[c] = "join"
      /\ \A b \in Callers : b # c => cpc'[b] = "out"
  BY <1>1, <1>2, <1>4 DEF PfInv, Types
<1>6. OneCaller' /\ Alone'
  BY <1>1, <1>5 DEF OneCaller, Alone
<1>7. Outside' /\ HandedOut'
  BY <1>1 DEF PfInv, Outside, Running, HandedOut
<1>8. Consumed'
  BY <1>1, <1>3, <1>5, PrefetchAssumption DEF PfInv, Types, Consumed
<1> QED BY <1>4, <1>6, <1>7, <1>8

(* It goes on when the threads of the call before have returned.           *)
LEMMA JoinKeeps ==
  ASSUME PfInv, NEW c \in Callers, Join(c)
  PROVE  Types' /\ OneCaller' /\ Outside' /\ Alone' /\ HandedOut' /\ Consumed'
<1>1. /\ cpc[c] = "join" /\ AllExited /\ threads' = {} /\ exited' = {}
      /\ cur_list' = 0 /\ read' = {}
      /\ cpc' = [cpc EXCEPT ![c] = "fill"]
      /\ UNCHANGED <<pc, mutex, list_nos, filled, list_ids, taken, destroyed>>
  BY DEF Join, GotoC, vars
<1>2. mutex = c /\ mutex # NoCaller /\ ~destroyed /\ \A b \in Callers : b # c => cpc[b] = "out"
  BY <1>1, Inside1
<1>3. Types'
  BY <1>1 DEF PfInv, Types
<1>4. cpc'[c] = "fill" /\ \A b \in Callers : b # c => cpc'[b] = "out"
  BY <1>1, <1>2 DEF PfInv, Types
<1>5. list_ids = <<>> /\ filled = 0 /\ Len(list_ids) = 0 /\ Len(list_nos[c]) \in Nat
  BY <1>1 DEF PfInv, Alone, Types
<1>6. OneCaller' /\ Alone'
  BY <1>1, <1>2, <1>4, <1>5 DEF OneCaller, Alone
<1>7. \A t \in Fetchers : pc'[t] = "out"
  BY <1>1, AtRest
<1>8. Outside'
  BY <1>7 DEF Outside
<1>9. HandedOut'
  <2>1. {u \in Fetchers : pc'[u] # "out"} = {}
    BY <1>7
  <2>2. 1 .. 0 = {}
    OBVIOUS
  <2> QED BY <1>1, <2>1, <2>2 DEF HandedOut
<1>10. Consumed'
  BY <1>1, <1>2, <1>5 DEF Consumed
<1> QED BY <1>3, <1>6, <1>8, <1>9, <1>10

(* Nobody sees list_ids grow.                                              *)
LEMMA FillKeeps ==
  ASSUME PfInv, NEW c \in Callers, Fill(c)
  PROVE  Types' /\ OneCaller' /\ Outside' /\ Alone' /\ HandedOut' /\ Consumed'
<1>1. /\ cpc[c] = "fill" /\ filled < Len(list_nos[c]) /\ filled' = filled + 1
      /\ list_ids' \in {list_ids, Append(list_ids, list_nos[c][filled + 1])}
      /\ UNCHANGED <<pc, mutex, cpc, list_nos, cur_list, taken, read, threads, exited,
                     destroyed>>
  BY DEF Fill, vars
<1>2. mutex = c /\ mutex # NoCaller /\ ~destroyed /\ \A b \in Callers : b # c => cpc[b] = "out"
  BY <1>1, Inside1
<1>3. /\ list_nos[c] \in Seq(Lists) /\ Len(list_nos[c]) \in Nat
      /\ list_nos[c][filled + 1] \in Lists /\ list_ids \in Seq(Lists)
      /\ filled \in Nat /\ Len(list_ids) \in Nat
  BY <1>1 DEF PfInv, Types
<1>4. /\ list_ids' \in Seq(Lists) /\ Len(list_ids') \in Nat
      /\ Len(list_ids) <= Len(list_ids') /\ Len(list_ids') <= Len(list_ids) + 1
  BY <1>1, <1>3
<1>5. threads = {} /\ exited = {} /\ Len(list_ids) <= filled
  BY <1>1 DEF PfInv, Alone, Types
<1>6. Types'
  BY <1>1, <1>4 DEF PfInv, Types
<1>7. OneCaller' /\ Outside' /\ HandedOut'
  BY <1>1 DEF PfInv, OneCaller, AllExited, Outside, Running, HandedOut
<1>8. Alone'
  BY <1>1, <1>2, <1>3, <1>4, <1>5 DEF Alone
<1>9. Consumed'
  <2>1. cur_list <= Len(list_ids) /\ cur_list \in Nat
    BY <1>1, <1>2 DEF PfInv, Consumed, Types
  <2> QED BY <1>1, <1>2, <1>3, <1>4, <1>5, <2>1 DEF Consumed
<1> QED BY <1>6, <1>7, <1>8, <1>9

(* A thread is created outside all locks.                                  *)
LEMMA CreateKeeps ==
  ASSUME PfInv, NEW c \in Callers, NEW t \in Fetchers, Create(c, t)
  PROVE  Types' /\ OneCaller' /\ Outside' /\ Alone' /\ HandedOut' /\ Consumed'
<1>1. /\ cpc[c] = "fill" /\ filled = Len(list_nos[c])
      /\ t \notin threads /\ threads' = threads \cup {t}
      /\ UNCHANGED <<pc, mutex, cpc, list_nos, filled, destroyed,
                     list_ids, cur_list, taken, read, exited>>
  BY DEF Create, vars, caller, tasks
<1>2. mutex = c /\ mutex # NoCaller /\ ~destroyed /\ \A b \in Callers : b # c => cpc[b] = "out"
  BY <1>1, Inside1
<1>3. Types'
  BY <1>1 DEF PfInv, Types
<1>4. OneCaller' /\ Outside' /\ HandedOut'
  BY <1>1, <1>2 DEF PfInv, OneCaller, Outside, Running, HandedOut
<1>5. Alone'
  <2>1. \A b \in Callers : cpc[b] = "fill" => b = c
    BY <1>2
  <2>2. filled \in Nat
    BY DEF PfInv, Types
  <2> QED BY <1>1, <2>1, <2>2 DEF PfInv, Alone
<1>6. Consumed'
  BY <1>1, <1>2 DEF PfInv, Consumed
<1> QED BY <1>3, <1>4, <1>5, <1>6

(* If a call returns without threads it kept no list number.               *)
LEMMA ReturnKeeps ==
  ASSUME PfInv, NEW c \in Callers, Return(c)
  PROVE  Types' /\ OneCaller' /\ Outside' /\ Alone' /\ HandedOut' /\ Consumed'
<1>1. /\ cpc[c] = "fill" /\ filled = Len(list_nos[c]) /\ ~Missing(c)
      /\ mutex' = NoCaller /\ cpc' = [cpc EXCEPT ![c] = "out"]
      /\ UNCHANGED <<pc, list_nos, filled, list_ids, cur_list, taken, read, threads, exited,
                     destroyed>>
  BY DEF Return, GotoC, vars, tasks
<1>2. mutex = c /\ mutex # NoCaller /\ ~destroyed /\ \A b \in Callers : b # c => cpc[b] = "out"
  BY <1>1, Inside1
<1>3. \A b \in Callers : cpc'[b] = "out"
  BY <1>1, <1>2 DEF PfInv, Types
<1>4. Types'
  BY <1>1 DEF PfInv, Types
<1>5. OneCaller' /\ Outside' /\ HandedOut' /\ Alone'
  BY <1>1, <1>2, <1>3, PrefetchAssumption
  DEF PfInv, OneCaller, Outside, Running, HandedOut, Alone
<1>6. ASSUME Fetchers # {}, threads = {} PROVE list_ids = <<>>
  <2>1. Cardinality(threads) = 0
    BY <1>6, FS_EmptySet
  <2>2. Len(list_nos[c]) \in Nat /\ Len(list_ids) \in Nat /\ Len(list_ids) <= Len(list_nos[c])
    BY <1>1 DEF PfInv, Types, Alone
  <2>3. Len(list_ids) = 0
    BY <1>1, <1>6, <2>1, <2>2, Nthread DEF Missing
  <2> QED BY <2>3 DEF PfInv, Types
<1>7. Consumed'
  <2>1. \A b \in Callers : cpc[b] # "join"
    BY <1>1, <1>2
  <2> QED BY <1>1, <1>6, <2>1 DEF PfInv, Consumed
<1> QED BY <1>4, <1>5, <1>7

(* The destructor finds all threads returned.                              *)
LEMMA DestroyKeeps ==
  ASSUME PfInv, Destroy
  PROVE  Types' /\ OneCaller' /\ Outside' /\ Alone' /\ HandedOut' /\ Consumed'
<1>1. /\ mutex = NoCaller /\ AllExited /\ destroyed' = TRUE
      /\ UNCHANGED <<pc, mutex, cpc, list_nos, filled, list_ids, cur_list, taken, read,
                     threads, exited>>
  BY DEF Destroy, vars, tasks
<1> QED BY <1>1 DEF PfInv, Types, OneCaller, AllExited, Outside, Running, Alone, HandedOut,
                    Consumed

-----------------------------------------------------------------------------
(* one_list takes the next list, or finds none and returns.                *)
LEMMA GetNextListKeeps ==
  ASSUME PfInv, NEW t \in Fetchers, GetNextList(t)
  PROVE  Types' /\ OneCaller' /\ Outside' /\ Alone' /\ HandedOut' /\ Consumed'
<1>1. /\ Running(t) /\ pc[t] = "out" /\ t \in threads /\ t \notin exited
      /\ UNCHANGED <<mutex, cpc, list_nos, filled, destroyed, list_ids, read, threads>>
  BY DEF GetNextList, Running, caller
<1>2. ~destroyed
  BY <1>1 DEF PfInv, OneCaller, AllExited
<1>3. Len(list_ids) \in Nat /\ cur_list \in Nat
  BY DEF PfInv, Types
<1>4. CASE cur_list < Len(list_ids)
  <2>1. /\ cur_list' = cur_list + 1 /\ exited' = exited
        /\ taken' = [taken EXCEPT ![t] = cur_list + 1]
        /\ pc' = [pc EXCEPT ![t] = "lock_1"]
    BY <1>4 DEF GetNextList, Call, Goto
  <2>2. pc'[t] = "lock_1" /\ \A u \in Fetchers : u # t => pc'[u] = pc[u]
    BY <2>1, PrefetchAssumption DEF PfInv, IInv, TypeOK
  <2>3. Types'
    BY <1>1, <1>3, <2>1 DEF PfInv, Types
  <2>4. OneCaller' /\ Outside' /\ Alone'
    BY <1>1, <1>2, <2>1, <2>2 DEF PfInv, OneCaller, Outside, Running, Alone
  <2>5. HandedOut'
    <3>1. {u \in Fetchers : pc'[u] # "out"} = {u \in Fetchers : pc[u] # "out"} \cup {t}
      BY <2>2
    <3>2. /\ taken'[t] = cur_list + 1
          /\ \A u \in {w \in Fetchers : pc[w] # "out"} : taken'[u] = taken[u]
      BY <1>1, <2>1 DEF PfInv, Types
    <3>3. {taken'[u] : u \in {w \in Fetchers : pc'[w] # "out"}}
            = {taken[u] : u \in {w \in Fetchers : pc[w] # "out"}} \cup {cur_list + 1}
      BY <3>1, <3>2
    <3>4. 1 .. cur_list + 1 = (1 .. cur_list) \cup {cur_list + 1}
      BY <1>3
    <3> QED BY <1>1, <2>1, <3>3, <3>4 DEF PfInv, HandedOut
  <2>6. Consumed'
    <3>1. exited = {}
      BY <1>3, <1>4 DEF PfInv, Consumed
    <3> QED BY <1>1, <1>3, <1>4, <2>1, <3>1 DEF Consumed
  <2> QED BY <2>3, <2>4, <2>5, <2>6
<1>5. CASE ~(cur_list < Len(list_ids))
  <2>1. exited' = exited \cup {t} /\ UNCHANGED <<pc, cur_list, taken>>
    BY <1>5 DEF GetNextList, vars
  <2> QED BY <1>1, <1>2, <1>3, <1>5, <2>1
          DEF PfInv, Types, OneCaller, Outside, Running, Alone, HandedOut, Consumed
<1> QED BY <1>4, <1>5

(* lock_1 returns or sleeps.                                               *)
LEMMA LockListKeeps ==
  ASSUME PfInv, NEW t \in Fetchers, LockList(t)
  PROVE  Types' /\ OneCaller' /\ Outside' /\ Alone' /\ HandedOut' /\ Consumed'
<1>1. /\ pc[t] = "lock_1"
      /\ UNCHANGED <<mutex, cpc, list_nos, filled, destroyed, list_ids, cur_list, taken,
                     read, threads, exited>>
      /\ pc' = pc \/ pc' = [pc EXCEPT ![t] = "level_1"]
  BY DEF LockList, Lock1, At, Goto, caller, tasks
<1>2. Running(t)
  BY <1>1 DEF PfInv, Outside
<1>3. pc'[t] # "out" /\ \A u \in Fetchers : u # t => pc'[u] = pc[u]
  BY <1>1, PrefetchAssumption DEF PfInv, IInv, TypeOK
<1>4. {u \in Fetchers : pc'[u] # "out"} = {u \in Fetchers : pc[u] # "out"}
  BY <1>1, <1>3
<1>5. HandedOut'
  BY <1>1, <1>4 DEF PfInv, HandedOut
<1>6. Outside'
  BY <1>1, <1>2, <1>3 DEF PfInv, Outside, Running
<1> QED BY <1>1, <1>5, <1>6 DEF PfInv, Types, OneCaller, AllExited, Alone, Consumed

(* unlock_1: the list has been read.                                       *)
LEMMA UnlockListKeeps ==
  ASSUME PfInv, NEW t \in Fetchers, UnlockList(t)
  PROVE  Types' /\ OneCaller' /\ Outside' /\ Alone' /\ HandedOut' /\ Consumed'
<1>1. /\ pc[t] # "out" /\ pc' = [pc EXCEPT ![t] = "out"]
      /\ read' = read \cup {taken[t]}
      /\ UNCHANGED <<mutex, cpc, list_nos, filled, destroyed, list_ids, cur_list, taken,
                     threads, exited>>
  BY DEF UnlockList, Unlock1, Goto, caller
<1>2. pc'[t] = "out" /\ \A u \in Fetchers : u # t => pc'[u] = pc[u]
  BY <1>1, PrefetchAssumption DEF PfInv, IInv, TypeOK
<1>3. Types'
  BY <1>1 DEF PfInv, Types
<1>4. {u \in Fetchers : pc[u] # "out"} = {u \in Fetchers : pc'[u] # "out"} \cup {t}
  BY <1>1, <1>2
<1>5. {taken[u] : u \in {w \in Fetchers : pc[w] # "out"}}
        = {taken[u] : u \in {w \in Fetchers : pc'[w] # "out"}} \cup {taken[t]}
  BY <1>4
<1>6. HandedOut'
  BY <1>1, <1>5 DEF PfInv, HandedOut
<1>7. Outside'
  BY <1>1, <1>2 DEF PfInv, Outside, Running
<1> QED BY <1>1, <1>3, <1>6, <1>7 DEF PfInv, OneCaller, AllExited, Alone, Consumed

(* Writers and spurious wake-ups leave the threads where they are.         *)
LEMMA OthersStay ==
  ASSUME PfInv, (\E t \in Writers : Write(t)) \/ (\E t \in Threads : WakeUp(t))
                \/ UNCHANGED all
  PROVE  \A u \in Fetchers : pc'[u] = pc[u]
<1>1. ASSUME NEW t \in Writers, Write(t) PROVE \A u \in Fetchers : pc'[u] = pc[u]
  <2>1. pc' = pc \/ \E loc : pc' = [pc EXCEPT ![t] = loc]
    BY <1>1 DEF Write, Call, Acquire, Release, Lock1, Lock2, Lock3, EnterLock2, EnterLock3,
                Unlock1, Unlock2, Unlock3, Goto
  <2>2. \A u \in Fetchers : u # t
    BY DEF Writers
  <2> QED BY <2>1, <2>2, PrefetchAssumption DEF PfInv, IInv, TypeOK
<1>2. ASSUME NEW t \in Threads, WakeUp(t) PROVE pc' = pc
  BY <1>2 DEF WakeUp, SpuriousWakeUp
<1>3. CASE UNCHANGED all
  BY <1>3 DEF all, vars
<1> QED BY <1>1, <1>2, <1>3

(* What writers do, and who wakes up, does not concern them.               *)
LEMMA OthersKeep ==
  ASSUME PfInv, (\E t \in Writers : Write(t)) \/ (\E t \in Threads : WakeUp(t))
                \/ UNCHANGED all
  PROVE  Types' /\ OneCaller' /\ Outside' /\ Alone' /\ HandedOut' /\ Consumed'
<1>1. UNCHANGED <<mutex, cpc, list_nos, filled, destroyed, list_ids, cur_list, taken,
                  read, threads, exited>>
  BY DEF Write, WakeUp, caller, tasks, all
<1>2. \A u \in Fetchers : pc'[u] = pc[u]
  BY OthersStay
<1>3. {u \in Fetchers : pc'[u] # "out"} = {u \in Fetchers : pc[u] # "out"}
  BY <1>2
<1>4. HandedOut'
  BY <1>1, <1>3 DEF PfInv, HandedOut
<1>5. Outside'
  BY <1>1, <1>2 DEF PfInv, Outside, Running
<1> QED BY <1>1, <1>4, <1>5 DEF PfInv, Types, OneCaller, AllExited, Alone, Consumed

(* No step leaves the invariant; the lock's part is LockLevelsProofs'.     *)
LEMMA PfStep == ASSUME PfInv, [PfNext]_all PROVE PfInv'
<1>1. IInv'
  BY LockSteps, NextIInv DEF PfInv
<1>2. Types' /\ OneCaller' /\ Outside' /\ Alone' /\ HandedOut' /\ Consumed'
  <2>1. ASSUME NEW c \in Callers, NEW nos \in Arguments, PrefetchLists(c, nos)
        PROVE  Types' /\ OneCaller' /\ Outside' /\ Alone' /\ HandedOut' /\ Consumed'
    BY <2>1, PrefetchListsKeeps
  <2>2. ASSUME NEW c \in Callers,
               Join(c) \/ Fill(c) \/ Return(c) \/ \E t \in Fetchers : Create(c, t)
        PROVE  Types' /\ OneCaller' /\ Outside' /\ Alone' /\ HandedOut' /\ Consumed'
    BY <2>2, JoinKeeps, FillKeeps, ReturnKeeps, CreateKeeps
  <2>3. CASE Destroy
    BY <2>3, DestroyKeeps
  <2>4. ASSUME NEW t \in Fetchers, GetNextList(t) \/ LockList(t) \/ UnlockList(t)
        PROVE  Types' /\ OneCaller' /\ Outside' /\ Alone' /\ HandedOut' /\ Consumed'
    BY <2>4, GetNextListKeeps, LockListKeeps, UnlockListKeeps
  <2>5. CASE \/ \E t \in Writers : Write(t)
             \/ \E t \in Threads : WakeUp(t)
             \/ UNCHANGED all
    BY <2>5, OthersKeep
  <2> QED BY <2>1, <2>2, <2>3, <2>4, <2>5 DEF PfNext
<1> QED BY <1>1, <1>2 DEF PfInv

-----------------------------------------------------------------------------
(* The inductive invariant of the prefetch, the lock's with it.            *)
THEOREM PrefetchInvariant == PfSpec => []PfInv
BY PfInitially, PfStep, PTL DEF PfSpec

(* The lock keeps its promise when the threads of OngoingPrefetch are      *)
(* among those that use it.                                                *)
THEOREM PrefetchLocks == PfSpec => [](Exclusion /\ NoLostWakeUp)
<1>1. PfInv => Exclusion /\ NoLostWakeUp
  BY IInvExclusion DEF PfInv, IInv
<1> QED BY <1>1, PrefetchInvariant, PTL

(* prefetch_lists fills list_ids without list_ids_mutex: no thread is left *)
(* to read it, in a lock or out of it; nor after the destructor.           *)
THEOREM FillUndisturbed == PfSpec => []QuietFill
<1>1. PfInv => QuietFill
  <2> SUFFICES ASSUME PfInv, NEW t \in Fetchers,
                      \/ destroyed
                      \/ \E c \in Callers : cpc[c] = "fill" /\ filled < Len(list_nos[c])
               PROVE  ~Running(t) /\ pc[t] = "out"
    BY DEF QuietFill
  <2>1. AllExited
    <3>1. CASE destroyed
      BY <3>1 DEF PfInv, OneCaller
    <3>2. ASSUME NEW c \in Callers, cpc[c] = "fill", filled < Len(list_nos[c])
          PROVE  AllExited
      BY <3>2 DEF PfInv, Alone, AllExited
    <3> QED BY <3>1, <3>2
  <2>2. ~Running(t)
    BY <2>1 DEF AllExited, Running
  <2> QED BY <2>2 DEF PfInv, Outside
<1> QED BY <1>1, PrefetchInvariant, PTL

(* Between the calls, once the threads have returned, every list that was  *)
(* kept has been read: at least one thread was there to do it.             *)
THEOREM ListsRead == ASSUME Fetchers # {} PROVE PfSpec => []AllRead
<1>1. PfInv => AllRead
  <2> SUFFICES ASSUME PfInv, mutex = NoCaller, AllExited PROVE read = DOMAIN list_ids
    BY DEF AllRead
  <2>1. \A c \in Callers : cpc[c] # "join"
    BY PrefetchAssumption DEF PfInv, OneCaller
  <2>2. Len(list_ids) \in Nat /\ cur_list \in Nat /\ DOMAIN list_ids = 1 .. Len(list_ids)
    BY DEF PfInv, Types
  <2>3. cur_list = Len(list_ids)
    <3>1. cur_list <= Len(list_ids)
      BY <2>1 DEF PfInv, Consumed
    <3>2. CASE threads = {}
      <4>1. list_ids = <<>>
        BY <3>2 DEF PfInv, Consumed
      <4> QED BY <2>2, <3>1, <4>1
    <3>3. CASE threads # {}
      <4>1. exited # {}
        BY <3>3 DEF AllExited
      <4>2. Len(list_ids) <= cur_list
        BY <4>1 DEF PfInv, Consumed
      <4>3. PICK n \in Nat, m \in Nat : n = Len(list_ids) /\ m = cur_list
        BY <2>2
      <4> QED BY <3>1, <4>2, <4>3
    <3> QED BY <3>2, <3>3
  <2> QED BY <2>2, <2>3, AtRest
<1> QED BY <1>1, PrefetchInvariant, PTL

(* While a call joins, nobody else calls and list_ids is empty.            *)
LEMMA Joining ==
  ASSUME PfInv, NEW c \in Callers, cpc[c] = "join"
  PROVE  mutex = c /\ list_ids = <<>> /\ \A d \in Callers : d # c => cpc[d] = "out"
BY DEF PfInv, OneCaller, Alone

(* As long as threads are missing there is one to create.                  *)
LEMMA OneToCreate ==
  ASSUME PfInv, NEW c \in Callers, Missing(c)
  PROVE  Fetchers \ threads # {}
<1>1. threads \subseteq Fetchers
  BY DEF PfInv, Types
<1>2. CASE threads = Fetchers
  <2>1. ~(Cardinality(Fetchers) < Cardinality(Fetchers))
    BY Nthread DEF prefetch_nthread
  <2> QED BY <1>2, <2>1 DEF Missing, prefetch_nthread
<1> QED BY <1>1, <1>2

(* prefetch_lists does not deadlock with the threads it joins, nor with    *)
(* those that add to or resize the lists these threads read.               *)
THEOREM PrefetchGoesOn == PfSpec => []CallsGoOn
<1>1. PfInv => CallsGoOn
  <2> SUFFICES ASSUME PfInv, NEW c \in Callers, cpc[c] # "out"
               PROVE  CallCanGo(c) \/ \E t \in Threads : ThreadCanGo(t)
    BY DEF CallsGoOn
  <2>1. CASE cpc[c] # "join"
    BY <2>1, OneToCreate DEF CallCanGo
  <2>2. ASSUME cpc[c] = "join", NEW t \in Fetchers, Running(t)
        PROVE  \E u \in Threads : ThreadCanGo(u)
    <3>1. t \in Threads
      BY PrefetchAssumption
    <3>2. CASE pc[t] = "out"
      BY <2>2, <3>1, <3>2 DEF ThreadCanGo
    <3>3. CASE pc[t] # "out" /\ Free
      <4>1. PICK u \in Threads : CanGo(u)
        BY <3>1, <3>3, FreeGoes DEF PfInv
      <4>2. pc[u] # "out"
        BY <4>1 DEF CanGo, At
      <4> QED BY <4>1, <4>2 DEF ThreadCanGo
    <3>4. CASE ~Free
      <4>1. PICK u \in Threads : mutex1 = u
        BY <3>4 DEF PfInv, IInv, TypeOK, Free
      <4> QED BY <4>1, MutexAwake DEF PfInv, ThreadCanGo
    <3> QED BY <3>2, <3>3, <3>4
  <2>3. CASE cpc[c] = "join" /\ threads \subseteq exited
    BY <2>3 DEF CallCanGo, AllExited
  <2>4. CASE cpc[c] = "join" /\ ~(threads \subseteq exited)
    <3>1. PICK t \in threads : t \notin exited
      BY <2>4
    <3>2. t \in Fetchers /\ Running(t)
      BY <3>1 DEF PfInv, Types, Running
    <3> QED BY <2>2, <2>4, <3>2
  <2> QED BY <2>1, <2>3, <2>4
<1> QED BY <1>1, PrefetchInvariant, PTL

(* A call that joins waits for the lists being read and for no others: the *)
(* threads find list_ids empty and return.                                 *)
THEOREM JoinWaitShrinks == PfSpec => JoinsShrink
<1>1. ASSUME PfInv, [PfNext]_all, NEW c \in Callers, cpc[c] = "join", cpc'[c] = "join"
      PROVE  /\ threads' = threads /\ cur_list' = cur_list
             /\ exited \subseteq exited' /\ Inside' \subseteq Inside
  <2> USE <1>1
  <2>1. mutex = c /\ c # NoCaller /\ list_ids = <<>> /\ \A d \in Callers : d # c => cpc[d] = "out"
    BY Joining, PrefetchAssumption
  <2>2. cur_list \in Nat /\ Len(list_ids) = 0 /\ cpc \in [Callers -> {"out", "join", "fill"}]
    BY <2>1 DEF PfInv, Types
  <2>3. ASSUME NEW d \in Callers,
               \/ \E nos \in Arguments : PrefetchLists(d, nos)
               \/ Fill(d) \/ Return(d) \/ \E t \in Fetchers : Create(d, t)
        PROVE  FALSE
    BY <2>1, <2>3 DEF PrefetchLists, Fill, Return, Create
  <2>4. ASSUME NEW d \in Callers, Join(d) PROVE FALSE
    BY <2>1, <2>2, <2>4 DEF Join, GotoC
  <2>5. ~Destroy
    BY <2>1 DEF Destroy
  <2>6. ASSUME NEW t \in Fetchers, GetNextList(t)
        PROVE  threads' = threads /\ cur_list' = cur_list /\ exited \subseteq exited' /\ pc' = pc
    BY <2>2, <2>6 DEF GetNextList, vars
  <2>7. ASSUME NEW t \in Fetchers, LockList(t) \/ UnlockList(t)
        PROVE  /\ threads' = threads /\ cur_list' = cur_list /\ exited' = exited
               /\ Inside' \subseteq Inside
    <3>1. threads' = threads /\ cur_list' = cur_list /\ exited' = exited /\ pc[t] # "out"
      BY <2>7 DEF LockList, UnlockList, Lock1, Unlock1, At, tasks
    <3>2. pc' = pc \/ \E loc : pc' = [pc EXCEPT ![t] = loc]
      BY <2>7 DEF LockList, UnlockList, Lock1, Unlock1, Goto
    <3>3. \A u \in Fetchers : u # t => pc'[u] = pc[u]
      BY <3>2, PrefetchAssumption DEF PfInv, IInv, TypeOK
    <3> QED BY <3>1, <3>3 DEF Inside
  <2>8. CASE \/ \E t \in Writers : Write(t)
             \/ \E t \in Threads : WakeUp(t)
             \/ UNCHANGED all
    <3>1. threads' = threads /\ cur_list' = cur_list /\ exited' = exited
      BY <2>8 DEF Write, WakeUp, tasks, all
    <3>2. \A u \in Fetchers : pc'[u] = pc[u]
      BY <2>8, OthersStay
    <3> QED BY <3>1, <3>2 DEF Inside
  <2>9. CASE Idle /\ UNCHANGED all
    BY <2>8, <2>9
  <2> QED BY <2>3, <2>4, <2>5, <2>6, <2>7, <2>8, <2>9 DEF PfNext, Inside
<1>2. PfInv /\ [PfNext]_all =>
        [\A c \in Callers : cpc[c] = "join" /\ cpc'[c] = "join" =>
           /\ threads' = threads /\ cur_list' = cur_list
           /\ exited \subseteq exited' /\ Inside' \subseteq Inside]_all
  BY <1>1
<1> QED BY <1>2, PrefetchInvariant, PTL DEF PfSpec, JoinsShrink

-----------------------------------------------------------------------------
(***************************************************************************)
(* OnDiskLists.  First, what its operators return.                         *)
(***************************************************************************)

LEMMA SmallestOf ==
  ASSUME NEW S \in SUBSET Nat, S # {}
  PROVE  Smallest(S) \in S /\ \A i \in S : Smallest(S) <= i
<1>1. ASSUME NEW i \in Nat, NEW k \in Nat, i < k PROVE <<i, k>> \in OpToRel(<, Nat)
  BY <1>1 DEF OpToRel
<1>2. PICK k \in S : \A i \in S : ~(<<i, k>> \in OpToRel(<, Nat))
  BY NatLessThanWellFounded, WFMin
<1>3. ASSUME NEW i \in S PROVE k <= i
  <2>1. ~(i < k)
    BY <1>1, <1>2
  <2> QED BY <2>1
<1> QED BY <1>3 DEF Smallest

(* Induction over an interval.                                             *)
LEMMA Stepwise ==
  ASSUME NEW b \in Nat, NEW S, 0 \in S, \A k \in 0 .. b - 1 : k \in S => k + 1 \in S
  PROVE  \A k \in 0 .. b : k \in S
<1> SUFFICES ASSUME NEW k \in 0 .. b, k \notin S PROVE FALSE
  OBVIOUS
<1> DEFINE C == {i \in 0 .. b : i \notin S}
           i == Smallest(C)
<1>1. C \in SUBSET Nat /\ C # {}
  OBVIOUS
<1>2. i \in C /\ \A j \in C : i <= j
  BY <1>1, SmallestOf
<1>3. i # 0 /\ i \in Nat /\ i <= b
  BY <1>2
<1> HIDE DEF i
<1>4. i - 1 \in 0 .. b - 1 /\ i - 1 \in S
  BY <1>2, <1>3
<1> QED BY <1>2, <1>3, <1>4

(* The loops that double a capacity and the size of the file end with      *)
(* enough, when they start from a positive number.                         *)
LEMMA Doubling ==
  ASSUME NEW x \in Nat \ {0}, NEW least \in Nat
  PROVE  Doubled(x, least) \in Nat /\ Doubled(x, least) >= least /\ Doubled(x, least) >= x
<1> DEFINE From(d) == {n \in Nat : n >= least - d}
           Loop(g, D) == g = [n \in D |-> IF n < least THEN g[2 * n] ELSE n]
           loop == CHOOSE g : Loop(g, Nat)
<1>1. \E g : Loop(g, Nat)
  <2> DEFINE HasLoop(d) == \E g : Loop(g, From(d))
             S == {d \in 0 .. least : HasLoop(d)}
  <2>1. HasLoop(0)
    <3> DEFINE g == [n \in From(0) |-> n]
    <3>1. \A n \in From(0) : ~(n < least)
      OBVIOUS
    <3>2. Loop(g, From(0))
      BY <3>1
    <3> HIDE DEF g, Loop
    <3> QED BY <3>2
  <2>2. ASSUME NEW d \in 0 .. least - 1, HasLoop(d) PROVE HasLoop(d + 1)
    <3>0. PICK g : Loop(g, From(d))
      BY <2>2
    <3> DEFINE m == least - (d + 1)
               h == [n \in From(d + 1) |-> IF n = m THEN (IF m = 0 THEN 0 ELSE g[2 * m]) ELSE g[n]]
    <3>1. m \in Nat /\ m < least
      OBVIOUS
    <3>2. \A n \in From(d + 1) : n = m \/ (n # m /\ n \in From(d))
      OBVIOUS
    <3>3. ASSUME NEW n \in From(d + 1)
          PROVE  h[n] = IF n < least THEN h[2 * n] ELSE n
      <4>1. CASE n = m /\ m = 0
        <5>1. 2 * n = n
          BY <4>1
        <5> QED BY <3>1, <4>1, <5>1
      <4>2. CASE n = m /\ m # 0
        <5>1. 2 * m \in From(d + 1) /\ 2 * m # m
          BY <3>1, <4>2
        <5>2. h[n] = g[2 * m] /\ h[2 * m] = g[2 * m]
          BY <4>2, <5>1
        <5> HIDE DEF h
        <5> QED BY <3>1, <4>2, <5>2
      <4>3. CASE n # m /\ n \in From(d)
        <5>1. 2 * n \in From(d + 1) /\ 2 * n # m
          BY <3>1, <4>3
        <5>2. h[n] = g[n] /\ h[2 * n] = g[2 * n]
          BY <4>3, <5>1
        <5>3. g[n] = IF n < least THEN g[2 * n] ELSE n
          BY <3>0, <4>3
        <5> HIDE DEF h
        <5> QED BY <5>2, <5>3
      <4> QED BY <3>2, <4>1, <4>2, <4>3
    <3>4. h = [n \in From(d + 1) |-> h[n]]
      OBVIOUS
    <3> HIDE DEF h
    <3>5. Loop(h, From(d + 1))
      BY <3>3, <3>4
    <3> HIDE DEF Loop
    <3> QED BY <3>5
  <2>3. HasLoop(least)
    <3> HIDE DEF HasLoop
    <3>1. 0 \in S /\ \A d \in 0 .. least - 1 : d \in S => d + 1 \in S
      BY <2>1, <2>2
    <3>2. \A d \in 0 .. least : d \in S
      <4> HIDE DEF S
      <4> QED BY <3>1, Stepwise
    <3> QED BY <3>2
  <2>4. From(least) = Nat
    OBVIOUS
  <2> QED BY <2>3, <2>4
<1>2. Loop(loop, Nat)
  <2> HIDE DEF Loop
  <2> QED BY <1>1
<1>3. Doubled(x, least) = loop[x]
  BY DEF Doubled
<1> HIDE DEF loop
<1>4. \A n \in Nat : loop[n] = IF n < least THEN loop[2 * n] ELSE n
  BY <1>2
<1> HIDE DEF Loop
<1> DEFINE Enough(n) == loop[n] \in Nat /\ loop[n] >= least /\ loop[n] >= n
           AllEnough(d) == \A n \in From(d) : n > 0 => Enough(n)
           S == {d \in 0 .. least : AllEnough(d)}
<1>5. AllEnough(0)
  BY <1>4
<1>6. ASSUME NEW d \in 0 .. least - 1, AllEnough(d) PROVE AllEnough(d + 1)
  <2> SUFFICES ASSUME NEW n \in From(d + 1), n > 0 PROVE  Enough(n)
    OBVIOUS
  <2>1. CASE n \in From(d)
    BY <1>6, <2>1
  <2>2. CASE n \notin From(d)
    <3>1. n < least /\ 2 * n \in From(d) /\ 2 * n > 0
      BY <2>2
    <3>2. Enough(2 * n) /\ loop[n] = loop[2 * n]
      BY <1>4, <1>6, <3>1
    <3> QED BY <3>2
  <2> QED BY <2>1, <2>2
<1>7. AllEnough(least)
  <2> HIDE DEF AllEnough
  <2>1. 0 \in S /\ \A d \in 0 .. least - 1 : d \in S => d + 1 \in S
    BY <1>5, <1>6
  <2>2. \A d \in 0 .. least : d \in S
    <3> HIDE DEF S
    <3> QED BY <2>1, Stepwise
  <2> QED BY <2>2
<1>8. x \in From(least)
  OBVIOUS
<1> QED BY <1>3, <1>7, <1>8

LEMMA Part ==
  ASSUME NEW S, NEW q \in Seq(S), NEW a \in Nat \ {0}, NEW b \in 0 .. Len(q), a <= b + 1
  PROVE  /\ SubSeq(q, a, b) \in Seq(S) /\ Len(SubSeq(q, a, b)) = b - a + 1
         /\ \A k \in 1 .. b - a + 1 : SubSeq(q, a, b)[k] = q[a + k - 1]
<1>1. Len(q) \in Nat /\ \A k \in 1 .. Len(q) : q[k] \in S
  BY LenProperties
<1>2. /\ SubSeq(q, a, b) \in Seq(S)
      /\ Len(SubSeq(q, a, b)) = IF a <= b THEN b - a + 1 ELSE 0
      /\ \A k \in 1 .. b - a + 1 : SubSeq(q, a, b)[k] = q[a + k - 1]
  <2>1. \A k \in a .. b : q[k] \in S
    BY <1>1
  <2> QED BY <2>1, SubSeqProperties
<1>3. CASE a <= b
  BY <1>2, <1>3
<1>4. CASE ~(a <= b)
  <2>1. b - a + 1 = 0
    BY <1>1, <1>4
  <2>2. Len(SubSeq(q, a, b)) = 0
    BY <1>2, <1>4, Zenon
  <2> QED BY <1>2, <2>1, <2>2
<1> QED BY <1>3, <1>4

LEMMA Removed ==
  ASSUME NEW S, NEW q \in Seq(S), NEW i \in 1 .. Len(q)
  PROVE  /\ RemoveAt(q, i) \in Seq(S) /\ Len(RemoveAt(q, i)) = Len(q) - 1
         /\ \A k \in 1 .. Len(q) - 1 : RemoveAt(q, i)[k] = IF k < i THEN q[k] ELSE q[k + 1]
<1> DEFINE l == SubSeq(q, 1, i - 1)
           r == SubSeq(q, i + 1, Len(q))
<1>1. Len(q) \in Nat /\ i \in Nat /\ 1 <= i /\ i <= Len(q)
  BY LenProperties
<1>2. l \in Seq(S) /\ Len(l) = i - 1 /\ \A k \in 1 .. i - 1 : l[k] = q[k]
  <2>1. /\ l \in Seq(S) /\ Len(l) = (i - 1) - 1 + 1
        /\ \A k \in 1 .. (i - 1) - 1 + 1 : l[k] = q[1 + k - 1]
    BY <1>1, Part
  <2> HIDE DEF l
  <2> QED BY <1>1, <2>1
<1>3. /\ r \in Seq(S) /\ Len(r) = Len(q) - i
      /\ \A k \in 1 .. Len(q) - i : r[k] = q[i + k]
  <2>1. /\ r \in Seq(S) /\ Len(r) = Len(q) - (i + 1) + 1
        /\ \A k \in 1 .. Len(q) - (i + 1) + 1 : r[k] = q[(i + 1) + k - 1]
    BY <1>1, Part
  <2> HIDE DEF r
  <2> QED BY <1>1, <2>1
<1>4. RemoveAt(q, i) = l \o r
  BY DEF RemoveAt
<1> HIDE DEF l, r
<1>5. /\ l \o r \in Seq(S) /\ Len(l \o r) = Len(l) + Len(r)
      /\ \A k \in 1 .. Len(l) + Len(r) :
           (l \o r)[k] = IF k <= Len(l) THEN l[k] ELSE r[k - Len(l)]
  BY <1>2, <1>3, ConcatProperties
<1>6. ASSUME NEW k \in 1 .. Len(q) - 1
      PROVE  (l \o r)[k] = IF k < i THEN q[k] ELSE q[k + 1]
  <2>1. CASE k < i
    <3>1. k \in 1 .. i - 1 /\ k \in 1 .. Len(l) + Len(r) /\ k <= Len(l)
      BY <1>1, <1>2, <1>3, <2>1
    <3> QED BY <1>2, <1>5, <2>1, <3>1
  <2>2. CASE ~(k < i)
    <3>1. PICK m \in 1 .. Len(q) - i : m = k - Len(l)
      BY <1>1, <1>2, <2>2
    <3>2. i + m = k + 1 /\ k \in 1 .. Len(l) + Len(r) /\ ~(k <= Len(l))
      BY <1>1, <1>2, <1>3, <2>2, <3>1
    <3> QED BY <1>3, <1>5, <2>2, <3>1, <3>2
  <2> QED BY <2>1, <2>2
<1> QED BY <1>1, <1>2, <1>3, <1>4, <1>5, <1>6

LEMMA Inserted ==
  ASSUME NEW S, NEW q \in Seq(S), NEW i \in 1 .. Len(q) + 1, NEW e \in S
  PROVE  /\ InsertAt(q, i, e) \in Seq(S) /\ Len(InsertAt(q, i, e)) = Len(q) + 1
         /\ \A k \in 1 .. Len(q) + 1 : k < i => InsertAt(q, i, e)[k] = q[k]
         /\ \A k \in 1 .. Len(q) + 1 : k = i => InsertAt(q, i, e)[k] = e
         /\ \A k \in 1 .. Len(q) + 1 : k > i => InsertAt(q, i, e)[k] = q[k - 1]
<1> DEFINE l == SubSeq(q, 1, i - 1)
           r == SubSeq(q, i, Len(q))
           m == l \o <<e>>
<1>1. Len(q) \in Nat /\ i \in Nat /\ 1 <= i /\ i <= Len(q) + 1
  BY LenProperties
<1>2. l \in Seq(S) /\ Len(l) = i - 1 /\ \A k \in 1 .. i - 1 : l[k] = q[k]
  <2>1. /\ l \in Seq(S) /\ Len(l) = (i - 1) - 1 + 1
        /\ \A k \in 1 .. (i - 1) - 1 + 1 : l[k] = q[1 + k - 1]
    BY <1>1, Part
  <2> HIDE DEF l
  <2> QED BY <1>1, <2>1
<1>3. /\ r \in Seq(S) /\ Len(r) = Len(q) + 1 - i
      /\ \A k \in 1 .. Len(q) + 1 - i : r[k] = q[i + k - 1]
  <2>1. /\ r \in Seq(S) /\ Len(r) = Len(q) - i + 1
        /\ \A k \in 1 .. Len(q) - i + 1 : r[k] = q[i + k - 1]
    BY <1>1, Part
  <2> HIDE DEF r
  <2> QED BY <1>1, <2>1
<1>4. InsertAt(q, i, e) = m \o r
  BY DEF InsertAt
<1> HIDE DEF l, r
<1>5. m \in Seq(S) /\ Len(m) = i /\ \A k \in 1 .. i : m[k] = IF k < i THEN q[k] ELSE e
  <2>1. <<e>> \in Seq(S) /\ Len(<<e>>) = 1 /\ <<e>>[1] = e
    OBVIOUS
  <2>2. /\ m \in Seq(S) /\ Len(m) = Len(l) + 1
        /\ \A k \in 1 .. Len(l) + 1 : m[k] = IF k <= Len(l) THEN l[k] ELSE <<e>>[k - Len(l)]
    BY <1>2, <2>1, ConcatProperties
  <2> HIDE DEF m
  <2>3. ASSUME NEW k \in 1 .. i PROVE m[k] = IF k < i THEN q[k] ELSE e
    <3>1. CASE k < i
      <4>1. k \in 1 .. i - 1 /\ k \in 1 .. Len(l) + 1 /\ k <= Len(l)
        BY <1>1, <1>2, <3>1
      <4> QED BY <1>2, <2>2, <3>1, <4>1
    <3>2. CASE k = i
      <4>1. k \in 1 .. Len(l) + 1 /\ ~(k <= Len(l)) /\ k - Len(l) = 1
        BY <1>1, <1>2, <3>2
      <4> QED BY <1>1, <2>1, <2>2, <3>2, <4>1
    <3> QED BY <1>1, <3>1, <3>2
  <2> QED BY <1>1, <1>2, <2>2, <2>3
<1> HIDE DEF m
<1>6. /\ m \o r \in Seq(S) /\ Len(m \o r) = Len(m) + Len(r)
      /\ \A k \in 1 .. Len(m) + Len(r) :
           (m \o r)[k] = IF k <= Len(m) THEN m[k] ELSE r[k - Len(m)]
  BY <1>3, <1>5, ConcatProperties
<1>7. ASSUME NEW k \in 1 .. Len(q) + 1
      PROVE  (m \o r)[k] = IF k < i THEN q[k] ELSE IF k = i THEN e ELSE q[k - 1]
  <2>1. CASE k <= i
    <3>1. k \in 1 .. i /\ k \in 1 .. Len(m) + Len(r) /\ k <= Len(m)
      BY <1>1, <1>3, <1>5, <2>1
    <3>2. k < i \/ k = i
      BY <1>1, <2>1
    <3> QED BY <1>5, <1>6, <3>1, <3>2
  <2>2. CASE ~(k <= i)
    <3>1. PICK n \in 1 .. Len(q) + 1 - i : n = k - Len(m)
      BY <1>1, <1>5, <2>2
    <3>2. i + n - 1 = k - 1 /\ k \in 1 .. Len(m) + Len(r) /\ ~(k <= Len(m)) /\ ~(k < i) /\ k # i
      BY <1>1, <1>3, <1>5, <2>2, <3>1
    <3> QED BY <1>3, <1>6, <3>1, <3>2
  <2> QED BY <2>1, <2>2
<1> QED BY <1>1, <1>3, <1>4, <1>5, <1>6, <1>7

LEMMA Exchanged ==
  ASSUME NEW S, NEW q \in Seq(S), NEW i \in 1 .. Len(q), NEW e \in S
  PROVE  ReplaceAt(q, i, e) \in Seq(S) /\ Len(ReplaceAt(q, i, e)) = Len(q)
BY ExceptSeq DEF ReplaceAt

LEMMA ExchangedAt ==
  ASSUME NEW S, NEW q \in Seq(S), NEW i \in 1 .. Len(q), NEW e \in S, NEW k \in 1 .. Len(q)
  PROVE  ReplaceAt(q, i, e)[k] = IF k = i THEN e ELSE q[k]
BY ExceptSeq DEF ReplaceAt

LEMMA ExchangedHere ==
  ASSUME NEW S, NEW q \in Seq(S), NEW i \in 1 .. Len(q), NEW e \in S
  PROVE  ReplaceAt(q, i, e)[i] = e
BY ExceptSeq DEF ReplaceAt

-----------------------------------------------------------------------------
(* The free slots: in order, with gaps, inside the file.                   *)

Slot == [offset : Nat, capacity : Nat \ {0}]

Tidy(q, tot) ==
  /\ q \in Seq(Slot)
  /\ \A i, j \in 1 .. Len(q) : i < j => q[i].offset + q[i].capacity < q[j].offset
  /\ \A i \in 1 .. Len(q) : q[i].offset + q[i].capacity <= tot

(* No slot has one of the m bytes from a on.                               *)
Clear(q, a, m) ==
  \A i \in 1 .. Len(q) : ~Overlap(a, m, q[i].offset, q[i].capacity)

LEMMA SlotTypes ==
  ASSUME NEW q \in Seq(Slot)
  PROVE  /\ Len(q) \in Nat
         /\ \A i \in 1 .. Len(q) :
              /\ q[i] \in Slot /\ q[i].offset \in Nat
              /\ q[i].capacity \in Nat /\ q[i].capacity > 0
<1>1. \A i \in 1 .. Len(q) : q[i] \in Slot
  BY ElementOfSeq
<1>2. \A s \in Slot : s.offset \in Nat /\ s.capacity \in Nat /\ s.capacity > 0
  BY DEF Slot
<1> QED BY <1>1, <1>2, LenProperties

(* One slot is new, between what was before and what was after it.         *)
Around(q, r, x, d, tot) ==
  /\ Len(q) = Len(r) + d /\ r[x].offset + r[x].capacity <= tot
  /\ \A k \in 1 .. Len(r) : k < x => r[k] = q[k] /\ q[k].offset + q[k].capacity < r[x].offset
  /\ \A k \in 1 .. Len(r) :
       k > x => r[k] = q[k + d] /\ r[x].offset + r[x].capacity < q[k + d].offset

LEMMA TidyAround ==
  ASSUME NEW q, NEW tot \in Nat, Tidy(q, tot), NEW r \in Seq(Slot), NEW d \in -1 .. 1,
         NEW x \in 1 .. Len(r),
         Around(q, r, x, d, tot)
  PROVE  Tidy(r, tot)
<1>1. /\ Len(q) \in Nat /\ Len(r) \in Nat /\ q \in Seq(Slot) /\ x \in Nat /\ d \in Int
      /\ \A i \in 1 .. Len(q) : q[i].offset \in Nat /\ q[i].capacity \in Nat
      /\ \A i \in 1 .. Len(r) : r[i].offset \in Nat /\ r[i].capacity \in Nat
  BY SlotTypes DEF Tidy
<1>2. \A k \in 1 .. Len(r) : k < x => k \in 1 .. Len(q)
  BY <1>1 DEF Around
<1>3. \A k \in 1 .. Len(r) : k > x => k + d \in 1 .. Len(q)
  BY <1>1 DEF Around
<1>4. ASSUME NEW i \in 1 .. Len(r) PROVE r[i].offset + r[i].capacity <= tot
  <2>1. CASE i < x
    BY <1>2, <2>1 DEF Tidy, Around
  <2>2. CASE i > x
    BY <1>3, <2>2 DEF Tidy, Around
  <2> QED BY <1>1, <2>1, <2>2 DEF Around
<1>5. ASSUME NEW i \in 1 .. Len(r), NEW j \in 1 .. Len(r), i < j
      PROVE  r[i].offset + r[i].capacity < r[j].offset
  <2>1. CASE j < x
    <3>1. i < x /\ i \in 1 .. Len(q) /\ j \in 1 .. Len(q)
      BY <1>1, <1>2, <1>5, <2>1
    <3> QED BY <1>5, <2>1, <3>1 DEF Tidy, Around
  <2>2. CASE i > x
    <3>1. j > x /\ i + d \in 1 .. Len(q) /\ j + d \in 1 .. Len(q) /\ i + d < j + d
      BY <1>1, <1>3, <1>5, <2>2
    <3> QED BY <2>2, <3>1 DEF Tidy, Around
  <2>3. CASE j = x
    BY <1>5, <2>3 DEF Around
  <2>4. CASE i = x
    BY <1>5, <2>4 DEF Around
  <2>5. CASE i < x /\ j > x
    <3>1. r[i].offset + r[i].capacity < r[x].offset /\ r[x].offset + r[x].capacity < r[j].offset
      BY <2>5 DEF Around
    <3>2. /\ r[i].offset \in Nat /\ r[i].capacity \in Nat /\ r[j].offset \in Nat
          /\ r[x].offset \in Nat /\ r[x].capacity \in Nat
      BY <1>1
    <3>3. PICK a \in Nat, m \in Nat, b \in Nat, c \in Nat, e \in Nat :
            /\ a = r[x].offset /\ m = r[x].capacity
            /\ b = r[i].offset /\ c = r[i].capacity /\ e = r[j].offset
      BY <3>2
    <3>4. b + c < a /\ a + m < e
      BY <3>1, <3>3
    <3>5. b + c < e
      BY <3>4
    <3> QED BY <3>3, <3>5
  <2> QED BY <1>1, <1>5, <2>1, <2>2, <2>3, <2>4, <2>5
<1> QED BY <1>4, <1>5 DEF Tidy

(* Where free_slot's scan stops.                                           *)
LEMMA Scan ==
  ASSUME NEW q, NEW tot \in Nat, Tidy(q, tot), NEW o \in Nat, NEW c \in Nat \ {0},
         Clear(q, o, c)
  PROVE  /\ SlotAfter(q, o) \in 1 .. Len(q) + 1
         /\ \A k \in 1 .. Len(q) : k < SlotAfter(q, o) => q[k].offset + q[k].capacity <= o
         /\ \A k \in 1 .. Len(q) : k >= SlotAfter(q, o) => o + c <= q[k].offset
<1> DEFINE i == SlotAfter(q, o)
           S == {k \in 1 .. Len(q) : q[k].offset > o} \cup {Len(q) + 1}
<1>1. /\ Len(q) \in Nat
      /\ \A k \in 1 .. Len(q) : q[k].offset \in Nat /\ q[k].capacity \in Nat /\ q[k].capacity > 0
  BY SlotTypes DEF Tidy
<1>2. S \in SUBSET Nat /\ S # {} /\ i = Smallest(S)
  BY <1>1 DEF SlotAfter
<1>3. i \in S /\ \A k \in S : i <= k
  <2> HIDE DEF S
  <2> QED BY <1>2, SmallestOf
<1>4. i \in 1 .. Len(q) + 1
  BY <1>1, <1>3
<1>5. ASSUME NEW k \in 1 .. Len(q)
      PROVE  (o + c <= q[k].offset) \/ (q[k].offset + q[k].capacity <= o)
  BY <1>1 DEF Clear, Overlap
<1> HIDE DEF i
<1>6. ASSUME NEW k \in 1 .. Len(q), k < i PROVE q[k].offset + q[k].capacity <= o
  <2>1. ~(q[k].offset > o)
    BY <1>1, <1>3, <1>4, <1>6
  <2> QED BY <1>1, <1>5, <2>1
<1>7. ASSUME NEW k \in 1 .. Len(q), k >= i PROVE o + c <= q[k].offset
  <2>1. i \in 1 .. Len(q) /\ q[i].offset > o
    BY <1>1, <1>3, <1>4, <1>7
  <2>2. q[k].offset > o
    <3>1. CASE k = i
      BY <2>1, <3>1
    <3>2. CASE i < k
      <4>1. q[i].offset + q[i].capacity < q[k].offset
        BY <2>1, <3>2 DEF Tidy
      <4>2. q[i].offset \in Nat /\ q[i].capacity \in Nat /\ q[k].offset \in Nat
        BY <1>1, <2>1
      <4> HIDE DEF Tidy
      <4> QED BY <2>1, <4>1, <4>2
    <3> QED BY <1>7, <2>1, <3>1, <3>2
  <2> QED BY <1>1, <1>5, <2>2
<1> QED BY <1>4, <1>6, <1>7 DEF i

LEMMA SlotEnds ==
  ASSUME NEW q \in Seq(Slot)
  PROVE  \E st, en \in [1 .. Len(q) -> Nat] : \A k \in 1 .. Len(q) :
           /\ st[k] = q[k].offset /\ en[k] = q[k].offset + q[k].capacity
           /\ st[k] < en[k] /\ q[k].capacity = en[k] - st[k]
<1> DEFINE st == [k \in 1 .. Len(q) |-> q[k].offset]
           en == [k \in 1 .. Len(q) |-> q[k].offset + q[k].capacity]
<1>1. \A k \in 1 .. Len(q) : q[k].offset \in Nat /\ q[k].capacity \in Nat /\ q[k].capacity > 0
  BY SlotTypes
<1>2. st \in [1 .. Len(q) -> Nat] /\ en \in [1 .. Len(q) -> Nat]
  BY <1>1
<1>3. ASSUME NEW k \in 1 .. Len(q)
      PROVE  /\ st[k] = q[k].offset /\ en[k] = q[k].offset + q[k].capacity
             /\ st[k] < en[k] /\ q[k].capacity = en[k] - st[k]
  BY <1>1
<1> HIDE DEF st, en
<1> QED BY <1>2, <1>3

(* free_slot: the slots stay in order and apart, and cover nothing but     *)
(* what they covered and the range that was released.                      *)
Covers(q, r, o, c) ==
  \A a \in Int, m \in Nat \ {0} : Clear(q, a, m) /\ ~Overlap(a, m, o, c) => Clear(r, a, m)

LEMMA FreeSlotKeeps ==
  ASSUME NEW q, NEW tot \in Nat, Tidy(q, tot), NEW o \in Nat, NEW c \in Nat \ {0},
         o + c <= tot, Clear(q, o, c)
  PROVE  Tidy(FreeSlot(q, o, c), tot) /\ Covers(q, FreeSlot(q, o, c), o, c)
<1> DEFINE r == FreeSlot(q, o, c)
           slot(offset, capacity) == [offset |-> offset, capacity |-> capacity]
<1>0. PICK e \in Nat : e = o + c /\ e <= tot /\ o < e
  OBVIOUS
<1>1. PICK n \in Nat : n = Len(q)
  BY SlotTypes DEF Tidy
<1>2. q \in Seq(Slot) /\ \A k \in 1 .. n : q[k] \in Slot
  BY <1>1, SlotTypes DEF Tidy
<1>3. PICK st \in [1 .. n -> Nat], en \in [1 .. n -> Nat] : \A k \in 1 .. n :
        /\ st[k] = q[k].offset /\ en[k] = q[k].offset + q[k].capacity
        /\ st[k] < en[k] /\ q[k].capacity = en[k] - st[k]
  BY <1>1, <1>2, SlotEnds
<1>4. /\ \A j, k \in 1 .. n : j < k => en[j] < st[k]
      /\ \A k \in 1 .. n : en[k] <= tot
  BY <1>1, <1>3 DEF Tidy
<1>5. PICK i \in 1 .. n + 1 :
        /\ i = SlotAfter(q, o)
        /\ \A k \in 1 .. n : k < i => en[k] <= o
        /\ \A k \in 1 .. n : k >= i => e <= st[k]
  <2>1. /\ SlotAfter(q, o) \in 1 .. n + 1
        /\ \A k \in 1 .. n : k < SlotAfter(q, o) => q[k].offset + q[k].capacity <= o
        /\ \A k \in 1 .. n : k >= SlotAfter(q, o) => o + c <= q[k].offset
    BY <1>1, Scan
  <2> QED BY <1>0, <1>3, <2>1
<1>6. PICK h \in 0 .. n : h = i - 1
  BY <1>1
<1>7. JoinPrev(q, i, o) <=> h >= 1 /\ en[h] = o
  <2>1. JoinPrev(q, i, o) <=> i > 1 /\ q[h].offset + q[h].capacity = o
    BY <1>6 DEF JoinPrev
  <2>2. i > 1 <=> h >= 1
    BY <1>6
  <2>3. h >= 1 => en[h] = q[h].offset + q[h].capacity
    BY <1>3
  <2> QED BY <2>1, <2>2, <2>3
<1>8. JoinNext(q, i, o, c) <=> i <= n /\ e = st[i]
  BY <1>0, <1>1, <1>3, <1>6 DEF JoinNext
<1>9. \A a \in Nat, m \in Nat \ {0} : slot(a, m) \in Slot
  BY DEF Slot
<1>10. ~JoinPrev(q, i, o) => \A k \in 1 .. n : k < i => en[k] < o
  <2> SUFFICES ASSUME ~JoinPrev(q, i, o), NEW k \in 1 .. n, k < i PROVE en[k] < o
    OBVIOUS
  <2>1. h \in 1 .. n /\ h < i /\ k <= h /\ h >= 1
    BY <1>6
  <2>2. en[k] \in Nat /\ en[h] \in Nat /\ st[h] \in Nat /\ st[h] < en[h]
    BY <1>3, <2>1
  <2>3. en[h] # o /\ en[h] <= o
    BY <1>5, <1>7, <2>1
  <2>4. CASE k = h
    BY <2>2, <2>3, <2>4
  <2>5. CASE k < h
    <3>1. en[k] < st[h]
      BY <1>4, <2>1, <2>5
    <3>2. PICK x \in Nat, y \in Nat, z \in Nat : x = en[k] /\ y = st[h] /\ z = en[h]
      BY <2>2
    <3>3. x < y /\ y < z /\ z <= o
      BY <2>2, <2>3, <3>1, <3>2
    <3>4. x < o
      BY <3>3
    <3> QED BY <3>2, <3>4
  <2> QED BY <2>1, <2>4, <2>5
<1>11. ~JoinNext(q, i, o, c) => \A k \in 1 .. n : k >= i => e < st[k]
  <2> SUFFICES ASSUME ~JoinNext(q, i, o, c), NEW k \in 1 .. n, k >= i PROVE e < st[k]
    OBVIOUS
  <2>1. i \in 1 .. n /\ i <= n /\ i >= i
    OBVIOUS
  <2>2. st[k] \in Nat /\ en[i] \in Nat /\ st[i] \in Nat /\ st[i] < en[i]
    BY <1>3, <2>1
  <2>3. e # st[i] /\ e <= st[i]
    BY <1>5, <1>8, <2>1
  <2>4. CASE k = i
    BY <2>2, <2>3, <2>4
  <2>5. CASE i < k
    <3>1. en[i] < st[k]
      BY <1>4, <2>1, <2>5
    <3>2. PICK x \in Nat, y \in Nat, z \in Nat : x = st[k] /\ y = st[i] /\ z = en[i]
      BY <2>2
    <3>3. e <= y /\ y < z /\ z < x
      BY <2>2, <2>3, <3>1, <3>2
    <3>4. e < x
      BY <3>3
    <3> QED BY <3>2, <3>4
  <2> QED BY <2>1, <2>4, <2>5
(* A range with none of these bytes is clear of them.                      *)
<1>12. ASSUME NEW a \in Int, NEW m \in Nat \ {0}, Clear(q, a, m)
       PROVE  \A k \in 1 .. n : en[k] <= a \/ a + m <= st[k]
  <2> SUFFICES ASSUME NEW k \in 1 .. n PROVE en[k] <= a \/ a + m <= st[k]
    OBVIOUS
  <2>1. ~(a < en[k] /\ st[k] < a + m)
    BY <1>1, <1>3, <1>12 DEF Clear, Overlap
  <2>2. en[k] \in Nat /\ st[k] \in Nat
    OBVIOUS
  <2> QED BY <2>1, <2>2
(* Whatever the case, one slot is new.                                     *)
<1> DEFINE Below(x, lo) ==
             \A k \in 1 .. Len(r) : k < x => r[k] = q[k] /\ k \in 1 .. n /\ en[k] < lo
           Above(x, d, hi) ==
             \A k \in 1 .. Len(r) :
               k > x => r[k] = q[k + d] /\ k + d \in 1 .. n /\ hi < st[k + d]
           Within(lo, hi) ==
             \A a \in Int, m \in Nat \ {0} :
               (\A k \in 1 .. n : en[k] <= a \/ a + m <= st[k]) /\ (e <= a \/ a + m <= o)
               => hi <= a \/ a + m <= lo
           Fit(x, d, lo, hi) ==
             /\ x \in 1 .. Len(r) /\ d \in -1 .. 1 /\ n = Len(r) + d /\ r \in Seq(Slot)
             /\ lo \in Nat /\ hi \in Nat /\ hi <= tot /\ r[x] = slot(lo, hi - lo)
             /\ Below(x, lo) /\ Above(x, d, hi) /\ Within(lo, hi)
<1>13. ASSUME NEW x, NEW d, NEW lo, NEW hi, Fit(x, d, lo, hi)
       PROVE  Tidy(r, tot) /\ Covers(q, r, o, c)
  <2> HIDE DEF r
  <2>1. r[x].offset = lo /\ r[x].capacity = hi - lo /\ r[x].offset + r[x].capacity = hi
    BY <1>13
  <2> HIDE DEF slot
  <2>2. Around(q, r, x, d, tot)
    <3>1. ASSUME NEW k \in 1 .. Len(r), k < x
          PROVE  r[k] = q[k] /\ q[k].offset + q[k].capacity < r[x].offset
      <4>1. r[k] = q[k] /\ k \in 1 .. n /\ en[k] < lo
        BY <1>13, <3>1
      <4> QED BY <1>3, <2>1, <4>1
    <3>2. ASSUME NEW k \in 1 .. Len(r), k > x
          PROVE  r[k] = q[k + d] /\ r[x].offset + r[x].capacity < q[k + d].offset
      <4>1. PICK y \in 1 .. n : y = k + d /\ r[k] = q[y] /\ hi < st[y]
        BY <1>13, <3>2
      <4>2. st[y] = q[y].offset
        BY <1>3
      <4> QED BY <2>1, <4>1, <4>2
    <3> QED BY <1>1, <1>13, <2>1, <3>1, <3>2 DEF Around
  <2>3. Tidy(r, tot)
    BY <1>13, <2>2, TidyAround
  <2>4. ASSUME NEW a \in Int, NEW m \in Nat \ {0}, Clear(q, a, m), ~Overlap(a, m, o, c)
        PROVE  Clear(r, a, m)
    <3>1. hi <= a \/ a + m <= lo
      <4>1. e <= a \/ a + m <= o
        BY <1>0, <2>4 DEF Overlap
      <4>2. \A k \in 1 .. n : en[k] <= a \/ a + m <= st[k]
        BY <1>12, <2>4
      <4> QED BY <1>13, <4>1, <4>2
    <3>2. ~Overlap(a, m, r[x].offset, r[x].capacity)
      <4>1. lo \in Nat /\ hi \in Nat
        BY <1>13
      <4> HIDE DEF Fit
      <4>2. ~(a < hi /\ lo < a + m)
        BY <3>1, <4>1
      <4> QED BY <2>1, <4>2 DEF Overlap
    <3>3. ASSUME NEW k \in 1 .. Len(r) PROVE ~Overlap(a, m, r[k].offset, r[k].capacity)
      <4>0. k < x \/ k = x \/ k > x
        <5>1. Len(r) \in Nat /\ x \in 1 .. Len(r)
          BY <1>13, SlotTypes
        <5> HIDE DEF Fit
        <5> QED BY <5>1
      <4>1. CASE k < x
        BY <1>1, <1>13, <2>4, <4>1 DEF Clear
      <4>2. CASE k = x
        BY <3>2, <4>2
      <4>3. CASE k > x
        BY <1>1, <1>13, <2>4, <4>3 DEF Clear
      <4> QED BY <4>0, <4>1, <4>2, <4>3
    <3> QED BY <3>3 DEF Clear
  <2> QED BY <2>3, <2>4 DEF Covers
<1> HIDE DEF Below, Above, Within, Fit
<1>14. CASE JoinPrev(q, i, o) /\ JoinNext(q, i, o, c)
  <2>0. h \in 1 .. n /\ i \in 1 .. n /\ en[h] = o /\ e = st[i] /\ st[h] < o /\ st[i] < en[i] /\ st[h] \in Nat /\ en[i] \in Nat
    BY <1>3, <1>6, <1>7, <1>8, <1>14
  <2>1. PICK lo \in Nat, hi \in Nat : lo = st[h] /\ hi = en[i]
    BY <2>0
  <2>3. lo < hi /\ hi - lo \in Nat \ {0}
    BY <1>0, <2>0, <2>1
  <2>4. PICK new \in Slot : new = slot(lo, hi - lo)
    BY <1>9, <2>3
  <2>12. PICK p : p = ReplaceAt(q, h, new)
    OBVIOUS
  <2>2. r = RemoveAt(p, i)
    <3>1. q[h].offset = lo /\ q[h].capacity + c + q[i].capacity = hi - lo
      <4>1. q[h].capacity = o - lo /\ q[i].capacity = hi - e /\ q[h].offset = lo
        BY <1>3, <2>0, <2>1
      <4> QED BY <1>0, <2>0, <2>1, <4>1
    <3>2. r = RemoveAt(ReplaceAt(q, i-1, slot(q[i-1].offset,
                                              q[i-1].capacity + c + q[i].capacity)), i)
      BY <1>5, <1>14 DEF FreeSlot
    <3> QED BY <1>6, <2>4, <2>12, <3>1, <3>2
  <2> HIDE DEF r, slot
  <2>5. /\ p \in Seq(Slot) /\ Len(p) = n
        /\ \A k \in 1 .. n : p[k] = IF k = h THEN new ELSE q[k]
    <3>1. h \in 1 .. Len(q)
      BY <1>1, <2>0
    <3>2. ReplaceAt(q, h, new) \in Seq(Slot) /\ Len(ReplaceAt(q, h, new)) = Len(q)
      BY <1>2, <3>1, Exchanged
    <3>3. ASSUME NEW k \in 1 .. Len(q)
          PROVE  ReplaceAt(q, h, new)[k] = IF k = h THEN new ELSE q[k]
      BY <1>2, <3>1, ExchangedAt
    <3> QED BY <1>1, <2>12, <3>2, <3>3
  <2>6. /\ r \in Seq(Slot) /\ Len(r) = n - 1
        /\ \A k \in 1 .. n - 1 : r[k] = IF k < i THEN p[k] ELSE p[k + 1]
    <3>1. i \in 1 .. Len(p) /\ p \in Seq(Slot) /\ Len(p) = n
      BY <2>0, <2>5
    <3>2. RemoveAt(p, i) \in Seq(Slot) /\ Len(RemoveAt(p, i)) = Len(p) - 1
      BY <3>1, Removed
    <3>3. ASSUME NEW k \in 1 .. Len(p) - 1
          PROVE  RemoveAt(p, i)[k] = IF k < i THEN p[k] ELSE p[k + 1]
      BY <3>1, Removed
    <3> QED BY <2>2, <3>1, <3>2, <3>3
  <2>7. r[h] = new /\ h \in 1 .. Len(r) /\ n = Len(r) + 1
    <3>1. h \in 1 .. n - 1 /\ h < i /\ Len(r) = n - 1
      BY <1>6, <2>0, <2>6
    <3>2. r[h] = p[h] /\ p[h] = new
      BY <2>0, <2>5, <2>6, <3>1
    <3> QED BY <3>1, <3>2
  <2>8. ASSUME NEW k \in 1 .. Len(r), k < h PROVE r[k] = q[k] /\ k \in 1 .. n /\ en[k] < lo
    <3>1. k \in 1 .. n /\ k < i /\ k # h /\ k \in 1 .. n - 1
      BY <1>6, <2>0, <2>6, <2>8
    <3>2. r[k] = p[k] /\ p[k] = q[k]
      BY <2>5, <2>6, <3>1
    <3>3. en[k] < st[h] /\ st[h] = lo
      BY <1>4, <2>0, <2>1, <2>8, <3>1
    <3>4. en[k] \in Nat
      BY <1>3, <3>1
    <3> QED BY <3>1, <3>2, <3>3
  <2>9. ASSUME NEW k \in 1 .. Len(r), k > h
        PROVE  r[k] = q[k + 1] /\ k + 1 \in 1 .. n /\ hi < st[k + 1]
    <3>1. k \in 1 .. n - 1 /\ k > h /\ h = i - 1 /\ i \in Int
      BY <1>6, <2>6, <2>9
    <3>2. k + 1 \in 1 .. n /\ ~(k < i) /\ k + 1 # h /\ i < k + 1
      BY <3>1
    <3> QED BY <1>4, <2>0, <2>1, <2>5, <2>6, <3>1, <3>2
  <2>10. ASSUME NEW a \in Int, NEW m \in Nat \ {0},
                \A k \in 1 .. n : en[k] <= a \/ a + m <= st[k], e <= a \/ a + m <= o
         PROVE  hi <= a \/ a + m <= lo
    <3>1. (o <= a \/ a + m <= lo) /\ (hi <= a \/ a + m <= e)
      BY <1>0, <2>0, <2>1, <2>10
    <3> QED BY <1>0, <2>0, <2>1, <2>10, <3>1
  <2>11. hi <= tot
    BY <1>4, <2>0, <2>1
  <2>13. Below(h, lo) /\ Above(h, 1, hi) /\ Within(lo, hi)
    BY <2>8, <2>9, <2>10 DEF Below, Above, Within
  <2>14. 1 \in -1 .. 1
    OBVIOUS
  <2>15. Fit(h, 1, lo, hi)
    BY <2>4, <2>6, <2>7, <2>11, <2>13, <2>14 DEF Fit
  <2> QED BY <1>13, <2>15 DEF r
<1>15. CASE JoinPrev(q, i, o) /\ ~JoinNext(q, i, o, c)
  <2>0. h \in 1 .. n /\ en[h] = o /\ st[h] < o /\ st[h] \in Nat /\ e \in Nat
    BY <1>0, <1>3, <1>6, <1>7, <1>15
  <2>1. PICK lo \in Nat, hi \in Nat : lo = st[h] /\ hi = e
    BY <2>0
  <2>3. lo < hi /\ hi - lo \in Nat \ {0}
    BY <1>0, <2>0, <2>1
  <2>4. PICK new \in Slot : new = slot(lo, hi - lo)
    BY <1>9, <2>3
  <2>2. r = ReplaceAt(q, h, new)
    <3>1. q[h].offset = lo /\ q[h].capacity + c = hi - lo
      <4>1. q[h].capacity = o - lo /\ q[h].offset = lo
        BY <1>3, <2>0, <2>1
      <4> QED BY <1>0, <2>0, <2>1, <4>1
    <3>2. r = ReplaceAt(q, i-1, slot(q[i-1].offset, q[i-1].capacity + c))
      BY <1>5, <1>15 DEF FreeSlot
    <3> QED BY <1>6, <2>4, <3>1, <3>2
  <2> HIDE DEF r, slot
  <2>6. /\ r \in Seq(Slot) /\ Len(r) = n
        /\ \A k \in 1 .. n : r[k] = IF k = h THEN new ELSE q[k]
    <3>1. h \in 1 .. Len(q)
      BY <1>1, <2>0
    <3>2. ReplaceAt(q, h, new) \in Seq(Slot) /\ Len(ReplaceAt(q, h, new)) = Len(q)
      BY <1>2, <3>1, Exchanged
    <3>3. ASSUME NEW k \in 1 .. Len(q)
          PROVE  ReplaceAt(q, h, new)[k] = IF k = h THEN new ELSE q[k]
      BY <1>2, <3>1, ExchangedAt
    <3> QED BY <1>1, <2>2, <3>2, <3>3
  <2>7. r[h] = new /\ h \in 1 .. Len(r) /\ n = Len(r) + 0
    BY <1>6, <2>0, <2>1, <2>6
  <2>8. ASSUME NEW k \in 1 .. Len(r), k < h PROVE r[k] = q[k] /\ k \in 1 .. n /\ en[k] < lo
    <3>1. k \in 1 .. n /\ k # h
      BY <1>6, <2>0, <2>6, <2>8
    <3> QED BY <1>4, <2>0, <2>1, <2>6, <2>8, <3>1
  <2>9. ASSUME NEW k \in 1 .. Len(r), k > h
        PROVE  r[k] = q[k + 0] /\ k + 0 \in 1 .. n /\ hi < st[k + 0]
    <3>1. k + 0 = k /\ k \in 1 .. n /\ k >= i /\ k # h
      BY <1>6, <2>0, <2>6, <2>9
    <3>2. e < st[k]
      BY <1>11, <1>15, <3>1
    <3>3. r[k] = q[k]
      BY <2>0, <2>6, <2>9, <3>1
    <3> QED BY <2>0, <2>1, <3>1, <3>2, <3>3
  <2>10. ASSUME NEW a \in Int, NEW m \in Nat \ {0},
                \A k \in 1 .. n : en[k] <= a \/ a + m <= st[k], e <= a \/ a + m <= o
         PROVE  hi <= a \/ a + m <= lo
    <3>1. o <= a \/ a + m <= lo
      BY <1>0, <2>0, <2>1, <2>10
    <3> QED BY <1>0, <2>0, <2>1, <2>10, <3>1
  <2>11. hi <= tot
    BY <1>0, <2>0, <2>1
  <2>13. Below(h, lo) /\ Above(h, 0, hi) /\ Within(lo, hi)
    BY <2>8, <2>9, <2>10 DEF Below, Above, Within
  <2>14. 0 \in -1 .. 1
    OBVIOUS
  <2>15. Fit(h, 0, lo, hi)
    BY <2>4, <2>6, <2>7, <2>11, <2>13, <2>14 DEF Fit
  <2> QED BY <1>13, <2>15 DEF r
<1>16. CASE ~JoinPrev(q, i, o) /\ JoinNext(q, i, o, c)
  <2>0. i \in 1 .. n /\ e = st[i] /\ st[i] < en[i] /\ o \in Nat /\ en[i] \in Nat
    BY <1>3, <1>6, <1>8, <1>0, <1>16
  <2>1. PICK lo \in Nat, hi \in Nat : lo = o /\ hi = en[i]
    BY <2>0
  <2>3. lo < hi /\ hi - lo \in Nat \ {0}
    BY <1>0, <2>0, <2>1
  <2>4. PICK new \in Slot : new = slot(lo, hi - lo)
    BY <1>9, <2>3
  <2>2. r = ReplaceAt(q, i, new)
    <3>1. q[i].offset - c = lo /\ q[i].capacity + c = hi - lo
      <4>1. q[i].capacity = hi - e /\ q[i].offset = e
        BY <1>3, <2>0, <2>1
      <4>2. e - c = lo /\ (hi - e) + c = hi - lo
        BY <1>0, <2>1
      <4> QED BY <4>1, <4>2
    <3>2. r = ReplaceAt(q, i, slot(q[i].offset - c, q[i].capacity + c))
      BY <1>5, <1>16 DEF FreeSlot
    <3> QED BY <2>4, <3>1, <3>2
  <2> HIDE DEF r, slot
  <2>6. /\ r \in Seq(Slot) /\ Len(r) = n
        /\ \A k \in 1 .. n : r[k] = IF k = i THEN new ELSE q[k]
    <3>1. i \in 1 .. Len(q)
      BY <1>1, <2>0
    <3>2. ReplaceAt(q, i, new) \in Seq(Slot) /\ Len(ReplaceAt(q, i, new)) = Len(q)
      BY <1>2, <3>1, Exchanged
    <3>3. ASSUME NEW k \in 1 .. Len(q)
          PROVE  ReplaceAt(q, i, new)[k] = IF k = i THEN new ELSE q[k]
      BY <1>2, <3>1, ExchangedAt
    <3> QED BY <1>1, <2>2, <3>2, <3>3
  <2>7. r[i] = new /\ i \in 1 .. Len(r) /\ n = Len(r) + 0
    BY <1>0, <2>0, <2>1, <2>6
  <2>8. ASSUME NEW k \in 1 .. Len(r), k < i PROVE r[k] = q[k] /\ k \in 1 .. n /\ en[k] < lo
    <3>1. k \in 1 .. n /\ k # i
      BY <2>0, <2>6, <2>8
    <3>2. r[k] = q[k]
      BY <2>6, <3>1
    <3>3. en[k] < o
      BY <1>10, <1>16, <2>0, <2>8, <3>1
    <3> QED BY <2>1, <3>1, <3>2, <3>3
  <2>9. ASSUME NEW k \in 1 .. Len(r), k > i
        PROVE  r[k] = q[k + 0] /\ k + 0 \in 1 .. n /\ hi < st[k + 0]
    <3>1. k + 0 = k /\ k \in 1 .. n /\ i < k /\ k # i
      BY <2>0, <2>6, <2>9
    <3> QED BY <1>4, <2>0, <2>1, <2>6, <3>1
  <2>10. ASSUME NEW a \in Int, NEW m \in Nat \ {0},
                \A k \in 1 .. n : en[k] <= a \/ a + m <= st[k], e <= a \/ a + m <= o
         PROVE  hi <= a \/ a + m <= lo
    <3>1. hi <= a \/ a + m <= e
      BY <1>0, <2>0, <2>1, <2>10
    <3> QED BY <1>0, <2>0, <2>1, <2>10, <3>1
  <2>11. hi <= tot
    BY <1>4, <2>0, <2>1
  <2>13. Below(i, lo) /\ Above(i, 0, hi) /\ Within(lo, hi)
    BY <2>8, <2>9, <2>10 DEF Below, Above, Within
  <2>14. 0 \in -1 .. 1
    OBVIOUS
  <2>15. Fit(i, 0, lo, hi)
    BY <2>4, <2>6, <2>7, <2>11, <2>13, <2>14 DEF Fit
  <2> QED BY <1>13, <2>15 DEF r
<1>17. CASE ~JoinPrev(q, i, o) /\ ~JoinNext(q, i, o, c)
  <2>1. PICK lo \in Nat, hi \in Nat : lo = o /\ hi = e /\ lo < hi /\ hi - lo = c
    BY <1>0
  <2>3. lo < hi /\ hi - lo \in Nat \ {0}
    BY <2>1
  <2>4. PICK new \in Slot : new = slot(lo, hi - lo)
    BY <1>9, <2>3
  <2>2. r = InsertAt(q, i, new)
    BY <1>5, <1>17, <2>1, <2>4 DEF FreeSlot
  <2> HIDE DEF r, slot
  <2>6. /\ r \in Seq(Slot) /\ Len(r) = n + 1
        /\ \A k \in 1 .. n + 1 :
             r[k] = IF k < i THEN q[k] ELSE IF k = i THEN new ELSE q[k - 1]
    <3>1. i \in 1 .. Len(q) + 1
      BY <1>1
    <3>2. InsertAt(q, i, new) \in Seq(Slot) /\ Len(InsertAt(q, i, new)) = Len(q) + 1
      BY <1>2, <3>1, Inserted
    <3>3. ASSUME NEW k \in 1 .. Len(q) + 1
          PROVE  InsertAt(q, i, new)[k] =
                   IF k < i THEN q[k] ELSE IF k = i THEN new ELSE q[k - 1]
      <4>1. /\ k < i => InsertAt(q, i, new)[k] = q[k]
            /\ k = i => InsertAt(q, i, new)[k] = new
            /\ k > i => InsertAt(q, i, new)[k] = q[k - 1]
        BY <1>2, <3>1, Inserted
      <4> QED BY <4>1
    <3> QED BY <1>1, <2>2, <3>2, <3>3
  <2>7. r[i] = new /\ i \in 1 .. Len(r) /\ n = Len(r) + (-1)
    BY <2>6
  <2>8. ASSUME NEW k \in 1 .. Len(r), k < i PROVE r[k] = q[k] /\ k \in 1 .. n /\ en[k] < lo
    <3>1. k \in 1 .. n /\ k \in 1 .. n + 1
      BY <2>6, <2>8
    <3> QED BY <1>10, <1>17, <2>1, <2>6, <2>8, <3>1
  <2>9. ASSUME NEW k \in 1 .. Len(r), k > i
        PROVE  r[k] = q[k + (-1)] /\ k + (-1) \in 1 .. n /\ hi < st[k + (-1)]
    <3>1. /\ k + (-1) = k - 1 /\ k - 1 \in 1 .. n /\ k - 1 >= i
          /\ ~(k < i) /\ k # i /\ k \in 1 .. n + 1
      BY <2>6, <2>9
    <3> QED BY <1>11, <1>17, <2>1, <2>6, <3>1
  <2>10. ASSUME NEW a \in Int, NEW m \in Nat \ {0},
                \A k \in 1 .. n : en[k] <= a \/ a + m <= st[k], e <= a \/ a + m <= o
         PROVE  hi <= a \/ a + m <= lo
    BY <1>0, <2>1, <2>10
  <2>11. hi <= tot
    BY <1>0, <2>1
  <2>13. Below(i, lo) /\ Above(i, -1, hi) /\ Within(lo, hi)
    BY <2>8, <2>9, <2>10 DEF Below, Above, Within
  <2>14. -1 \in -1 .. 1
    OBVIOUS
  <2>15. Fit(i, -1, lo, hi)
    BY <2>4, <2>6, <2>7, <2>11, <2>13, <2>14 DEF Fit
  <2> QED BY <1>13, <2>15 DEF r
<1> QED BY <1>14, <1>15, <1>16, <1>17

(* A part of what is clear of the slots is clear of them.                  *)
LEMMA ClearPart ==
  ASSUME NEW q \in Seq(Slot), NEW a \in Int, NEW m \in Nat, Clear(q, a, m),
         NEW b \in Int, NEW l \in Nat, a <= b, b + l <= a + m
  PROVE  Clear(q, b, l)
<1> SUFFICES ASSUME NEW k \in 1 .. Len(q) PROVE ~Overlap(b, l, q[k].offset, q[k].capacity)
  BY DEF Clear
<1>1. PICK o \in Nat, c \in Nat : o = q[k].offset /\ c = q[k].capacity
  BY SlotTypes
<1>2. ~(a < o + c /\ o < a + m)
  BY <1>1 DEF Clear, Overlap
<1>3. ~(b < o + c /\ o < b + l)
  BY <1>2
<1> QED BY <1>1, <1>3 DEF Overlap

(* A released range whose first byte no slot comes up to is a slot, or the *)
(* beginning of one.                                                       *)
LEMMA Reopened ==
  ASSUME NEW q, NEW tot \in Nat, Tidy(q, tot), NEW o \in Nat, NEW c \in Nat \ {0},
         Clear(q, o - 1, c + 1)
  PROVE  \E k \in 1 .. Len(FreeSlot(q, o, c)) :
           FreeSlot(q, o, c)[k].offset = o /\ c <= FreeSlot(q, o, c)[k].capacity
<1> DEFINE i == SlotAfter(q, o)
           slot(offset, capacity) == [offset |-> offset, capacity |-> capacity]
           r == FreeSlot(q, o, c)
<1>1. PICK n \in Nat : n = Len(q) /\ q \in Seq(Slot)
  BY SlotTypes DEF Tidy
<1>2. i \in 1 .. n + 1
  <2>1. o - 1 \in Int /\ c + 1 \in Nat /\ o - 1 <= o /\ o + c <= (o - 1) + (c + 1)
    OBVIOUS
  <2>2. Clear(q, o, c)
    BY <1>1, <2>1, ClearPart
  <2> QED BY <1>1, <2>2, Scan
<1> HIDE DEF i
<1>3. ~JoinPrev(q, i, o)
  <2> SUFFICES ASSUME i > 1, q[i-1].offset + q[i-1].capacity = o PROVE FALSE
    BY DEF JoinPrev
  <2>1. i - 1 \in 1 .. Len(q)
    BY <1>1, <1>2
  <2>2. PICK a \in Nat, m \in Nat : a = q[i-1].offset /\ m = q[i-1].capacity /\ m > 0
    BY <1>1, <2>1, SlotTypes
  <2>3. ~(o - 1 < a + m /\ a < (o - 1) + (c + 1))
    BY <2>1, <2>2 DEF Clear, Overlap
  <2> QED BY <2>2, <2>3
<1>4. CASE JoinNext(q, i, o, c)
  <2>1. r = ReplaceAt(q, i, slot(q[i].offset - c, q[i].capacity + c))
    BY <1>3, <1>4 DEF FreeSlot, i
  <2>2. i \in 1 .. Len(q) /\ q[i].offset = o + c
    BY <1>1, <1>2, <1>4 DEF JoinNext
  <2>3. PICK m \in Nat : m = q[i].capacity /\ m > 0
    BY <1>1, <2>2, SlotTypes
  <2>4. slot(q[i].offset - c, q[i].capacity + c) = slot(o, m + c) /\ slot(o, m + c) \in Slot
    BY <2>2, <2>3 DEF Slot
  <2>5. PICK new \in Slot : new = slot(o, m + c) /\ r = ReplaceAt(q, i, new)
    BY <2>1, <2>4
  <2> HIDE DEF r
  <2>6. Len(r) = Len(q) /\ r[i] = new
    <3>1. q \in Seq(Slot) /\ i \in 1 .. Len(q) /\ new \in Slot
      BY <1>1, <2>2
    <3>2. Len(ReplaceAt(q, i, new)) = Len(q)
      BY <3>1, Exchanged
    <3>3. ReplaceAt(q, i, new)[i] = new
      BY <3>1, ExchangedHere
    <3> QED BY <2>5, <3>2, <3>3
  <2>7. new.offset = o /\ c <= new.capacity
    BY <2>5
  <2> QED BY <2>2, <2>6, <2>7 DEF r
<1>5. CASE ~JoinNext(q, i, o, c)
  <2>1. r = InsertAt(q, i, slot(o, c))
    BY <1>3, <1>5 DEF FreeSlot, i
  <2>2. PICK new \in Slot : new = slot(o, c) /\ r = InsertAt(q, i, new)
    BY <2>1 DEF Slot
  <2> HIDE DEF r
  <2>3. Len(r) = n + 1 /\ r[i] = new
    <3>1. q \in Seq(Slot) /\ i \in 1 .. Len(q) + 1 /\ new \in Slot
      BY <1>1, <1>2
    <3>2. Len(InsertAt(q, i, new)) = Len(q) + 1 /\ InsertAt(q, i, new)[i] = new
      BY <3>1, Inserted
    <3> QED BY <1>1, <2>2, <3>2
  <2>4. new.offset = o /\ c <= new.capacity
    BY <2>2
  <2> QED BY <1>2, <2>3, <2>4 DEF r
<1> QED BY <1>4, <1>5

(* What is taken from the beginning of a slot is free afterwards of slots, *)
(* none of which comes up to it, and was free of everything else.          *)
LEMMA TakeKeeps ==
  ASSUME NEW q, NEW tot \in Nat, Tidy(q, tot), NEW i \in 1 .. Len(q), NEW c \in Nat \ {0},
         c <= q[i].capacity
  PROVE  /\ Tidy(Take(q, i, c), tot) /\ Clear(Take(q, i, c), q[i].offset - 1, c + 1)
         /\ \A a \in Int, m \in Nat \ {0} :
              Clear(q, a, m) => Clear(Take(q, i, c), a, m) /\ ~Overlap(a, m, q[i].offset, c)
<1> DEFINE r == Take(q, i, c)
<1>1. PICK n \in Nat : n = Len(q)
  BY SlotTypes DEF Tidy
<1>2. q \in Seq(Slot) /\ i \in 1 .. n
  BY <1>1 DEF Tidy
<1>3. PICK st \in [1 .. n -> Nat], en \in [1 .. n -> Nat] : \A k \in 1 .. n :
        /\ st[k] = q[k].offset /\ en[k] = q[k].offset + q[k].capacity
        /\ st[k] < en[k] /\ q[k].capacity = en[k] - st[k]
  BY <1>1, <1>2, SlotEnds
<1>4. /\ \A j, k \in 1 .. n : j < k => en[j] < st[k]
      /\ \A k \in 1 .. n : en[k] <= tot
  BY <1>1, <1>3 DEF Tidy
<1>5. PICK o \in Nat, hi \in Nat :
        o = q[i].offset /\ o = st[i] /\ hi = en[i] /\ q[i].capacity = hi - o
  BY <1>2, <1>3
<1>50. PICK lo \in Nat : lo = o + c
  OBVIOUS
<1>51. lo <= hi /\ o < lo
  <2>1. c <= hi - o
    BY <1>5
  <2> QED BY <1>50, <2>1
<1>6. ASSUME NEW a \in Int, NEW m \in Nat \ {0}, Clear(q, a, m), NEW k \in 1 .. n
      PROVE  en[k] <= a \/ a + m <= st[k]
  <2>1. ~(a < en[k] /\ st[k] < a + m)
    BY <1>1, <1>3, <1>6 DEF Clear, Overlap
  <2>2. en[k] \in Nat /\ st[k] \in Nat
    OBVIOUS
  <2> QED BY <2>1, <2>2
<1>7. ASSUME NEW a \in Int, NEW m \in Nat \ {0}, Clear(q, a, m) PROVE ~Overlap(a, m, o, c)
  <2>1. en[i] <= a \/ a + m <= o
    BY <1>2, <1>5, <1>6, <1>7
  <2>2. hi <= a \/ a + m <= o
    BY <1>5, <2>1
  <2>3. ~(a < lo /\ o < a + m)
    <3>1. lo <= hi
      BY <1>51
    <3> QED BY <2>2, <3>1
  <2> QED BY <1>5, <1>50, <2>3 DEF Overlap
<1>8. CASE q[i].capacity = c
  <2>1. r = RemoveAt(q, i) /\ lo = en[i]
    <3>1. c = hi - o
      BY <1>5, <1>8
    <3>2. lo = hi
      BY <1>50, <3>1
    <3>4. r = RemoveAt(q, i)
      BY <1>8 DEF Take
    <3> QED BY <1>5, <3>2, <3>4
  <2>10. lo = en[i]
    BY <2>1
  <2> HIDE DEF r
  <2>2. r \in Seq(Slot) /\ Len(r) = n - 1
    BY <1>1, <1>2, <2>1, Removed
  <2>3. ASSUME NEW k \in 1 .. Len(r)
        PROVE  \E j \in 1 .. n : r[k] = q[j] /\ j # i /\ ((k < i /\ j = k) \/ (k >= i /\ j = k + 1))
    <3>1. k \in 1 .. Len(q) - 1 /\ k \in 1 .. n - 1
      BY <1>1, <2>2
    <3>2. r[k] = IF k < i THEN q[k] ELSE q[k + 1]
      BY <1>1, <1>2, <2>1, <3>1, Removed
    <3>3. CASE k < i
      <4>1. k \in 1 .. n
        BY <3>1
      <4>2. k # i
        BY <3>1, <3>3
      <4> QED BY <3>2, <3>3, <4>1, <4>2
    <3>4. CASE ~(k < i)
      <4>1. k + 1 \in 1 .. n /\ k + 1 # i /\ k >= i
        BY <1>2, <3>1, <3>4
      <4> QED BY <3>2, <3>4, <4>1
    <3> QED BY <3>3, <3>4
  <2>4. Tidy(r, tot)
    <3>1. ASSUME NEW k \in 1 .. Len(r) PROVE r[k].offset + r[k].capacity <= tot
      <4>1. PICK j \in 1 .. n : r[k] = q[j]
        BY <2>3
      <4> QED BY <1>3, <1>4, <4>1
    <3>2. ASSUME NEW k \in 1 .. Len(r), NEW l \in 1 .. Len(r), k < l
          PROVE  r[k].offset + r[k].capacity < r[l].offset
      <4>1. PICK j \in 1 .. n : r[k] = q[j] /\ ((k < i /\ j = k) \/ (k >= i /\ j = k + 1))
        BY <2>3
      <4>2. PICK x \in 1 .. n : r[l] = q[x] /\ ((l < i /\ x = l) \/ (l >= i /\ x = l + 1))
        BY <2>3
      <4>3. k \in Int /\ l \in Int /\ i \in Int
        BY <2>2
      <4>4. j < x
        <5>1. CASE l < i
          <6>1. k < i /\ ~(k >= i) /\ ~(l >= i)
            BY <3>2, <4>3, <5>1
          <6> QED BY <3>2, <4>1, <4>2, <6>1
        <5>2. CASE k >= i
          <6>1. l >= i /\ ~(k < i) /\ ~(l < i)
            BY <3>2, <4>3, <5>2
          <6>2. j = k + 1 /\ x = l + 1
            BY <4>1, <4>2, <6>1
          <6> QED BY <3>2, <4>3, <6>2
        <5>3. CASE k < i /\ l >= i
          <6>1. ~(k >= i) /\ ~(l < i)
            BY <4>3, <5>3
          <6>2. j = k /\ x = l + 1
            BY <4>1, <4>2, <6>1
          <6> QED BY <3>2, <4>3, <6>2
        <5>4. l < i \/ k >= i \/ (k < i /\ l >= i)
          BY <4>3
        <5> QED BY <5>1, <5>2, <5>3, <5>4
      <4> QED BY <1>3, <1>4, <4>1, <4>2, <4>4
    <3> QED BY <2>2, <3>1, <3>2 DEF Tidy
  <2>5. ASSUME NEW a \in Int, NEW m \in Nat \ {0}, Clear(q, a, m) PROVE Clear(r, a, m)
    <3> SUFFICES ASSUME NEW k \in 1 .. Len(r) PROVE ~Overlap(a, m, r[k].offset, r[k].capacity)
      BY DEF Clear
    <3>1. PICK j \in 1 .. n : r[k] = q[j]
      BY <2>3
    <3> QED BY <1>1, <2>5, <3>1 DEF Clear
  <2>6. Clear(r, o - 1, c + 1)
    <3> SUFFICES ASSUME NEW k \in 1 .. Len(r) PROVE ~Overlap(o - 1, c + 1, r[k].offset, r[k].capacity)
      BY DEF Clear
    <3>1. PICK j \in 1 .. n : r[k] = q[j] /\ j # i
      BY <2>3
    <3>2. /\ en[j] \in Nat /\ st[j] \in Nat /\ st[j] < en[j] /\ st[i] < en[i]
          /\ (j < i => en[j] < st[i]) /\ (i < j => en[i] < st[j])
      BY <1>2, <1>3, <1>4
    <3>3. j < i \/ i < j
      BY <1>2, <3>1
    <3>4. ~(o - 1 < en[j] /\ st[j] < lo)
      <4>1. PICK x \in Nat, y \in Nat : x = st[j] /\ y = en[j]
        BY <3>2
      <4>2. (y < o \/ hi < x) /\ lo = hi
        BY <1>5, <2>10, <3>2, <3>3, <4>1
      <4>3. ~(o - 1 < y /\ x < lo)
        BY <4>2
      <4> QED BY <4>1, <4>3
    <3>5. (o - 1) + (c + 1) = lo
      BY <1>50
    <3> QED BY <1>3, <1>5, <3>1, <3>4, <3>5 DEF Overlap
  <2> QED BY <1>5, <1>7, <2>4, <2>5, <2>6 DEF r
<1>9. CASE q[i].capacity # c
  <2>1. lo < en[i]
    <3>1. c # hi - o
      BY <1>5, <1>9
    <3>2. lo < hi
      BY <1>50, <1>51, <3>1
    <3> QED BY <1>5, <3>2
  <2>2. PICK new \in Slot : new.offset = lo /\ new.capacity = en[i] - lo /\ r = ReplaceAt(q, i, new)
    <3> DEFINE new == [offset |-> q[i].offset + c, capacity |-> q[i].capacity - c]
    <3>1. r = ReplaceAt(q, i, new)
      BY <1>9 DEF Take
    <3>2. lo < hi
      BY <1>5, <2>1
    <3>3. q[i].offset + c = lo /\ q[i].capacity - c = hi - lo /\ hi - lo \in Nat \ {0}
      <4>1. (hi - o) - c = hi - lo /\ hi - lo \in Nat \ {0}
        BY <1>50, <3>2
      <4> QED BY <1>5, <1>50, <4>1
    <3>4. new \in Slot /\ new.offset = lo /\ new.capacity = en[i] - lo
      BY <1>5, <3>3 DEF Slot
    <3> HIDE DEF new, r
    <3> QED BY <3>1, <3>4
  <2> HIDE DEF r
  <2>3. r \in Seq(Slot) /\ Len(r) = n /\ r[i] = new
    <3>1. q \in Seq(Slot) /\ i \in 1 .. Len(q)
      BY <1>2
    <3>2. ReplaceAt(q, i, new) \in Seq(Slot) /\ Len(ReplaceAt(q, i, new)) = Len(q)
      BY <3>1, Exchanged
    <3>3. ReplaceAt(q, i, new)[i] = new
      BY <3>1, ExchangedHere
    <3> QED BY <1>1, <2>2, <3>1, <3>2, <3>3
  <2>4. \A k \in 1 .. n : k # i => r[k] = q[k]
    <3> SUFFICES ASSUME NEW k \in 1 .. n, k # i PROVE r[k] = q[k]
      OBVIOUS
    <3>0. q \in Seq(Slot) /\ i \in 1 .. Len(q) /\ k \in 1 .. Len(q)
      BY <1>1, <1>2
    <3>1. ReplaceAt(q, i, new)[k] = IF k = i THEN new ELSE q[k]
      BY <3>0, ExchangedAt, SMTT(20)
    <3>2. ReplaceAt(q, i, new)[k] = q[k]
      BY <3>1, Zenon
    <3> QED BY <2>2, <3>2, Zenon
  <2>5. new.offset + new.capacity = en[i] /\ en[i] \in Nat
    <3>1. en[i] \in Nat
      BY <1>2
    <3> QED BY <2>2, <3>1
  <2>6. Around(q, r, i, 0, tot)
    <3>1. ASSUME NEW k \in 1 .. Len(r), k < i
          PROVE  r[k] = q[k] /\ q[k].offset + q[k].capacity < r[i].offset
      <4>1. k \in 1 .. n /\ k # i /\ en[k] < st[i] /\ en[k] \in Nat
        BY <1>2, <1>4, <2>3, <3>1
      <4>2. en[k] < lo
        <5>1. PICK y \in Nat : y = en[k]
          BY <4>1
        <5>2. y < o
          BY <1>5, <4>1, <5>1
        <5>3. y < lo
          BY <1>51, <5>2
        <5> QED BY <5>1, <5>3
      <4> QED BY <1>3, <2>2, <2>3, <2>4, <4>1, <4>2
    <3>2. ASSUME NEW k \in 1 .. Len(r), k > i
          PROVE  r[k] = q[k + 0] /\ r[i].offset + r[i].capacity < q[k + 0].offset
      <4>1. k \in 1 .. n /\ k # i /\ en[i] < st[k] /\ k + 0 = k
        BY <1>2, <1>4, <2>3, <3>2
      <4> QED BY <1>3, <2>3, <2>4, <2>5, <4>1
    <3>3. r[i].offset + r[i].capacity <= tot /\ Len(q) = Len(r) + 0
      BY <1>1, <1>2, <1>4, <2>3, <2>5
    <3> QED BY <3>1, <3>2, <3>3 DEF Around
  <2>7. Tidy(r, tot)
    <3>1. 0 \in -1 .. 1 /\ i \in 1 .. Len(r)
      BY <1>2, <2>3
    <3> QED BY <2>3, <2>6, <3>1, TidyAround
  <2>8. ASSUME NEW a \in Int, NEW m \in Nat \ {0}, Clear(q, a, m) PROVE Clear(r, a, m)
    <3> SUFFICES ASSUME NEW k \in 1 .. Len(r) PROVE ~Overlap(a, m, r[k].offset, r[k].capacity)
      BY DEF Clear
    <3>1. CASE k = i
      <4>1. en[i] <= a \/ a + m <= st[i]
        BY <1>2, <1>6, <2>8
      <4>2. hi <= a \/ a + m <= o
        BY <1>5, <1>51, <4>1
      <4>3. ~(a < hi /\ lo < a + m)
        BY <1>51, <4>2
      <4> QED BY <1>5, <1>50, <1>51, <2>2, <2>3, <2>5, <3>1, <4>3 DEF Overlap
    <3>2. CASE k # i
      BY <1>1, <2>3, <2>4, <2>8, <3>2 DEF Clear
    <3> QED BY <3>1, <3>2
  <2>9. Clear(r, o - 1, c + 1)
    <3> SUFFICES ASSUME NEW k \in 1 .. Len(r) PROVE ~Overlap(o - 1, c + 1, r[k].offset, r[k].capacity)
      BY DEF Clear
    <3>1. CASE k = i
      <4>1. ~(lo < (o - 1) + (c + 1))
        BY <1>50
      <4> QED BY <2>2, <2>3, <3>1, <4>1 DEF Overlap
    <3>2. CASE k # i
      <4>1. k \in 1 .. n /\ r[k] = q[k]
        BY <2>3, <2>4, <3>2
      <4>2. /\ en[k] \in Nat /\ st[k] \in Nat /\ st[k] < en[k] /\ st[i] < en[i]
            /\ (k < i => en[k] < st[i]) /\ (i < k => en[i] < st[k])
        BY <1>2, <1>3, <1>4, <4>1
      <4>3. k < i \/ i < k
        BY <1>2, <3>2, <4>1
      <4>4. ~(o - 1 < en[k] /\ st[k] < lo)
        <5>1. PICK x \in Nat, y \in Nat : x = st[k] /\ y = en[k]
          BY <4>2
        <5>2. y < o \/ hi < x
          BY <1>5, <4>2, <4>3, <5>1
        <5>3. ~(o - 1 < y /\ x < lo)
          BY <1>51, <5>2
        <5> QED BY <5>1, <5>3
      <4>5. (o - 1) + (c + 1) = lo
        BY <1>50
      <4> QED BY <1>3, <1>5, <4>1, <4>4, <4>5 DEF Overlap
    <3> QED BY <3>1, <3>2
  <2> QED BY <1>5, <1>7, <2>7, <2>8, <2>9 DEF r
<1> QED BY <1>8, <1>9

(* update_totsize: the new bytes are free, whatever the last slot was, and *)
(* every slot still begins where it began.                                 *)
LEMMA EnlargedKeeps ==
  ASSUME NEW q, NEW tot \in Nat, Tidy(q, tot), NEW top \in Nat, tot < top
  PROVE  /\ Tidy(Enlarged(q, tot, top), top)
         /\ \E k \in 1 .. Len(Enlarged(q, tot, top)) : Enlarged(q, tot, top)[k].capacity >= top - tot
         /\ \A a \in Int, m \in Nat \ {0} :
              Clear(q, a, m) /\ a + m <= tot => Clear(Enlarged(q, tot, top), a, m)
         /\ \A k \in 1 .. Len(q) : \E l \in 1 .. Len(Enlarged(q, tot, top)) :
              /\ Enlarged(q, tot, top)[l].offset = q[k].offset
              /\ q[k].capacity <= Enlarged(q, tot, top)[l].capacity
<1> DEFINE r == Enlarged(q, tot, top)
<1>1. PICK n \in Nat : n = Len(q)
  BY SlotTypes DEF Tidy
<1>2. q \in Seq(Slot)
  BY DEF Tidy
<1>3. PICK st \in [1 .. n -> Nat], en \in [1 .. n -> Nat] : \A k \in 1 .. n :
        /\ st[k] = q[k].offset /\ en[k] = q[k].offset + q[k].capacity
        /\ st[k] < en[k] /\ q[k].capacity = en[k] - st[k]
  BY <1>1, <1>2, SlotEnds
<1>4. /\ \A j, k \in 1 .. n : j < k => en[j] < st[k]
      /\ \A k \in 1 .. n : en[k] <= tot
  BY <1>1, <1>3 DEF Tidy
<1>5. Tidy(q, top)
  <2>1. ASSUME NEW k \in 1 .. n PROVE en[k] <= top
    <3>1. en[k] <= tot /\ en[k] \in Nat
      BY <1>4
    <3> QED BY <3>1
  <2>2. \A k \in 1 .. Len(q) : q[k].offset + q[k].capacity <= top
    BY <1>1, <1>3, <2>1
  <2> QED BY <2>2 DEF Tidy
<1>6. ASSUME NEW a \in Int, NEW m \in Nat \ {0}, Clear(q, a, m), NEW k \in 1 .. n
      PROVE  en[k] <= a \/ a + m <= st[k]
  <2>1. ~(a < en[k] /\ st[k] < a + m)
    BY <1>1, <1>3, <1>6 DEF Clear, Overlap
  <2>2. en[k] \in Nat /\ st[k] \in Nat
    OBVIOUS
  <2> QED BY <2>1, <2>2
<1>7. CASE q # << >> /\ Last(q).offset + Last(q).capacity = tot
  <2>1. n \in 1 .. n /\ q[n] = Last(q)
    <3>1. n # 0
      BY <1>1, <1>2, <1>7, EmptySeq
    <3> QED BY <1>1, <3>1 DEF Last
  <2>2. /\ en[n] = tot /\ st[n] \in Nat /\ st[n] < tot
        /\ q[n].offset = st[n] /\ q[n].capacity = tot - st[n]
    BY <1>3, <1>7, <2>1
  <2>3. PICK new \in Slot :
          /\ new.offset = st[n] /\ new.capacity = top - st[n] /\ r = ReplaceAt(q, n, new)
    <3> DEFINE new == [Last(q) EXCEPT !.capacity = @ + top - tot]
    <3>1. r = ReplaceAt(q, n, new)
      BY <1>1, <1>7 DEF Enlarged
    <3>2. new = [offset |-> q[n].offset, capacity |-> q[n].capacity + top - tot]
      <4>1. q[n] \in [offset : Nat, capacity : Nat \ {0}]
        BY <1>1, <1>2, <2>1, SlotTypes DEF Slot
      <4> QED BY <2>1, <4>1
    <3>3. q[n].capacity + top - tot = top - st[n] /\ top - st[n] \in Nat \ {0}
      BY <2>2
    <3>4. new \in Slot /\ new.offset = st[n] /\ new.capacity = top - st[n]
      BY <2>2, <3>2, <3>3 DEF Slot
    <3> HIDE DEF new, r
    <3> QED BY <3>1, <3>4
  <2> HIDE DEF r
  <2>4. n \in 1 .. Len(q) /\ q \in Seq(Slot)
    BY <1>1, <1>2, <2>1
  <2>5. r \in Seq(Slot) /\ Len(r) = n
    <3>1. ReplaceAt(q, n, new) \in Seq(Slot) /\ Len(ReplaceAt(q, n, new)) = Len(q)
      BY <2>4, Exchanged
    <3> QED BY <1>1, <2>3, <3>1
  <2>6. \A k \in 1 .. n : r[k] = IF k = n THEN new ELSE q[k]
    <3> SUFFICES ASSUME NEW k \in 1 .. Len(q)
                 PROVE  ReplaceAt(q, n, new)[k] = IF k = n THEN new ELSE q[k]
      BY <1>1, <2>3
    <3> QED BY <2>4, ExchangedAt
  <2>7. r[n] = new /\ r[n].offset = st[n] /\ r[n].capacity = top - st[n]
    BY <2>1, <2>3, <2>6
  <2>8. r[n].offset + r[n].capacity = top
    BY <2>2, <2>7
  <2>9. Around(q, r, n, 0, top)
    <3>1. ASSUME NEW k \in 1 .. Len(r), k < n
          PROVE  r[k] = q[k] /\ q[k].offset + q[k].capacity < r[n].offset
      <4>1. k \in 1 .. n /\ k # n /\ en[k] < st[n]
        BY <1>4, <2>1, <2>5, <3>1
      <4> QED BY <1>3, <2>6, <2>7, <4>1
    <3>2. \A k \in 1 .. Len(r) : ~(k > n)
      BY <2>5
    <3>3. r[n].offset + r[n].capacity <= top /\ Len(q) = Len(r) + 0
      BY <1>1, <2>5, <2>8
    <3> QED BY <3>1, <3>2, <3>3 DEF Around
  <2>10. Tidy(r, top)
    <3>1. 0 \in -1 .. 1 /\ n \in 1 .. Len(r)
      BY <2>1, <2>5
    <3> QED BY <1>5, <2>5, <2>9, <3>1, TidyAround
  <2>11. n \in 1 .. Len(r) /\ r[n].capacity >= top - tot
    BY <2>1, <2>2, <2>5, <2>7
  <2>12. ASSUME NEW a \in Int, NEW m \in Nat \ {0}, Clear(q, a, m), a + m <= tot
         PROVE  Clear(r, a, m)
    <3> SUFFICES ASSUME NEW k \in 1 .. Len(r) PROVE ~Overlap(a, m, r[k].offset, r[k].capacity)
      BY DEF Clear
    <3>1. CASE k = n
      <4>1. en[n] <= a \/ a + m <= st[n]
        BY <1>6, <2>1, <2>12
      <4>2. ~(st[n] < a + m)
        BY <2>2, <2>12, <4>1
      <4> QED BY <2>7, <3>1, <4>2 DEF Overlap
    <3>2. CASE k # n
      BY <1>1, <2>5, <2>6, <2>12, <3>2 DEF Clear
    <3> QED BY <3>1, <3>2
  <2>13. ASSUME NEW k \in 1 .. Len(q)
         PROVE  k \in 1 .. Len(r) /\ r[k].offset = q[k].offset /\ q[k].capacity <= r[k].capacity
    <3>1. k \in 1 .. n /\ k \in 1 .. Len(r) /\ q[k].capacity \in Nat
      BY <1>1, <1>2, <2>5, SlotTypes
    <3>2. CASE k = n
      <4>1. tot - st[n] <= top - st[n]
        BY <2>2
      <4> QED BY <2>2, <2>7, <3>1, <3>2, <4>1
    <3>3. CASE k # n
      BY <2>6, <3>1, <3>3, SMTT(30)
    <3> QED BY <3>2, <3>3
  <2> QED BY <2>10, <2>11, <2>12, <2>13 DEF r
<1>8. CASE ~(q # << >> /\ Last(q).offset + Last(q).capacity = tot)
  <2>1. \A k \in 1 .. n : en[k] < tot
    <3> SUFFICES ASSUME NEW k \in 1 .. n PROVE en[k] < tot
      OBVIOUS
    <3>1. q # << >> /\ Last(q) = q[n] /\ n \in 1 .. n
      BY <1>1, EmptySeq DEF Last
    <3>2. en[n] # tot /\ en[n] <= tot /\ en[n] \in Nat /\ en[k] \in Nat
      BY <1>3, <1>4, <1>8, <3>1
    <3>3. k < n => en[k] < st[n] /\ st[n] < en[n] /\ st[n] \in Nat
      BY <1>3, <1>4, <3>1
    <3>4. k = n \/ k < n
      OBVIOUS
    <3> QED BY <3>2, <3>3, <3>4
  <2>2. PICK new \in Slot :
          /\ new.offset = tot /\ new.capacity = top - tot /\ r = Append(q, new)
    <3> DEFINE new == [offset |-> tot, capacity |-> top - tot]
    <3>1. r = Append(q, new)
      BY <1>8 DEF Enlarged
    <3>2. new \in Slot
      BY DEF Slot
    <3> QED BY <3>1, <3>2
  <2> HIDE DEF r
  <2>3. /\ r \in Seq(Slot) /\ Len(r) = n + 1 /\ r[n + 1] = new
        /\ \A k \in 1 .. n : r[k] = q[k]
    BY <1>1, <1>2, <2>2, AppendProperties
  <2>4. n + 1 \in 1 .. Len(r) /\ r[n+1].offset = tot /\ r[n+1].capacity = top - tot
    BY <2>2, <2>3
  <2>5. r[n+1].offset + r[n+1].capacity = top
    BY <2>4
  <2>6. Around(q, r, n + 1, -1, top)
    <3>1. ASSUME NEW k \in 1 .. Len(r), k < n + 1
          PROVE  r[k] = q[k] /\ q[k].offset + q[k].capacity < r[n+1].offset
      <4>1. k \in 1 .. n
        BY <2>3, <3>1
      <4> QED BY <1>3, <2>1, <2>3, <2>4, <4>1
    <3>2. \A k \in 1 .. Len(r) : ~(k > n + 1)
      BY <2>3
    <3>3. r[n+1].offset + r[n+1].capacity <= top /\ Len(q) = Len(r) + (-1)
      BY <1>1, <2>3, <2>5
    <3> QED BY <3>1, <3>2, <3>3 DEF Around
  <2>7. Tidy(r, top)
    <3>1. -1 \in -1 .. 1
      OBVIOUS
    <3> QED BY <1>5, <2>3, <2>4, <2>6, <3>1, TidyAround
  <2>8. ASSUME NEW a \in Int, NEW m \in Nat \ {0}, Clear(q, a, m), a + m <= tot
        PROVE  Clear(r, a, m)
    <3> SUFFICES ASSUME NEW k \in 1 .. Len(r) PROVE ~Overlap(a, m, r[k].offset, r[k].capacity)
      BY DEF Clear
    <3>1. CASE k = n + 1
      <4>1. ~(tot < a + m)
        BY <2>8
      <4> QED BY <2>4, <3>1, <4>1 DEF Overlap
    <3>2. CASE k # n + 1
      <4>1. k \in 1 .. n
        BY <2>3, <3>2
      <4> QED BY <1>1, <2>3, <2>8, <4>1 DEF Clear
    <3> QED BY <3>1, <3>2
  <2>9. ASSUME NEW k \in 1 .. Len(q)
        PROVE  k \in 1 .. Len(r) /\ r[k].offset = q[k].offset /\ q[k].capacity <= r[k].capacity
    <3>1. k \in 1 .. n /\ k \in 1 .. Len(r) /\ q[k].capacity \in Nat
      BY <1>1, <1>2, <2>3, SlotTypes
    <3>2. r[k] = q[k]
      BY <2>3, <3>1
    <3> QED BY <3>1, <3>2
  <2>10. \E k \in 1 .. Len(r) : r[k].capacity >= top - tot
    BY <2>4
  <2>11. \A k \in 1 .. Len(q) : \E l \in 1 .. Len(r) :
           r[l].offset = q[k].offset /\ q[k].capacity <= r[l].capacity
    BY <2>9
  <2> QED BY <2>7, <2>8, <2>10, <2>11 DEF r
<1> QED BY <1>7, <1>8

(* What allocate_slot gives: c bytes that were free, and no others, from   *)
(* the beginning of a slot, so that no slot is left that comes up to them. *)
Allocated(a, q, tot, c) ==
  /\ a.offset \in Nat /\ a.totsize \in Nat /\ tot <= a.totsize /\ a.offset + c <= a.totsize
  /\ Tidy(a.slots, a.totsize) /\ Clear(a.slots, a.offset - 1, c + 1)
  /\ \A k \in 1 .. Len(q) :
       ~(q[k].offset < a.offset /\ a.offset < q[k].offset + q[k].capacity)
  /\ \A b \in Int, m \in Nat \ {0} :
       Clear(q, b, m) /\ b + m <= tot => Clear(a.slots, b, m) /\ ~Overlap(b, m, a.offset, c)

LEMMA FirstFit ==
  ASSUME NEW q, NEW tot \in Nat, NEW c \in Nat \ {0}, Tidy(q, tot), Fitting(q, c) # {},
         NEW i, i = Smallest(Fitting(q, c))
  PROVE  /\ i \in 1 .. Len(q) /\ c <= q[i].capacity
         /\ q[i].offset \in Nat /\ q[i].offset + c <= tot
<1>1. PICK n \in Nat : n = Len(q) /\ q \in Seq(Slot)
  BY SlotTypes DEF Tidy
<1>2. Fitting(q, c) \in SUBSET Nat
  BY <1>1 DEF Fitting
<1>3. i \in Fitting(q, c)
  BY <1>2, SmallestOf
<1>4. i \in 1 .. Len(q) /\ q[i].capacity >= c
  BY <1>3 DEF Fitting
<1>5. /\ q[i].offset \in Nat /\ q[i].capacity \in Nat
      /\ q[i].offset + q[i].capacity <= tot
  BY <1>1, <1>4, SlotTypes DEF Tidy
<1>6. PICK o \in Nat, m \in Nat : o = q[i].offset /\ m = q[i].capacity
  BY <1>5
<1>7. m >= c /\ o + m <= tot
  BY <1>4, <1>5, <1>6
<1>8. o + c <= tot
  BY <1>7
<1> QED BY <1>4, <1>6, <1>7, <1>8

LEMMA AllocateKeeps ==
  ASSUME NEW q, NEW tot \in Nat, Tidy(q, tot), NEW c \in Nat \ {0}
  PROVE  Allocated(AllocateSlot(q, tot, c), q, tot, c)
<1> DEFINE tot2 == IF Fitting(q, c) = {} THEN NewTotsize(tot, c) ELSE tot
           q2   == IF Fitting(q, c) = {} THEN Enlarged(q, tot, tot2) ELSE q
           i    == Smallest(Fitting(q2, c))
<1>1. AllocateSlot(q, tot, c) = [offset |-> q2[i].offset, slots |-> Take(q2, i, c), totsize |-> tot2]
  BY DEF AllocateSlot
<1>2. /\ tot2 \in Nat /\ tot <= tot2 /\ Tidy(q2, tot2) /\ Fitting(q2, c) # {}
      /\ \A b \in Int, m \in Nat \ {0} : Clear(q, b, m) /\ b + m <= tot => Clear(q2, b, m)
      /\ \A k \in 1 .. Len(q) : \E l \in 1 .. Len(q2) :
           q2[l].offset = q[k].offset /\ q[k].capacity <= q2[l].capacity
  <2>1. CASE Fitting(q, c) # {}
    <3>1. \A k \in 1 .. Len(q) : q[k].capacity \in Nat
      BY SlotTypes DEF Tidy
    <3> QED BY <2>1, <3>1
  <2>2. CASE Fitting(q, c) = {}
    <3> DEFINE x == IF tot = 0 THEN 32 ELSE tot * 2
    <3>1. x \in Nat \ {0} /\ tot + c \in Nat
      OBVIOUS
    <3>2. NewTotsize(tot, c) = Doubled(x, tot + c)
      BY DEF NewTotsize
    <3> HIDE DEF x
    <3>3. Doubled(x, tot + c) \in Nat /\ Doubled(x, tot + c) >= tot + c
      BY <3>1, Doubling
    <3>4. PICK top \in Nat : top = tot2 /\ top >= tot + c
      BY <2>2, <3>2, <3>3
    <3>5. q2 = Enlarged(q, tot, top)
      BY <2>2, <3>4
    <3> HIDE DEF tot2, q2
    <3>6. tot < top /\ top - tot >= c
      BY <3>4
    <3>7. /\ Tidy(q2, top) /\ \E k \in 1 .. Len(q2) : q2[k].capacity >= top - tot
          /\ \A b \in Int, m \in Nat \ {0} : Clear(q, b, m) /\ b + m <= tot => Clear(q2, b, m)
          /\ \A k \in 1 .. Len(q) : \E l \in 1 .. Len(q2) :
               q2[l].offset = q[k].offset /\ q[k].capacity <= q2[l].capacity
      BY <3>5, <3>6, EnlargedKeeps
    <3>8. PICK k \in 1 .. Len(q2) : q2[k].capacity >= top - tot
      BY <3>7
    <3>9. q2[k].capacity \in Nat
      BY <3>7, SlotTypes DEF Tidy
    <3>10. q2[k].capacity >= c
      BY <3>6, <3>8, <3>9
    <3>11. k \in Fitting(q2, c)
      BY <3>10 DEF Fitting
    <3> QED BY <3>4, <3>6, <3>7, <3>11
  <2> QED BY <2>1, <2>2
<1> HIDE DEF tot2, q2
<1>3. /\ i \in 1 .. Len(q2) /\ c <= q2[i].capacity
      /\ q2[i].offset \in Nat /\ q2[i].offset + c <= tot2
  BY <1>2, FirstFit
<1> HIDE DEF i
<1>4. /\ Tidy(Take(q2, i, c), tot2) /\ Clear(Take(q2, i, c), q2[i].offset - 1, c + 1)
      /\ \A b \in Int, m \in Nat \ {0} :
           Clear(q2, b, m) => Clear(Take(q2, i, c), b, m) /\ ~Overlap(b, m, q2[i].offset, c)
  BY <1>2, <1>3, TakeKeeps
<1>5. ASSUME NEW b \in Int, NEW m \in Nat \ {0}, Clear(q, b, m), b + m <= tot
      PROVE  Clear(Take(q2, i, c), b, m) /\ ~Overlap(b, m, q2[i].offset, c)
  BY <1>2, <1>4, <1>5
<1>6. ASSUME NEW k \in 1 .. Len(q)
      PROVE  ~(q[k].offset < q2[i].offset /\ q2[i].offset < q[k].offset + q[k].capacity)
  <2>1. PICK l \in 1 .. Len(q2) : q2[l].offset = q[k].offset /\ q[k].capacity <= q2[l].capacity
    BY <1>2
  <2>2. q2 \in Seq(Slot) /\ Len(q2) \in Nat /\ q \in Seq(Slot)
    BY <1>2, SlotTypes DEF Tidy
  <2>3. PICK o \in Nat, m \in Nat, h \in Nat, x \in Nat, y \in Nat :
          /\ o = q[k].offset /\ m = q[k].capacity /\ h = q2[l].capacity
          /\ x = q2[i].offset /\ y = q2[i].capacity
    BY <1>3, <2>2, SlotTypes
  <2>4. l = i \/ l < i \/ i < l
    BY <1>3, <2>2
  <2>5. o = x \/ o + h < x \/ x + y < o
    <3>1. l < i => q2[l].offset + q2[l].capacity < q2[i].offset
      BY <1>2, <1>3 DEF Tidy
    <3>2. i < l => q2[i].offset + q2[i].capacity < q2[l].offset
      BY <1>2, <1>3 DEF Tidy
    <3> QED BY <2>1, <2>3, <2>4, <3>1, <3>2
  <2>6. m <= h
    BY <2>1, <2>3
  <2>7. ~(o < x /\ x < o + m)
    BY <2>5, <2>6
  <2> QED BY <2>3, <2>7
<1> QED BY <1>1, <1>2, <1>3, <1>4, <1>5, <1>6 DEF Allocated

-----------------------------------------------------------------------------
(* The lists: each in its place, no two with a byte in common.             *)

Header == [size : Nat, capacity : Nat, offset : Nat \cup {INVALID_OFFSET}]

Room(L) == L.capacity * EntrySize

Fine(L) == L \in Header /\ L.size <= L.capacity /\ (L.capacity # 0 => L.offset \in Nat)

Placed(ls, tot) ==
  /\ ls \in [ListNos -> Header]
  /\ \A no \in ListNos : Fine(ls[no]) /\ ls[no].offset + Room(ls[no]) <= tot
  /\ \A no, mo \in ListNos :
       no # mo => ~Overlap(ls[no].offset, Room(ls[no]), ls[mo].offset, Room(ls[mo]))

(* No slot has a byte of a list, nor the byte before its first: none comes *)
(* up to a list, so that the place of a list is never joined with the slot *)
(* before it.                                                              *)
OffSlots(ls, q) ==
  \A no \in ListNos : /\ Clear(q, ls[no].offset - 1, Room(ls[no]) + 1)
                      /\ ls[no].capacity = 0 => ls[no].offset = INVALID_OFFSET

LEMMA Times ==
  ASSUME NEW a \in Nat, NEW b \in Nat, NEW c \in Nat, a <= b
  PROVE  a * c \in Nat /\ b * c \in Nat /\ a * c <= b * c
<1>1. PICK d \in Nat : b = a + d
  <2>1. b - a \in Nat /\ b = a + (b - a)
    OBVIOUS
  <2> QED BY <2>1
<1>2. a * c \in Nat /\ d * c \in Nat
  OBVIOUS
<1>3. b * c = a * c + d * c
  BY <1>1
<1> QED BY <1>2, <1>3

LEMMA Rooms ==
  ASSUME NEW L, Fine(L)
  PROVE  /\ L.capacity \in Nat /\ L.size \in Nat /\ L.offset \in Int /\ L.size <= L.capacity
         /\ L.capacity # 0 => L.offset \in Nat
         /\ Room(L) \in Nat /\ L.capacity * CodeSize \in Nat /\ L.capacity <= Room(L)
         /\ Room(L) = L.capacity * CodeSize + L.capacity * IdSize
         /\ L.capacity = 0 => Room(L) = 0
         /\ L.capacity # 0 => L.capacity < Room(L)
<1>1. /\ L.capacity \in Nat /\ L.size \in Nat /\ L.offset \in Int /\ L.size <= L.capacity
      /\ L.capacity # 0 => L.offset \in Nat
  BY DEF Fine, Header, INVALID_OFFSET
<1>2. PICK c \in Nat, s \in Nat \ {0} : c = L.capacity /\ s = CodeSize
  BY <1>1, CodeSizeAssumption
<1>3. c * (8 + s) = c * s + c * 8 /\ c * s \in Nat /\ c * 8 \in Nat /\ c <= c * 8
  OBVIOUS
<1>4. c * (8 + s) \in Nat /\ c <= c * (8 + s)
  BY <1>3
<1>5. (c = 0 => c * (8 + s) = 0) /\ (c # 0 => c < c * (8 + s))
  <2>1. c # 0 => c < c * 8
    OBVIOUS
  <2> QED BY <1>3, <2>1
<1> QED BY <1>1, <1>2, <1>3, <1>4, <1>5 DEF Room, EntrySize, IdSize

(* Where the codes and the ids of a list are.                              *)
LEMMA CodePlace ==
  ASSUME NEW L, Fine(L), NEW j \in 1 .. L.capacity, NEW no
  PROVE  /\ CodeItem(no, L, j).len = CodeSize /\ CodeItem(no, L, j).at \in Nat
         /\ L.offset <= CodeItem(no, L, j).at
         /\ CodeItem(no, L, j).at + CodeSize <= L.offset + L.capacity * CodeSize
         /\ \A k \in Nat : j < k => CodeItem(no, L, j).at + CodeSize <= CodeItem(no, L, k).at
<1>1. PICK c \in Nat, o \in Nat, s \in Nat \ {0} : c = L.capacity /\ o = L.offset /\ s = CodeSize
  BY Rooms, CodeSizeAssumption
<1>2. j \in 1 .. c /\ (j - 1) * s \in Nat /\ (j - 1) * s + s = j * s
  BY <1>1
<1>3. ASSUME NEW k \in Nat, j <= k PROVE j * s <= k * s
  BY <1>2, <1>3, Times
<1>4. j * s <= c * s
  BY <1>2, <1>3
<1>5. o + (j - 1) * s \in Nat /\ o <= o + (j - 1) * s /\ o + (j - 1) * s + s <= o + c * s
  <2> HIDE <1>3
  <2>1. PICK x \in Nat, y \in Int, z \in Int : x = (j - 1) * s /\ y = j * s /\ z = c * s
    BY <1>2
  <2>2. x + s = y /\ y <= z
    BY <1>2, <1>4, <2>1
  <2>3. o + x \in Nat /\ o <= o + x /\ o + x + s <= o + z
    BY <2>2
  <2> QED BY <2>1, <2>3
<1>6. ASSUME NEW k \in Nat, j < k PROVE o + (j - 1) * s + s <= o + (k - 1) * s
  <2>1. k - 1 \in Nat /\ j <= k - 1
    BY <1>2, <1>6
  <2>2. j * s <= (k - 1) * s
    BY <1>3, <2>1
  <2>3. PICK x \in Nat, y \in Int, z \in Int : x = (j - 1) * s /\ y = j * s /\ z = (k - 1) * s
    BY <1>2, <2>1
  <2>4. x + s = y /\ y <= z
    BY <1>2, <2>2, <2>3
  <2>5. o + x + s <= o + z
    BY <2>4
  <2> QED BY <2>3, <2>5
<1> QED BY <1>1, <1>5, <1>6 DEF CodeItem

LEMMA IdPlace ==
  ASSUME NEW L, Fine(L), NEW j \in 1 .. L.capacity, NEW no
  PROVE  /\ IdItem(no, L, j).len = IdSize /\ IdItem(no, L, j).at \in Nat
         /\ L.offset + L.capacity * CodeSize <= IdItem(no, L, j).at
         /\ IdItem(no, L, j).at + IdSize <= L.offset + Room(L)
<1>1. PICK c \in Nat, o \in Nat, z \in Nat : c = L.capacity /\ o = L.offset /\ z = L.capacity * CodeSize
  BY Rooms
<1>2. j \in 1 .. c /\ (j - 1) * 8 \in Nat /\ (j - 1) * 8 + 8 <= c * 8
  BY <1>1
<1>3. Room(L) = z + c * 8
  BY <1>1, Rooms DEF IdSize
<1>4. /\ o + z + (j - 1) * 8 \in Nat /\ o + z <= o + z + (j - 1) * 8
      /\ (o + z + (j - 1) * 8) + 8 <= o + (z + c * 8)
  BY <1>2
<1>5. IdItem(no, L, j).at = o + z + (j - 1) * 8 /\ IdItem(no, L, j).len = 8 /\ IdSize = 8
  BY <1>1 DEF IdItem, IdSize
<1> QED BY <1>1, <1>3, <1>4, <1>5

(* A code is inside its list, off the bytes of other lists ...             *)
LEMMA Elsewhere ==
  ASSUME NEW L, Fine(L), NEW K, Fine(K), ~Overlap(L.offset, Room(L), K.offset, Room(K)),
         NEW j \in 1 .. L.capacity, NEW k \in 1 .. K.capacity, NEW no, NEW mo,
         NEW x, x = CodeItem(mo, L, j), NEW d, d \in {CodeItem(no, K, k), IdItem(no, K, k)}
  PROVE  ~Overlap(x.at, x.len, d.at, d.len)
<1>1. PICK a \in Nat, s \in Nat \ {0} : a = x.at /\ s = x.len /\ s = CodeSize
  BY CodePlace, CodeSizeAssumption
<1>2. PICK b \in Nat, m \in Nat \ {0} : b = d.at /\ m = d.len
  <2>1. CASE d = CodeItem(no, K, k)
    BY <2>1, CodePlace, CodeSizeAssumption
  <2>2. CASE d = IdItem(no, K, k)
    BY <2>2, IdPlace DEF IdSize
  <2> QED BY <2>1, <2>2
<1>3. PICK o \in Nat, r \in Nat : o = L.offset /\ r = Room(L)
  BY Rooms
<1>4. PICK u \in Nat, v \in Nat, w \in Nat, z \in Nat :
        u = K.offset /\ v = Room(K) /\ w = K.capacity * CodeSize /\ z = K.capacity * IdSize
  BY Rooms DEF IdSize
<1>5. o <= a /\ a + s <= o + r
  <2>1. PICK y \in Nat, t \in Nat : y = L.capacity * CodeSize /\ t = L.capacity * IdSize
    BY Rooms DEF IdSize
  <2>2. o <= a /\ a + s <= o + y /\ r = y + t
    BY <1>1, <1>3, <2>1, CodePlace, Rooms
  <2> QED BY <2>2
<1>6. u <= b /\ b + m <= u + v
  <2>1. v = w + z
    BY <1>4, Rooms
  <2>2. CASE d = CodeItem(no, K, k)
    <3>1. u <= b /\ b + m <= u + w
      BY <1>2, <1>4, <2>2, CodePlace
    <3> QED BY <2>1, <3>1
  <2>3. CASE d = IdItem(no, K, k)
    <3>1. u + w <= b /\ b + m <= u + v
      BY <1>2, <1>4, <2>3, IdPlace
    <3> QED BY <3>1
  <2> QED BY <2>2, <2>3
<1>7. ~(o < u + v /\ u < o + r)
  BY <1>3, <1>4 DEF Overlap
<1>8. ~(a < b + m /\ b < a + s)
  BY <1>5, <1>6, <1>7
<1> QED BY <1>1, <1>2, <1>8 DEF Overlap

(* ... and off the other entries of its own.                               *)
LEMMA SameList ==
  ASSUME NEW L, Fine(L), NEW j \in 1 .. L.capacity, NEW k \in 1 .. L.capacity, NEW no,
         NEW x, x = CodeItem(no, L, j), NEW d,
         d = IdItem(no, L, k) \/ (j # k /\ d = CodeItem(no, L, k))
  PROVE  ~Overlap(x.at, x.len, d.at, d.len)
<1>1. PICK a \in Nat, s \in Nat \ {0} : a = x.at /\ s = x.len /\ s = CodeSize
  BY CodePlace, CodeSizeAssumption
<1>2. PICK o \in Nat, w \in Nat : o = L.offset /\ w = L.capacity * CodeSize
  BY Rooms
<1>3. a + s <= o + w
  BY <1>1, <1>2, CodePlace
<1>4. CASE d = IdItem(no, L, k)
  <2>1. d.at \in Nat /\ o + w <= d.at
    BY <1>2, <1>4, IdPlace
  <2>2. ~(d.at < a + s)
    BY <1>3, <2>1
  <2> QED BY <1>1, <2>2 DEF Overlap
<1>5. CASE j # k /\ d = CodeItem(no, L, k)
  <2>1. PICK b \in Nat : b = d.at /\ d.len = s
    BY <1>1, <1>5, CodePlace
  <2>2. j \in Nat /\ k \in Nat /\ (j < k \/ k < j)
    BY <1>5, Rooms
  <2>3. a + s <= b \/ b + s <= a
    BY <1>1, <1>5, <2>1, <2>2, CodePlace
  <2>4. ~(a < b + s /\ b < a + s)
    BY <2>3
  <2> QED BY <1>1, <2>1, <2>4 DEF Overlap
<1> QED BY <1>4, <1>5

LEMMA UpdatedOthers ==
  ASSUME NEW L, Fine(L), NEW K, Fine(K), ~Overlap(L.offset, Room(L), K.offset, Room(K)),
         NEW j \in 1 .. L.capacity, NEW J \in SUBSET (1 .. K.capacity), NEW no, NEW mo,
         NEW file, CodeItem(mo, L, j) \in file
  PROVE  CodeItem(mo, L, j) \in Updated(file, no, K, J)
<1> DEFINE x == CodeItem(mo, L, j)
           ids == {IdItem(no, K, k) : k \in J}
           codes == {CodeItem(no, K, k) : k \in J}
<1>1. \A d \in ids : ~Overlap(x.at, x.len, d.at, d.len)
  BY Elsewhere
<1>2. \A d \in codes : ~Overlap(x.at, x.len, d.at, d.len)
  BY Elsewhere
<1> HIDE DEF x, ids, codes
<1>3. x \in file => x \in Memcpy(Memcpy(file, ids), codes)
  BY <1>1, <1>2 DEF Memcpy
<1> QED BY <1>3 DEF Updated, x, ids, codes

LEMMA UpdatedOwn ==
  ASSUME NEW K, Fine(K), NEW j \in 1 .. K.capacity, NEW J \in SUBSET (1 .. K.capacity),
         NEW no, NEW file, j \in J \/ CodeItem(no, K, j) \in file
  PROVE  CodeItem(no, K, j) \in Updated(file, no, K, J)
<1> DEFINE x == CodeItem(no, K, j)
           ids == {IdItem(no, K, k) : k \in J}
           codes == {CodeItem(no, K, k) : k \in J}
<1>1. CASE j \in J
  <2>1. x \in codes
    BY <1>1
  <2> HIDE DEF x, ids, codes
  <2>2. x \in Memcpy(Memcpy(file, ids), codes)
    BY <2>1 DEF Memcpy
  <2> QED BY <2>2 DEF Updated, x, ids, codes
<1>2. CASE j \notin J
  <2>1. \A d \in ids : ~Overlap(x.at, x.len, d.at, d.len)
    BY SameList
  <2>2. \A d \in codes : ~Overlap(x.at, x.len, d.at, d.len)
    BY <1>2, SameList
  <2>3. x \in file
    BY <1>2
  <2> HIDE DEF x, ids, codes
  <2>4. x \in Memcpy(Memcpy(file, ids), codes)
    BY <2>1, <2>2, <2>3 DEF Memcpy
  <2> QED BY <2>4 DEF Updated, x, ids, codes
<1> QED BY <1>1, <1>2

(* A list's codes are live.                                                *)
LEMMA LiveKeeps ==
  ASSUME NEW ls, NEW no \in DOMAIN ls, Fine(ls[no]), NEW j \in 1 .. ls[no].capacity,
         NEW file, CodeItem(no, ls[no], j) \in file
  PROVE  CodeItem(no, ls[no], j) \in Live(file, ls)
<1> DEFINE L == ls[no]
           x == CodeItem(no, L, j)
<1>1. PICK a \in Nat, s \in Nat \ {0} : a = x.at /\ s = x.len /\ s = CodeSize
  BY CodePlace, CodeSizeAssumption
<1>2. PICK o \in Nat, r \in Nat, y \in Nat, t \in Nat :
        o = L.offset /\ r = Room(L) /\ y = L.capacity * CodeSize /\ t = L.capacity * IdSize
  BY Rooms DEF IdSize
<1>3. o <= a /\ a + s <= o + y /\ r = y + t
  BY <1>1, <1>2, CodePlace, Rooms
<1>4. a < o + r /\ o < a + s
  BY <1>3
<1>5. Overlap(x.at, x.len, L.offset, L.capacity * EntrySize)
  BY <1>1, <1>2, <1>4 DEF Overlap, Room
<1> QED BY <1>5 DEF Live

(* What is written at the place of one list leaves the codes of another.   *)
LEMMA OffRange ==
  ASSUME NEW L, Fine(L), NEW j \in 1 .. L.capacity, NEW no, NEW x, x = CodeItem(no, L, j),
         NEW u \in Int, NEW v \in Nat, ~Overlap(L.offset, Room(L), u, v),
         NEW b \in Int, NEW m \in Nat, u <= b, b + m <= u + v
  PROVE  ~Overlap(x.at, x.len, b, m)
<1>1. PICK a \in Nat, s \in Nat \ {0} : a = x.at /\ s = x.len /\ s = CodeSize
  BY CodePlace, CodeSizeAssumption
<1>2. PICK o \in Nat, r \in Nat, y \in Nat, t \in Nat :
        o = L.offset /\ r = Room(L) /\ y = L.capacity * CodeSize /\ t = L.capacity * IdSize
  BY Rooms DEF IdSize
<1>3. o <= a /\ a + s <= o + y /\ r = y + t
  BY <1>1, <1>2, CodePlace, Rooms
<1>4. ~(o < u + v /\ u < o + r)
  BY <1>2 DEF Overlap
<1>5. ~(a < b + m /\ b < a + s)
  BY <1>3, <1>4
<1> QED BY <1>1, <1>5 DEF Overlap

(* Where the first n codes, and the first n ids, of a list are.            *)
LEMMA Parts ==
  ASSUME NEW N, Fine(N), NEW n \in Nat, n <= N.capacity
  PROVE  /\ n * CodeSize \in Nat /\ n * IdSize \in Nat /\ n * CodeSize <= Room(N)
         /\ N.capacity * CodeSize + n * IdSize <= Room(N)
<1>1. PICK c \in Nat, s \in Nat : c = N.capacity /\ s = CodeSize
  BY Rooms, CodeSizeAssumption
<1>2. n * s \in Nat /\ c * s \in Nat /\ n * s <= c * s
  BY <1>1, Times
<1>3. n * 8 \in Nat /\ c * 8 \in Nat /\ n * 8 <= c * 8
  BY <1>1
<1>4. Room(N) = c * s + c * 8
  BY <1>1, Rooms DEF IdSize
<1>5. PICK w \in Nat, x \in Nat, y \in Nat, z \in Nat :
        w = n * s /\ x = c * s /\ y = n * 8 /\ z = c * 8
  BY <1>2, <1>3
<1>6. w <= x + z /\ x + y <= x + z
  BY <1>2, <1>3, <1>5
<1> QED BY <1>1, <1>2, <1>3, <1>4, <1>5, <1>6 DEF IdSize

LEMMA Common ==
  ASSUME NEW K, Fine(K), NEW N, Fine(N)
  PROVE  /\ 1 .. Smallest({K.size, N.size}) \subseteq 1 .. N.capacity
         /\ \A j \in 1 .. K.size : j <= N.size => j \in 1 .. Smallest({K.size, N.size})
         /\ Smallest({K.size, N.size}) \in Nat
         /\ Smallest({K.size, N.size}) <= N.capacity /\ Smallest({K.size, N.size}) <= K.capacity
<1>1. PICK k \in Nat, n \in Nat, c \in Nat, e \in Nat :
        /\ k = K.size /\ n = N.size /\ c = N.capacity /\ n <= c
        /\ e = K.capacity /\ k <= e
  BY Rooms
<1>2. {k, n} \in SUBSET Nat /\ {k, n} # {}
  OBVIOUS
<1>3. PICK m \in Nat : m = Smallest({k, n}) /\ (m = k \/ m = n) /\ m <= k /\ m <= n
  BY <1>2, SmallestOf
<1>4. \A j \in 1 .. k : j <= n => j \in 1 .. m
  BY <1>3
<1>5. 1 .. m \subseteq 1 .. c
  BY <1>1, <1>3
<1>6. m <= c /\ m <= e
  BY <1>1, <1>3
<1> QED BY <1>1, <1>3, <1>4, <1>5, <1>6

(* The copy to a new place keeps the codes of the other lists ...          *)
LEMMA CopiedOthers ==
  ASSUME NEW L, Fine(L), NEW K, Fine(K), NEW N, Fine(N),
         ~Overlap(L.offset, Room(L), N.offset, Room(N)),
         NEW j \in 1 .. L.capacity, NEW no, NEW mo, NEW file, CodeItem(mo, L, j) \in file
  PROVE  CodeItem(mo, L, j) \in Copied(file, no, K, N)
<1> DEFINE x == CodeItem(mo, L, j)
           n == Smallest({K.size, N.size})
           ids(M) == M.offset + M.capacity * CodeSize
           codes == {CodeItem(no, N, k) : k \in {k \in 1 .. n : CodeItem(no, K, k) \in file}}
           file2 == CopiedWithin(file, K.offset, N.offset, n * CodeSize, codes)
           moved == {IdItem(no, N, k) : k \in {k \in 1 .. n : IdItem(no, K, k) \in file2}}
<1>1. /\ Copied(file, no, K, N) = IF K.offset = N.offset \/ n = 0 THEN file
                                  ELSE CopiedWithin(file2, ids(K), ids(N), n * IdSize, moved)
  BY DEF Copied
<1>2. n \in Nat /\ n <= N.capacity
  BY Common
<1> HIDE DEF n
<1>3. CASE n = 0
  BY <1>1, <1>3
<1>4. CASE n # 0
  <2>1. /\ n * CodeSize \in Nat /\ n * IdSize \in Nat /\ n * CodeSize <= Room(N)
        /\ N.capacity * CodeSize + n * IdSize <= Room(N)
    BY <1>2, Parts
  <2>2. PICK o \in Nat, r \in Nat, y \in Nat, d \in Nat, e \in Nat :
          /\ o = N.offset /\ r = Room(N) /\ y = N.capacity * CodeSize
          /\ d = n * CodeSize /\ e = n * IdSize
    <3>1. N.capacity # 0
      BY <1>2, <1>4, Rooms
    <3> QED BY <2>1, <3>1, Rooms
  <2>3. o + d <= o + r /\ o <= o + y /\ (o + y) + e <= o + r
    BY <2>1, <2>2
  <2>4. ~Overlap(x.at, x.len, o, d)
    BY <2>2, <2>3, OffRange
  <2>5. ~Overlap(x.at, x.len, o + y, e)
    BY <2>2, <2>3, OffRange
  <2> HIDE DEF x, codes
  <2>6. x \in file2
    <3>1. x \in file
      BY DEF x
    <3> QED BY <2>2, <2>4, <3>1 DEF CopiedWithin
  <2> HIDE DEF file2, moved
  <2>7. x \in CopiedWithin(file2, ids(K), ids(N), n * IdSize, moved)
    BY <2>2, <2>5, <2>6 DEF CopiedWithin
  <2>8. x \in file
    BY DEF x
  <2> QED BY <1>1, <2>7, <2>8 DEF x
<1> QED BY <1>3, <1>4

(* ... and the codes of the entries both sizes have, when the new place is *)
(* the old one or has no byte in common with it.                           *)
LEMMA CopiedOwn ==
  ASSUME NEW K, Fine(K), NEW N, Fine(N), NEW j \in 1 .. K.size, j <= N.size,
         N.offset = K.offset \/ ~Overlap(K.offset, Room(K), N.offset, Room(N)),
         NEW no, NEW file, CodeItem(no, K, j) \in file
  PROVE  CodeItem(no, N, j) \in Copied(file, no, K, N)
<1> DEFINE x == CodeItem(no, N, j)
           n == Smallest({K.size, N.size})
           ids(M) == M.offset + M.capacity * CodeSize
           codes == {CodeItem(no, N, k) : k \in {k \in 1 .. n : CodeItem(no, K, k) \in file}}
           file2 == CopiedWithin(file, K.offset, N.offset, n * CodeSize, codes)
           moved == {IdItem(no, N, k) : k \in {k \in 1 .. n : IdItem(no, K, k) \in file2}}
<1>1. /\ Copied(file, no, K, N) = IF K.offset = N.offset \/ n = 0 THEN file
                                  ELSE CopiedWithin(file2, ids(K), ids(N), n * IdSize, moved)
  BY DEF Copied
<1>2. n \in Nat /\ n <= N.capacity /\ n <= K.capacity /\ j \in 1 .. n
  BY Common
<1> HIDE DEF n
<1>3. CASE K.offset = N.offset
  <2>1. CodeItem(no, N, j) = CodeItem(no, K, j)
    BY <1>3 DEF CodeItem
  <2> QED BY <1>1, <1>3, <2>1
<1>4. CASE K.offset # N.offset
  <2>1. /\ n * CodeSize \in Nat /\ n * CodeSize <= Room(N) /\ n * CodeSize <= Room(K)
        /\ n * IdSize \in Nat
    BY <1>2, Parts
  <2>2. PICK o \in Nat, r \in Nat, b \in Nat, m \in Nat, y \in Nat, d \in Nat, e \in Nat :
          /\ o = K.offset /\ r = Room(K) /\ b = N.offset /\ m = Room(N)
          /\ y = N.capacity * CodeSize /\ d = n * CodeSize /\ e = n * IdSize
    <3>1. N.capacity # 0 /\ K.capacity # 0
      BY <1>2, Rooms
    <3> QED BY <2>1, <3>1, Rooms
  <2>3. ~Overlap(o, d, b, d)
    <3>1. ~(o < b + m /\ b < o + r) /\ d <= m /\ d <= r
      BY <1>4, <2>1, <2>2 DEF Overlap
    <3>2. ~(o < b + d /\ b < o + d)
      BY <3>1
    <3> QED BY <3>2 DEF Overlap
  <2>4. x \in codes
    BY <1>2
  <2>5. ~Overlap(x.at, x.len, b + y, e)
    <3>0. j \in 1 .. N.capacity
      BY <1>2, Rooms
    <3>1. PICK a \in Nat, s \in Nat : a = x.at /\ s = x.len /\ a + s <= b + y
      BY <2>2, <3>0, CodePlace, CodeSizeAssumption
    <3>2. ~(b + y < a + s)
      BY <3>1
    <3> QED BY <3>1, <3>2 DEF Overlap
  <2> HIDE DEF x, codes
  <2>6. x \in file2
    BY <2>2, <2>3, <2>4 DEF CopiedWithin
  <2> HIDE DEF file2, moved
  <2>7. x \in CopiedWithin(file2, ids(K), ids(N), n * IdSize, moved)
    BY <2>2, <2>5, <2>6 DEF CopiedWithin
  <2> QED BY <1>1, <1>2, <1>4, <2>7 DEF x
<1> QED BY <1>3, <1>4

-----------------------------------------------------------------------------
(* resize_locked.                                                          *)

(* One list gets a new header; the others are off its bytes.               *)
LEMMA PlacedExcept ==
  ASSUME NEW ls, NEW tot \in Nat, Placed(ls, tot), NEW no \in ListNos, NEW tot2 \in Nat,
         tot <= tot2, NEW N, Fine(N), N.offset + Room(N) <= tot2,
         \A mo \in ListNos \ {no} : ~Overlap(ls[mo].offset, Room(ls[mo]), N.offset, Room(N))
  PROVE  Placed([ls EXCEPT ![no] = N], tot2)
<1> DEFINE r == [ls EXCEPT ![no] = N]
<1>1. N \in Header /\ ls \in [ListNos -> Header]
  BY DEF Fine, Placed
<1>2. r \in [ListNos -> Header] /\ r[no] = N /\ \A mo \in ListNos \ {no} : r[mo] = ls[mo]
  BY <1>1
<1> HIDE DEF r
<1>3. ASSUME NEW mo \in ListNos PROVE Fine(r[mo]) /\ r[mo].offset + Room(r[mo]) <= tot2
  <2>1. CASE mo = no
    BY <1>2, <2>1
  <2>2. CASE mo # no
    <3>1. r[mo] = ls[mo] /\ Fine(ls[mo]) /\ ls[mo].offset + Room(ls[mo]) <= tot
      BY <1>2, <2>2 DEF Placed
    <3>2. PICK o \in Int, m \in Nat : o = ls[mo].offset /\ m = Room(ls[mo])
      BY <3>1, Rooms
    <3>3. o + m <= tot2
      BY <3>1, <3>2
    <3> QED BY <3>1, <3>2, <3>3
  <2> QED BY <2>1, <2>2
<1>4. ASSUME NEW mo \in ListNos, NEW lo \in ListNos, mo # lo
      PROVE  ~Overlap(r[mo].offset, Room(r[mo]), r[lo].offset, Room(r[lo]))
  <2>1. CASE mo = no
    <3>1. ~Overlap(ls[lo].offset, Room(ls[lo]), N.offset, Room(N)) /\ r[lo] = ls[lo] /\ r[mo] = N
      BY <1>2, <1>4, <2>1
    <3> QED BY <3>1 DEF Overlap
  <2>2. CASE lo = no
    BY <1>2, <1>4, <2>2
  <2>3. CASE mo # no /\ lo # no
    BY <1>2, <1>4, <2>3 DEF Placed
  <2> QED BY <2>1, <2>2, <2>3
<1>5. Placed(r, tot2)
  BY <1>2, <1>3, <1>4 DEF Placed
<1> QED BY <1>5 DEF r

(* A list without capacity has no byte of a slot, nor of a list.           *)
LEMMA NoBytes ==
  ASSUME NEW a \in Int, a >= -1, NEW m \in Nat
  PROVE  ~Overlap(a, m, INVALID_OFFSET, 0)
BY DEF Overlap, INVALID_OFFSET

LEMMA NoSlot ==
  ASSUME NEW q \in Seq(Slot) PROVE Clear(q, INVALID_OFFSET - 1, 0 + 1)
<1>1. ASSUME NEW b \in Nat, NEW m \in Nat PROVE ~Overlap(INVALID_OFFSET - 1, 0 + 1, b, m)
  BY DEF Overlap, INVALID_OFFSET
<1>2. \A k \in 1 .. Len(q) : q[k].offset \in Nat /\ q[k].capacity \in Nat
  BY SlotTypes
<1> QED BY <1>1, <1>2 DEF Clear

LEMMA Empty ==
  Fine(EmptyList) /\ Room(EmptyList) = 0 /\ EmptyList.offset = INVALID_OFFSET
  /\ EmptyList.size = 0 /\ EmptyList.capacity = 0
<1>1. EmptyList \in Header /\ EmptyList.capacity = 0 /\ EmptyList.size = 0
      /\ EmptyList.offset = INVALID_OFFSET
  BY DEF EmptyList, Header, INVALID_OFFSET
<1>2. Fine(EmptyList)
  BY <1>1 DEF Fine
<1> QED BY <1>1, <1>2, Rooms

(* Releasing the list's place leaves the other lists off the slots.  What  *)
(* becomes a slot, or the beginning of one, is its first capacity bytes:   *)
(* neither the byte before them nor the rest of the place is in a slot.    *)
LEMMA Released ==
  ASSUME totsize \in Nat, Placed(lists, totsize), Tidy(slots, totsize), OffSlots(lists, slots),
         NEW no \in ListNos, NEW L, L = lists[no], NEW q, q = FreeSlot(slots, L.offset, L.capacity)
  PROVE  /\ Tidy(q, totsize)
         /\ \A mo \in ListNos \ {no} : Clear(q, lists[mo].offset - 1, Room(lists[mo]) + 1)
         /\ L.capacity # 0 =>
              /\ Clear(q, L.offset - 1, 1)
              /\ Clear(q, L.offset + L.capacity, Room(L) - L.capacity)
              /\ \E k \in 1 .. Len(q) : q[k].offset = L.offset /\ L.capacity <= q[k].capacity
<1>1. Fine(L) /\ L.offset + Room(L) <= totsize
  BY DEF Placed
<1>2. CASE L.capacity = 0
  <2>1. q = slots
    BY <1>2 DEF FreeSlot
  <2> QED BY <1>2, <2>1 DEF OffSlots
<1>3. CASE L.capacity # 0
  <2>1. PICK o \in Nat, c \in Nat \ {0}, r \in Nat :
          o = L.offset /\ c = L.capacity /\ r = Room(L) /\ c < r
    BY <1>1, <1>3, Rooms
  <2>2. o + c <= totsize /\ slots \in Seq(Slot)
    BY <1>1, <2>1 DEF Tidy
  <2>3. Clear(slots, o - 1, r + 1)
    BY <2>1 DEF OffSlots
  <2>4. /\ Clear(slots, o, c) /\ Clear(slots, o - 1, c + 1)
        /\ Clear(slots, o - 1, 1) /\ Clear(slots, o + c, r - c)
    <3>1. /\ r + 1 \in Nat /\ o - 1 \in Int /\ o + c \in Int /\ r - c \in Nat /\ c + 1 \in Nat
          /\ o - 1 <= o /\ o + c <= (o - 1) + (r + 1) /\ o - 1 <= o - 1
          /\ (o - 1) + (c + 1) <= (o - 1) + (r + 1) /\ (o - 1) + 1 <= (o - 1) + (r + 1)
          /\ o - 1 <= o + c /\ (o + c) + (r - c) <= (o - 1) + (r + 1)
      BY <2>1
    <3>2. Clear(slots, o, c)
      BY <2>2, <2>3, <3>1, ClearPart
    <3>3. Clear(slots, o - 1, c + 1)
      BY <2>2, <2>3, <3>1, ClearPart
    <3>4. Clear(slots, o - 1, 1)
      BY <2>2, <2>3, <3>1, ClearPart
    <3>5. Clear(slots, o + c, r - c)
      BY <2>2, <2>3, <3>1, ClearPart
    <3> QED BY <3>2, <3>3, <3>4, <3>5
  <2>5. q = FreeSlot(slots, o, c)
    BY <2>1
  <2>6. Tidy(q, totsize) /\ Covers(slots, q, o, c)
    BY <2>2, <2>4, <2>5, FreeSlotKeeps
  <2>7. ASSUME NEW mo \in ListNos \ {no}
        PROVE  Clear(q, lists[mo].offset - 1, Room(lists[mo]) + 1)
    <3>0. Fine(lists[mo])
      BY DEF Placed
    <3>1. PICK a \in Int, m \in Nat : a = lists[mo].offset /\ m = Room(lists[mo])
      BY <3>0, Rooms
    <3>2. Clear(slots, a - 1, m + 1)
      BY <3>1 DEF OffSlots
    <3>3. ~Overlap(a, m, o, r)
      BY <2>1, <3>1 DEF Placed
    <3>4. ~Overlap(a - 1, m + 1, o, c)
      <4>1. ~(a < o + r /\ o < a + m)
        BY <3>3 DEF Overlap
      <4>2. ~(a - 1 < o + c /\ o < (a - 1) + (m + 1))
        BY <2>1, <4>1
      <4> QED BY <4>2 DEF Overlap
    <3>5. a - 1 \in Int /\ m + 1 \in Nat \ {0}
      OBVIOUS
    <3>6. Clear(q, a - 1, m + 1)
      BY <2>6, <3>2, <3>4, <3>5 DEF Covers
    <3> QED BY <3>1, <3>6
  <2>8. Clear(q, o - 1, 1)
    <3>1. ~Overlap(o - 1, 1, o, c) /\ o - 1 \in Int /\ 1 \in Nat \ {0}
      BY DEF Overlap
    <3> QED BY <2>4, <2>6, <3>1 DEF Covers
  <2>9. Clear(q, o + c, r - c)
    <3>1. ~Overlap(o + c, r - c, o, c) /\ o + c \in Int /\ r - c \in Nat \ {0}
      BY <2>1 DEF Overlap
    <3> QED BY <2>4, <2>6, <3>1 DEF Covers
  <2>10. \E k \in 1 .. Len(q) : q[k].offset = o /\ c <= q[k].capacity
    BY <2>4, <2>5, Reopened
  <2> QED BY <2>1, <2>6, <2>7, <2>8, <2>9, <2>10
<1> QED BY <1>2, <1>3

(* What allocate_slot hands out then is where the list was, or off it: the *)
(* copy of resize_locked is never between places that overlap.             *)
LEMMA NewPlace ==
  ASSUME NEW L, Fine(L), NEW tot \in Nat, L.offset + Room(L) <= tot, NEW q, Tidy(q, tot),
         L.capacity = 0 => L.offset = INVALID_OFFSET,
         L.capacity # 0 =>
           /\ Clear(q, L.offset - 1, 1)
           /\ Clear(q, L.offset + L.capacity, Room(L) - L.capacity)
           /\ \E k \in 1 .. Len(q) : q[k].offset = L.offset /\ L.capacity <= q[k].capacity,
         NEW c \in Nat \ {0}, NEW a, Allocated(a, q, tot, c)
  PROVE  a.offset = L.offset \/ ~Overlap(L.offset, Room(L), a.offset, c)
<1>1. PICK x \in Nat : x = a.offset
  BY DEF Allocated
<1>2. CASE L.capacity = 0
  <2>1. L.offset = -1 /\ Room(L) = 0
    BY <1>2, Rooms DEF INVALID_OFFSET
  <2>2. ~(x < -1 + 0)
    OBVIOUS
  <2> QED BY <1>1, <2>1, <2>2 DEF Overlap
<1>3. CASE L.capacity # 0
  <2>1. PICK o \in Nat, e \in Nat \ {0}, r \in Nat :
          o = L.offset /\ e = L.capacity /\ r = Room(L) /\ e < r
    BY <1>3, Rooms
  <2>2. Clear(q, o - 1, 1) /\ Clear(q, o + e, r - e)
    BY <1>3, <2>1
  <2>a. o + r <= tot
    BY <2>1
  <2>3. PICK k \in 1 .. Len(q) : q[k].offset = o /\ e <= q[k].capacity
    BY <1>3, <2>1
  <2>4. PICK h \in Nat : h = q[k].capacity /\ e <= h
    BY <2>3, SlotTypes DEF Tidy
  <2>5. \A b \in Int, m \in Nat \ {0} : Clear(q, b, m) /\ b + m <= tot => ~Overlap(b, m, x, c)
    BY <1>1 DEF Allocated
  <2>6. ~Overlap(o - 1, 1, x, c)
    <3>1. o - 1 \in Int /\ 1 \in Nat \ {0} /\ (o - 1) + 1 <= tot
      BY <2>a
    <3> QED BY <2>2, <2>5, <3>1
  <2>7. ~Overlap(o + e, r - e, x, c)
    <3>1. o + e \in Int /\ e < r
      BY <2>1
    <3>2. r - e \in Nat \ {0} /\ (o + e) + (r - e) = o + r
      BY <3>1
    <3> QED BY <2>2, <2>5, <2>a, <3>1, <3>2
  <2>8. ~(o < x /\ x < o + h)
    BY <1>1, <2>3, <2>4 DEF Allocated
  <2>9. ~(o - 1 < x + c /\ x < (o - 1) + 1)
    BY <2>6 DEF Overlap
  <2>b. ~(o + e < x + c /\ x < (o + e) + (r - e))
    BY <2>7 DEF Overlap
  <2>10. ASSUME o < x + c, x < o + r PROVE x = o
    <3>1. ~(x < o)
      BY <2>9, <2>10
    <3>2. ~(o + e < x + c)
      BY <2>b, <2>10
    <3>3. x < o + h
      BY <2>4, <3>2
    <3> QED BY <2>8, <3>1, <3>3
  <2> QED BY <1>1, <2>1, <2>10 DEF Overlap
<1> QED BY <1>2, <1>3

(* What resize_locked leaves behind: the lists and slots as they should be,*)
(* the other lists untouched, and the codes both sizes have.               *)
ResizedTo(r, no, n) ==
  /\ r.totsize \in Nat /\ Placed(r.lists, r.totsize) /\ Tidy(r.slots, r.totsize)
  /\ OffSlots(r.lists, r.slots)
  /\ r.lists[no].size = n /\ \A mo \in ListNos \ {no} : r.lists[mo] = lists[mo]
  /\ \A mo \in ListNos \ {no} : \A j \in 1 .. lists[mo].size :
       CodeItem(mo, lists[mo], j) \in items => CodeItem(mo, lists[mo], j) \in r.items
  /\ \A j \in 1 .. lists[no].size :
       j <= n /\ CodeItem(no, lists[no], j) \in items => CodeItem(no, r.lists[no], j) \in r.items

(* A header put in the list's place that has the bytes it had, or no bytes *)
LEMMA StaysPut ==
  ASSUME totsize \in Nat, Placed(lists, totsize), OffSlots(lists, slots), NEW no \in ListNos,
         NEW q, Tidy(q, totsize), NEW N, Fine(N), N.offset + Room(N) <= totsize,
         \A mo \in ListNos \ {no} : Clear(q, lists[mo].offset - 1, Room(lists[mo]) + 1),
         \A mo \in ListNos \ {no} :
           ~Overlap(lists[mo].offset, Room(lists[mo]), N.offset, Room(N)),
         Clear(q, N.offset - 1, Room(N) + 1), N.capacity = 0 => N.offset = INVALID_OFFSET,
         N.offset = lists[no].offset \/ N.size = 0,
         NEW r, r = [lists |-> [lists EXCEPT ![no] = N], slots |-> q, totsize |-> totsize,
                     items |-> items]
  PROVE  ResizedTo(r, no, N.size)
<1>1. Placed(r.lists, totsize)
  <2>1. totsize <= totsize
    OBVIOUS
  <2>2. Placed([lists EXCEPT ![no] = N], totsize)
    BY <2>1, PlacedExcept
  <2> QED BY <2>2
<1>2. lists \in [ListNos -> Header]
  BY DEF Placed
<1>3. r.lists[no] = N /\ \A mo \in ListNos \ {no} : r.lists[mo] = lists[mo]
  BY <1>2
<1>4. OffSlots(r.lists, q)
  <2> SUFFICES ASSUME NEW mo \in ListNos
               PROVE  /\ Clear(q, r.lists[mo].offset - 1, Room(r.lists[mo]) + 1)
                      /\ r.lists[mo].capacity = 0 => r.lists[mo].offset = INVALID_OFFSET
    BY DEF OffSlots
  <2>1. CASE mo = no
    BY <1>3, <2>1
  <2>2. CASE mo # no
    BY <1>3, <2>2 DEF OffSlots
  <2> QED BY <2>1, <2>2
<1>5. ASSUME NEW j \in 1 .. lists[no].size, j <= N.size, CodeItem(no, lists[no], j) \in items
      PROVE  CodeItem(no, N, j) \in items
  <2>1. N.size # 0
    BY <1>5
  <2>2. CodeItem(no, N, j) = CodeItem(no, lists[no], j)
    BY <2>1 DEF CodeItem
  <2> QED BY <1>5, <2>2
<1> QED BY <1>1, <1>3, <1>4, <1>5 DEF ResizedTo

LEMMA ResizeKeeps ==
  ASSUME totsize \in Nat, Placed(lists, totsize), Tidy(slots, totsize), OffSlots(lists, slots),
         NEW no \in ListNos, NEW n \in Nat
  PROVE  ResizedTo(Resized(no, n), no, n)
<1> DEFINE L     == lists[no]
           freed == FreeSlot(slots, L.offset, L.capacity)
           c     == CapacityFor(n) * EntrySize
           a     == AllocateSlot(freed, totsize, c)
           newL  == [size |-> n, capacity |-> CapacityFor(n), offset |-> a.offset]
           state(L2, q, tot, file) ==
             [lists |-> [lists EXCEPT ![no] = L2], slots |-> q, totsize |-> tot, items |-> file]
<1>1. Fine(L) /\ L \in Header /\ L.offset + Room(L) <= totsize
  BY DEF Placed, Fine
<1>2. /\ Tidy(freed, totsize)
      /\ \A mo \in ListNos \ {no} : Clear(freed, lists[mo].offset - 1, Room(lists[mo]) + 1)
      /\ L.capacity # 0 =>
           /\ Clear(freed, L.offset - 1, 1)
           /\ Clear(freed, L.offset + L.capacity, Room(L) - L.capacity)
           /\ \E k \in 1 .. Len(freed) :
                freed[k].offset = L.offset /\ L.capacity <= freed[k].capacity
  <2>1. PICK K, q : K = L /\ q = FreeSlot(slots, K.offset, K.capacity)
    OBVIOUS
  <2> QED BY <2>1, Released
<1>3. \A mo \in ListNos : Clear(slots, lists[mo].offset - 1, Room(lists[mo]) + 1)
  BY DEF OffSlots
<1>4. CASE Fits(L, n)
  <2> DEFINE N == [L EXCEPT !.size = n]
  <2>1. /\ N.size = n /\ N.capacity = L.capacity /\ N.offset = L.offset /\ N \in Header
    BY <1>1 DEF Header
  <2>2. Resized(no, n) = state(N, slots, totsize, items)
    BY <1>4 DEF Resized
  <2> HIDE DEF N
  <2>3. n <= N.capacity
    BY <1>4, <2>1 DEF Fits
  <2>4. Fine(N) /\ Room(N) = Room(L)
    BY <1>1, <2>1, <2>3 DEF Fine, Room
  <2>5. N.capacity = 0 => N.offset = INVALID_OFFSET
    BY <2>1 DEF OffSlots
  <2>6. \A mo \in ListNos \ {no} : ~Overlap(lists[mo].offset, Room(lists[mo]), N.offset, Room(N))
    BY <2>1, <2>4 DEF Placed
  <2>7. Clear(slots, N.offset - 1, Room(N) + 1) /\ N.offset + Room(N) <= totsize
    BY <1>1, <1>3, <2>1, <2>4
  <2>8. ResizedTo(state(N, slots, totsize, items), no, N.size)
    BY <1>3, <2>1, <2>4, <2>5, <2>6, <2>7, StaysPut
  <2> QED BY <2>1, <2>2, <2>8
<1>5. CASE ~Fits(L, n) /\ n = 0
  <2>1. Resized(no, n) = state(EmptyList, freed, totsize, items)
    BY <1>5 DEF Resized
  <2>2. ASSUME NEW mo \in ListNos \ {no}
        PROVE  ~Overlap(lists[mo].offset, Room(lists[mo]), EmptyList.offset, Room(EmptyList))
    <3>1. Fine(lists[mo]) /\ (lists[mo].capacity = 0 => lists[mo].offset = INVALID_OFFSET)
      BY DEF Placed, OffSlots
    <3>2. lists[mo].offset \in Int /\ lists[mo].offset >= -1 /\ Room(lists[mo]) \in Nat
      BY <3>1, Rooms DEF INVALID_OFFSET
    <3> QED BY <3>2, Empty, NoBytes
  <2>3. Clear(freed, EmptyList.offset - 1, Room(EmptyList) + 1)
    BY <1>2, Empty, NoSlot DEF Tidy
  <2>4. EmptyList.offset + Room(EmptyList) <= totsize
    BY Empty DEF INVALID_OFFSET
  <2>5. ResizedTo(state(EmptyList, freed, totsize, items), no, EmptyList.size)
    BY <1>2, <2>2, <2>3, <2>4, Empty, StaysPut
  <2> QED BY <1>5, <2>1, <2>5, Empty
<1>6. CASE ~Fits(L, n) /\ n # 0
  <2>1. Resized(no, n) = state(newL, a.slots, a.totsize, Copied(items, no, L, newL))
    BY <1>6 DEF Resized
  <2>2. CapacityFor(n) \in Nat \ {0} /\ n <= CapacityFor(n)
    <3>1. Doubled(1, n) \in Nat /\ Doubled(1, n) >= n /\ Doubled(1, n) >= 1
      BY Doubling
    <3> QED BY <3>1 DEF CapacityFor
  <2>3. c \in Nat \ {0}
    <3>1. PICK x \in Nat \ {0}, y \in Nat \ {0} : x = CapacityFor(n) /\ y = EntrySize
      BY <2>2, CodeSizeAssumption DEF EntrySize, IdSize
    <3>2. x * y \in Nat \ {0}
      OBVIOUS
    <3> QED BY <3>1, <3>2
  <2>4. Allocated(a, freed, totsize, c)
    <3> HIDE DEF freed, c
    <3> QED BY <1>2, <2>3, AllocateKeeps
  <2>5. Fine(newL) /\ Room(newL) = c /\ newL.size = n /\ newL.capacity # 0
    BY <2>2, <2>4 DEF Fine, Header, Room, Allocated
  <2>6. newL.offset = a.offset
    OBVIOUS
  <2> HIDE DEF freed, c, a, newL
  <2>7. a.totsize \in Nat /\ totsize <= a.totsize /\ newL.offset + Room(newL) <= a.totsize
    BY <2>4, <2>5, <2>6 DEF Allocated
  <2>8. ASSUME NEW mo \in ListNos \ {no}
        PROVE  /\ Clear(a.slots, lists[mo].offset - 1, Room(lists[mo]) + 1)
               /\ ~Overlap(lists[mo].offset, Room(lists[mo]), newL.offset, Room(newL))
    <3>0. Fine(lists[mo]) /\ lists[mo].offset + Room(lists[mo]) <= totsize
      BY DEF Placed
    <3>1. PICK b \in Int, m \in Nat : b = lists[mo].offset /\ m = Room(lists[mo])
      BY <3>0, Rooms
    <3>2. /\ Clear(freed, b - 1, m + 1) /\ (b - 1) + (m + 1) <= totsize
          /\ b - 1 \in Int /\ m + 1 \in Nat \ {0}
      <4>1. Clear(freed, b - 1, m + 1)
        BY <1>2, <3>1
      <4>2. b + m <= totsize
        BY <3>0, <3>1
      <4> QED BY <4>1, <4>2
    <3>3. Clear(a.slots, b - 1, m + 1) /\ ~Overlap(b - 1, m + 1, a.offset, c)
      BY <2>4, <3>2 DEF Allocated
    <3>4. PICK x \in Nat : x = a.offset
      BY <2>4 DEF Allocated
    <3>5. ~Overlap(b, m, x, c)
      <4>1. ~(b - 1 < x + c /\ x < (b - 1) + (m + 1))
        BY <3>3, <3>4 DEF Overlap
      <4>2. ~(b < x + c /\ x < b + m)
        BY <2>3, <4>1
      <4> QED BY <4>2 DEF Overlap
    <3> QED BY <2>5, <2>6, <3>1, <3>3, <3>4, <3>5
  <2> DEFINE r == state(newL, a.slots, a.totsize, Copied(items, no, L, newL))
  <2>9. r.lists = [lists EXCEPT ![no] = newL] /\ r.slots = a.slots /\ r.totsize = a.totsize
        /\ r.items = Copied(items, no, L, newL)
    OBVIOUS
  <2> HIDE DEF r
  <2>10. Placed(r.lists, r.totsize)
    BY <2>5, <2>7, <2>8, <2>9, PlacedExcept
  <2>11. r.lists[no] = newL /\ \A mo \in ListNos \ {no} : r.lists[mo] = lists[mo]
    BY <2>9 DEF Placed
  <2>12. Tidy(r.slots, r.totsize) /\ Clear(r.slots, newL.offset - 1, Room(newL) + 1)
    BY <2>4, <2>5, <2>6, <2>9 DEF Allocated
  <2>13. OffSlots(r.lists, r.slots)
    <3> SUFFICES ASSUME NEW mo \in ListNos
                 PROVE  /\ Clear(r.slots, r.lists[mo].offset - 1, Room(r.lists[mo]) + 1)
                        /\ r.lists[mo].capacity = 0 => r.lists[mo].offset = INVALID_OFFSET
      BY DEF OffSlots
    <3>1. CASE mo = no
      BY <2>5, <2>11, <2>12, <3>1
    <3>2. CASE mo # no
      BY <2>8, <2>9, <2>11, <3>2 DEF OffSlots
    <3> QED BY <3>1, <3>2
  <2>14. ASSUME NEW mo \in ListNos \ {no}, NEW j \in 1 .. lists[mo].size,
                CodeItem(mo, lists[mo], j) \in items
         PROVE  CodeItem(mo, lists[mo], j) \in r.items
    <3>1. Fine(lists[mo])
      BY DEF Placed
    <3>2. j \in 1 .. lists[mo].capacity
      BY <3>1, Rooms
    <3> QED BY <1>1, <2>5, <2>8, <2>9, <2>14, <3>1, <3>2, CopiedOthers
  <2>15. ASSUME NEW j \in 1 .. L.size, j <= n, CodeItem(no, L, j) \in items
         PROVE  CodeItem(no, newL, j) \in r.items
    <3>1. newL.offset = L.offset \/ ~Overlap(L.offset, Room(L), newL.offset, Room(newL))
      <4>1. L.capacity = 0 => L.offset = INVALID_OFFSET
        BY DEF OffSlots
      <4>2. a.offset = L.offset \/ ~Overlap(L.offset, Room(L), a.offset, c)
        BY <1>1, <1>2, <2>3, <2>4, <4>1, NewPlace
      <4> QED BY <2>5, <2>6, <4>2
    <3> QED BY <1>1, <2>5, <2>9, <2>15, <3>1, CopiedOwn
  <2>16. ResizedTo(r, no, n)
    BY <2>5, <2>7, <2>9, <2>10, <2>11, <2>12, <2>13, <2>14, <2>15 DEF ResizedTo
  <2> QED BY <2>1, <2>16 DEF r
<1> QED BY <1>4, <1>5, <1>6

-----------------------------------------------------------------------------
(***************************************************************************)
(* The inductive invariant.  Lists that merge_from_multiple filled are off *)
(* the slots no longer; the theorems are about runs that do not resize     *)
(* them.                                                                   *)
(***************************************************************************)
StorageInv ==
  /\ totsize \in Nat /\ merged \in BOOLEAN
  /\ Placed(lists, totsize) /\ Tidy(slots, totsize) /\ (~merged => OffSlots(lists, slots))
  /\ written \in [ListNos -> SUBSET Nat]
  /\ \A no \in ListNos : written[no] \subseteq 1 .. lists[no].size
  /\ CodesKept

LEMMA StorageInitially == ASSUME StorageInit PROVE StorageInv
<1>1. totsize = 0 /\ merged = FALSE /\ slots = << >> /\ items = {}
      /\ lists = [no \in ListNos |-> EmptyList] /\ written = [no \in ListNos |-> {}]
  BY DEF StorageInit
<1>2. \A no \in ListNos : Fine(lists[no]) /\ lists[no].offset + Room(lists[no]) <= 0
  BY <1>1, Empty DEF INVALID_OFFSET
<1>3. \A no, mo \in ListNos :
        no # mo => ~Overlap(lists[no].offset, Room(lists[no]), lists[mo].offset, Room(lists[mo]))
  BY <1>1, Empty, NoBytes DEF INVALID_OFFSET
<1>4. Placed(lists, totsize)
  BY <1>1, <1>2, <1>3, Empty DEF Placed, Fine
<1>5. Tidy(slots, totsize) /\ \A a, m : Clear(slots, a, m)
  BY <1>1, EmptySeq DEF Tidy, Clear
<1>6. OffSlots(lists, slots)
  BY <1>1, <1>5, Empty DEF OffSlots
<1>7. CodesKept
  BY <1>1 DEF CodesKept
<1> QED BY <1>1, <1>4, <1>5, <1>6, <1>7 DEF StorageInv

LEMMA ResizeStep ==
  ASSUME ~AddsToMerged, StorageInv, NEW no \in ListNos, NEW n \in Nat, Resize(no, n)
  PROVE  StorageInv'
<1> DEFINE r == Resized(no, n)
<1>1. ~merged /\ merged' = merged
  BY DEF Resize, MayResize, StorageInv
<1>2. ResizedTo(r, no, n)
  BY <1>1, ResizeKeeps DEF StorageInv
<1>3. lists' = r.lists /\ slots' = r.slots /\ totsize' = r.totsize
      /\ items' = Live(r.items, r.lists)
      /\ written' = [written EXCEPT ![no] = @ \cap (1 .. n)]
  BY DEF Resize
<1> HIDE DEF r
<1>4. totsize' \in Nat /\ Placed(lists, totsize)' /\ Tidy(slots, totsize)' /\ OffSlots(lists, slots)'
  BY <1>2, <1>3 DEF ResizedTo, Placed, OffSlots, Tidy, Clear
<1>5. /\ written' \in [ListNos -> SUBSET Nat] /\ written'[no] = written[no] \cap (1 .. n)
      /\ \A mo \in ListNos \ {no} : written'[mo] = written[mo]
  BY <1>3 DEF StorageInv
<1>6. \A mo \in ListNos : written'[mo] \subseteq 1 .. lists'[mo].size
  BY <1>2, <1>3, <1>5 DEF ResizedTo, StorageInv
<1>7. ASSUME NEW mo \in ListNos, NEW j \in written'[mo]
      PROVE  CodeItem(mo, lists'[mo], j) \in items'
  <2>1. Fine(lists'[mo]) /\ mo \in DOMAIN r.lists
    BY <1>2, <1>3 DEF ResizedTo, Placed
  <2>2. j \in 1 .. lists'[mo].capacity
    BY <1>6, <1>7, <2>1, Rooms
  <2>3. CodeItem(mo, lists'[mo], j) \in r.items
    <3>1. CASE mo = no
      <4>1. j \in written[no] /\ j <= n /\ j \in 1 .. lists[no].size
        BY <1>5, <1>7, <3>1 DEF StorageInv
      <4>2. CodeItem(no, lists[no], j) \in items
        BY <4>1 DEF StorageInv, CodesKept
      <4> QED BY <1>2, <1>3, <3>1, <4>1, <4>2 DEF ResizedTo
    <3>2. CASE mo # no
      <4>1. j \in written[mo] /\ j \in 1 .. lists[mo].size /\ lists'[mo] = lists[mo]
        BY <1>2, <1>3, <1>5, <1>7, <3>2 DEF StorageInv, ResizedTo
      <4>2. CodeItem(mo, lists[mo], j) \in items
        BY <4>1 DEF StorageInv, CodesKept
      <4> QED BY <1>2, <3>2, <4>1, <4>2 DEF ResizedTo
    <3> QED BY <3>1, <3>2
  <2> QED BY <1>3, <2>1, <2>2, <2>3, LiveKeeps
<1>8. CodesKept'
  BY <1>7 DEF CodesKept, CodeItem
<1> QED BY <1>1, <1>4, <1>5, <1>6, <1>8 DEF StorageInv

LEMMA AddEntriesStep ==
  ASSUME ~AddsToMerged, StorageInv, NEW no \in ListNos, NEW n \in Nat, AddEntries(no, n)
  PROVE  StorageInv'
<1>0. PICK o \in Nat : o = lists[no].size
  BY Rooms DEF StorageInv, Placed
<1> DEFINE r == Resized(no, o + n)
           J == o+1 .. o+n
<1>1. ~merged /\ merged' = merged
  BY DEF AddEntries, MayResize, StorageInv
<1>2. o + n \in Nat /\ ResizedTo(r, no, o + n)
  BY <1>1, ResizeKeeps DEF StorageInv
<1>3. lists' = r.lists /\ slots' = r.slots /\ totsize' = r.totsize
      /\ items' = Live(Updated(r.items, no, r.lists[no], J), r.lists)
      /\ written' = [written EXCEPT ![no] = @ \cup J]
  BY <1>0 DEF AddEntries
<1> HIDE DEF r
<1>4. totsize' \in Nat /\ Placed(lists, totsize)' /\ Tidy(slots, totsize)' /\ OffSlots(lists, slots)'
  BY <1>2, <1>3 DEF ResizedTo, Placed, OffSlots, Tidy, Clear
<1>50. J \subseteq 1 .. o + n /\ J \in SUBSET Nat /\ 1 .. o \subseteq 1 .. o + n
  BY <1>0
<1> HIDE DEF J
<1>5. /\ written' \in [ListNos -> SUBSET Nat] /\ written'[no] = written[no] \cup J
      /\ \A mo \in ListNos \ {no} : written'[mo] = written[mo]
  BY <1>3, <1>50 DEF StorageInv
<1>6. \A mo \in ListNos : written'[mo] \subseteq 1 .. lists'[mo].size
  <2> SUFFICES ASSUME NEW mo \in ListNos PROVE written'[mo] \subseteq 1 .. lists'[mo].size
    OBVIOUS
  <2>1. CASE mo = no
    <3>1. lists'[no].size = o + n /\ written[no] \subseteq 1 .. o
      BY <1>0, <1>2, <1>3 DEF ResizedTo, StorageInv
    <3> QED BY <1>5, <1>50, <2>1, <3>1
  <2>2. CASE mo # no
    BY <1>2, <1>3, <1>5, <2>2 DEF ResizedTo, StorageInv
  <2> QED BY <2>1, <2>2
<1>60. ASSUME NEW mo \in ListNos PROVE 1 .. lists'[mo].size \subseteq 1 .. lists'[mo].capacity
  <2>1. Fine(lists'[mo])
    BY <1>2, <1>3 DEF ResizedTo, Placed
  <2>2. lists'[mo].size \in Nat /\ lists'[mo].capacity \in Nat /\ lists'[mo].size <= lists'[mo].capacity
    BY <2>1, Rooms
  <2> QED BY <2>2
<1>61. J \in SUBSET (1 .. lists'[no].capacity)
  BY <1>5, <1>6, <1>60
<1>7. ASSUME NEW mo \in ListNos, NEW j \in written'[mo]
      PROVE  CodeItem(mo, lists'[mo], j) \in items'
  <2>1. Fine(lists'[mo]) /\ mo \in DOMAIN r.lists /\ Fine(lists'[no])
    BY <1>2, <1>3 DEF ResizedTo, Placed
  <2>2. j \in 1 .. lists'[mo].capacity
    BY <1>6, <1>60, <1>7
  <2>3. CodeItem(mo, lists'[mo], j) \in Updated(r.items, no, lists'[no], J)
    <3>1. CASE mo = no
      <4>1. CASE j \in J
        BY <1>61, <2>1, <2>2, <3>1, <4>1, UpdatedOwn
      <4>2. CASE j \notin J
        <5>1. j \in written[no] /\ j \in 1 .. lists[no].size /\ j <= o + n
          BY <1>0, <1>5, <1>50, <1>7, <3>1, <4>2 DEF StorageInv
        <5>2. CodeItem(no, lists[no], j) \in items
          BY <5>1 DEF StorageInv, CodesKept
        <5>3. CodeItem(no, lists'[no], j) \in r.items
          BY <1>2, <1>3, <5>1, <5>2 DEF ResizedTo
        <5> QED BY <1>61, <2>1, <2>2, <3>1, <5>3, UpdatedOwn
      <4> QED BY <4>1, <4>2
    <3>2. CASE mo # no
      <4>1. j \in written[mo] /\ j \in 1 .. lists[mo].size /\ lists'[mo] = lists[mo]
        BY <1>2, <1>3, <1>5, <1>7, <3>2 DEF StorageInv, ResizedTo
      <4>2. CodeItem(mo, lists[mo], j) \in items
        BY <4>1 DEF StorageInv, CodesKept
      <4>3. CodeItem(mo, lists'[mo], j) \in r.items
        BY <1>2, <3>2, <4>1, <4>2 DEF ResizedTo
      <4>4. ~Overlap(lists'[mo].offset, Room(lists'[mo]), lists'[no].offset, Room(lists'[no]))
        BY <1>2, <1>3, <3>2 DEF ResizedTo, Placed
      <4> QED BY <1>61, <2>1, <2>2, <4>3, <4>4, UpdatedOthers
    <3> QED BY <3>1, <3>2
  <2> QED BY <1>3, <2>1, <2>2, <2>3, LiveKeeps
<1>8. CodesKept'
  BY <1>7 DEF CodesKept, CodeItem
<1> QED BY <1>1, <1>4, <1>5, <1>6, <1>8 DEF StorageInv

LEMMA UpdateEntriesStep ==
  ASSUME StorageInv, NEW no \in ListNos, NEW o \in Nat, NEW n \in Nat, UpdateEntries(no, o, n)
  PROVE  StorageInv'
<1> DEFINE J == o+1 .. o+n
<1>1. /\ o + n <= lists[no].size /\ items' = Updated(items, no, lists[no], J)
      /\ written' = [written EXCEPT ![no] = @ \cup J]
      /\ UNCHANGED <<lists, slots, totsize, merged>>
  BY DEF UpdateEntries
<1>2. ASSUME NEW mo \in ListNos
      PROVE  Fine(lists[mo]) /\ 1 .. lists[mo].size \subseteq 1 .. lists[mo].capacity
  <2>1. Fine(lists[mo])
    BY DEF StorageInv, Placed
  <2>2. lists[mo].size \in Nat /\ lists[mo].capacity \in Nat /\ lists[mo].size <= lists[mo].capacity
    BY <2>1, Rooms
  <2> QED BY <2>1, <2>2
<1>3. J \subseteq 1 .. lists[no].size /\ J \in SUBSET Nat
  <2>1. PICK s \in Nat : s = lists[no].size
    BY <1>2, Rooms
  <2>2. o + n <= s
    BY <1>1, <2>1
  <2> QED BY <2>1, <2>2
<1>4. J \in SUBSET (1 .. lists[no].capacity)
  BY <1>2, <1>3
<1> HIDE DEF J
<1>5. /\ written' \in [ListNos -> SUBSET Nat] /\ written'[no] = written[no] \cup J
      /\ \A mo \in ListNos \ {no} : written'[mo] = written[mo]
  BY <1>1, <1>3 DEF StorageInv
<1>6. \A mo \in ListNos : written'[mo] \subseteq 1 .. lists[mo].size
  BY <1>3, <1>5 DEF StorageInv
<1>7. ASSUME NEW mo \in ListNos, NEW j \in written'[mo]
      PROVE  CodeItem(mo, lists[mo], j) \in Updated(items, no, lists[no], J)
  <2>1. j \in 1 .. lists[mo].capacity
    BY <1>2, <1>6, <1>7
  <2>2. CASE j \in written[mo]
    <3>1. CodeItem(mo, lists[mo], j) \in items
      BY <2>2 DEF StorageInv, CodesKept
    <3>2. CASE mo = no
      BY <1>2, <1>4, <2>1, <3>1, <3>2, UpdatedOwn
    <3>3. CASE mo # no
      <4>1. ~Overlap(lists[mo].offset, Room(lists[mo]), lists[no].offset, Room(lists[no]))
        BY <3>3 DEF StorageInv, Placed
      <4> QED BY <1>2, <1>4, <2>1, <3>1, <4>1, UpdatedOthers
    <3> QED BY <3>2, <3>3
  <2>3. CASE mo = no /\ j \in J
    BY <1>2, <1>4, <2>1, <2>3, UpdatedOwn
  <2> QED BY <1>5, <1>7, <2>2, <2>3
<1>8. CodesKept'
  BY <1>1, <1>7 DEF CodesKept, CodeItem
<1>9. Placed(lists, totsize)' /\ Tidy(slots, totsize)' /\ (~merged => OffSlots(lists, slots))'
  BY <1>1 DEF StorageInv, Placed, OffSlots, Tidy, Clear
<1> QED BY <1>1, <1>5, <1>6, <1>8, <1>9 DEF StorageInv

(* merge_from_multiple: the sums it numbers the lists with, ...            *)
LEMMA Offsets ==
  ASSUME NEW sizes \in [ListNos -> Nat],
         NEW g, g = CHOOSE h : h = [no \in 0 .. NLists |->
                      IF no = 0 THEN 0 ELSE h[no-1] + sizes[no-1] * EntrySize]
  PROVE  /\ g[0] = 0 /\ \A k \in 0 .. NLists : g[k] \in Nat
         /\ \A k \in ListNos : g[k+1] = g[k] + sizes[k] * EntrySize
         /\ \A i, k \in 0 .. NLists : i <= k => g[i] <= g[k]
<1> DEFINE Sums(h, d) == h = [no \in 0 .. d |->
                                IF no = 0 THEN 0 ELSE h[no-1] + sizes[no-1] * EntrySize]
           HasSums(d) == \E h : Sums(h, d)
<1>0. NLists \in Nat /\ NLists > 0 /\ EntrySize \in Nat
  BY NListsAssumption, CodeSizeAssumption DEF EntrySize, IdSize
<1>1. HasSums(0)
  <2> DEFINE h == [no \in 0 .. 0 |-> 0]
  <2>1. Sums(h, 0)
    OBVIOUS
  <2> HIDE DEF h, Sums
  <2> QED BY <2>1
<1>2. ASSUME NEW d \in 0 .. NLists - 1, HasSums(d) PROVE HasSums(d + 1)
  <2>1. PICK h : Sums(h, d)
    BY <1>2
  <2> DEFINE e == [no \in 0 .. d + 1 |-> IF no = d + 1 THEN h[d] + sizes[d] * EntrySize ELSE h[no]]
  <2>2. ASSUME NEW no \in 0 .. d + 1
        PROVE  e[no] = IF no = 0 THEN 0 ELSE e[no-1] + sizes[no-1] * EntrySize
    <3>1. CASE no = d + 1
      <4>1. d \in 0 .. d + 1 /\ d # d + 1 /\ no - 1 = d /\ no # 0
        BY <1>0, <3>1
      <4>2. e[no] = h[d] + sizes[d] * EntrySize /\ e[d] = h[d]
        BY <3>1, <4>1
      <4> HIDE DEF e
      <4> QED BY <4>1, <4>2
    <3>2. CASE no # d + 1 /\ no # 0
      <4>1. no \in 0 .. d /\ no - 1 \in 0 .. d + 1 /\ no - 1 # d + 1
        BY <3>2
      <4>2. e[no] = h[no] /\ e[no-1] = h[no-1]
        BY <3>2, <4>1
      <4>3. h[no] = h[no-1] + sizes[no-1] * EntrySize
        BY <2>1, <3>2, <4>1
      <4> HIDE DEF e
      <4> QED BY <3>2, <4>2, <4>3
    <3>3. CASE no # d + 1 /\ no = 0
      <4>1. e[no] = h[0] /\ h[0] = 0
        BY <2>1, <3>3
      <4> HIDE DEF e
      <4> QED BY <3>3, <4>1
    <3> QED BY <3>1, <3>2, <3>3
  <2>3. e = [no \in 0 .. d + 1 |-> e[no]]
    OBVIOUS
  <2> HIDE DEF e
  <2>4. Sums(e, d + 1)
    BY <2>2, <2>3
  <2> HIDE DEF Sums
  <2> QED BY <2>4
<1>3. HasSums(NLists)
  <2> HIDE DEF HasSums
  <2> DEFINE S == {d \in 0 .. NLists : HasSums(d)}
  <2>1. 0 \in S /\ \A d \in 0 .. NLists - 1 : d \in S => d + 1 \in S
    BY <1>0, <1>1, <1>2
  <2>2. \A d \in 0 .. NLists : d \in S
    <3> HIDE DEF S
    <3> QED BY <1>0, <2>1, Stepwise
  <2> QED BY <1>0, <2>2
<1>4. Sums(g, NLists)
  <2>1. g = CHOOSE h : Sums(h, NLists)
    OBVIOUS
  <2> HIDE DEF Sums
  <2> QED BY <1>3, <2>1
<1>5. g[0] = 0 /\ \A k \in ListNos : g[k+1] = g[k] + sizes[k] * EntrySize
  <2>1. g[0] = 0
    <3>1. 0 \in 0 .. NLists
      BY <1>0
    <3> QED BY <1>4, <3>1
  <2>2. ASSUME NEW k \in ListNos PROVE g[k+1] = g[k] + sizes[k] * EntrySize
    <3>1. k + 1 \in 0 .. NLists /\ k + 1 # 0 /\ (k + 1) - 1 = k
      BY <1>0 DEF ListNos
    <3> QED BY <1>4, <3>1
  <2> QED BY <2>1, <2>2
<1> HIDE DEF Sums, HasSums
<1>6. ASSUME NEW k \in ListNos, g[k] \in Nat
      PROVE  sizes[k] * EntrySize \in Nat /\ g[k+1] \in Nat /\ g[k] <= g[k+1]
  <2>1. PICK x \in Nat, y \in Nat : x = sizes[k] /\ y = EntrySize
    BY <1>0
  <2>2. x * y \in Nat
    OBVIOUS
  <2>3. PICK z \in Nat : z = sizes[k] * EntrySize
    BY <2>1, <2>2
  <2>4. g[k+1] = g[k] + z
    BY <1>5, <2>3
  <2> QED BY <1>6, <2>3, <2>4
<1>7. \A k \in 0 .. NLists : g[k] \in Nat
  <2> DEFINE S == {d \in 0 .. NLists : g[d] \in Nat}
  <2>1. 0 \in S /\ \A d \in 0 .. NLists - 1 : d \in S => d + 1 \in S
    BY <1>0, <1>5, <1>6 DEF ListNos
  <2>2. \A d \in 0 .. NLists : d \in S
    <3> HIDE DEF S
    <3> QED BY <1>0, <2>1, Stepwise
  <2> QED BY <2>2
<1>8. ASSUME NEW i \in 0 .. NLists PROVE \A k \in 0 .. NLists : i <= k => g[i] <= g[k]
  <2> DEFINE S == {d \in 0 .. NLists : i <= d => g[i] <= g[d]}
  <2>1. 0 \in S
    <3>1. g[0] \in Nat /\ (i <= 0 => i = 0)
      BY <1>0, <1>7
    <3> QED BY <1>0, <3>1
  <2>2. ASSUME NEW d \in 0 .. NLists - 1, d \in S PROVE d + 1 \in S
    <3>1. d + 1 \in 0 .. NLists /\ d \in ListNos /\ d \in 0 .. NLists
      BY <1>0 DEF ListNos
    <3>2. g[i] \in Nat /\ g[d] \in Nat /\ g[d+1] \in Nat /\ g[d] <= g[d+1]
      BY <1>6, <1>7, <3>1
    <3>3. CASE i <= d
      BY <2>2, <3>1, <3>2, <3>3
    <3>4. CASE ~(i <= d)
      <4>1. i <= d + 1 => i = d + 1
        BY <1>0, <3>4
      <4> QED BY <3>1, <3>2, <4>1
    <3> QED BY <3>3, <3>4
  <2>3. \A d \in 0 .. NLists : d \in S
    <3> HIDE DEF S
    <3> QED BY <1>0, <2>1, <2>2, Stepwise
  <2> QED BY <2>3
<1> QED BY <1>5, <1>7, <1>8

(* ... and the file, list after list.                                      *)
FileOf(start, ls, sizes) ==
  CHOOSE h : h = [no \in 0 .. NLists |->
                    IF no = 0 THEN start
                    ELSE Updated(h[no-1], no-1, ls[no-1], 1 .. sizes[no-1])]

LEMMA Files ==
  ASSUME NEW start, NEW ls, NEW sizes, NEW g, g = FileOf(start, ls, sizes)
  PROVE  /\ g[0] = start
         /\ \A k \in ListNos : g[k+1] = Updated(g[k], k, ls[k], 1 .. sizes[k])
<1> DEFINE Filled(h, d) == h = [no \in 0 .. d |->
                                  IF no = 0 THEN start
                                  ELSE Updated(h[no-1], no-1, ls[no-1], 1 .. sizes[no-1])]
           HasFile(d) == \E h : Filled(h, d)
<1>0. NLists \in Nat /\ NLists > 0
  BY NListsAssumption
<1>1. HasFile(0)
  <2> DEFINE h == [no \in 0 .. 0 |-> start]
  <2>1. Filled(h, 0)
    OBVIOUS
  <2> HIDE DEF h, Filled
  <2> QED BY <2>1
<1>2. ASSUME NEW d \in 0 .. NLists - 1, HasFile(d) PROVE HasFile(d + 1)
  <2>1. PICK h : Filled(h, d)
    BY <1>2
  <2> DEFINE e == [no \in 0 .. d + 1 |->
                     IF no = d + 1 THEN Updated(h[d], d, ls[d], 1 .. sizes[d]) ELSE h[no]]
  <2>2. ASSUME NEW no \in 0 .. d + 1
        PROVE  e[no] = IF no = 0 THEN start
                       ELSE Updated(e[no-1], no-1, ls[no-1], 1 .. sizes[no-1])
    <3>1. CASE no = d + 1
      <4>1. d \in 0 .. d + 1 /\ d # d + 1 /\ no - 1 = d /\ no # 0
        BY <1>0, <3>1
      <4>2. e[no] = Updated(h[d], d, ls[d], 1 .. sizes[d]) /\ e[d] = h[d]
        BY <3>1, <4>1
      <4> HIDE DEF e
      <4> QED BY <4>1, <4>2
    <3>2. CASE no # d + 1 /\ no # 0
      <4>1. no \in 0 .. d /\ no - 1 \in 0 .. d + 1 /\ no - 1 # d + 1
        BY <3>2
      <4>2. e[no] = h[no] /\ e[no-1] = h[no-1]
        BY <3>2, <4>1
      <4>3. h[no] = Updated(h[no-1], no-1, ls[no-1], 1 .. sizes[no-1])
        BY <2>1, <3>2, <4>1
      <4> HIDE DEF e
      <4> QED BY <3>2, <4>2, <4>3
    <3>3. CASE no # d + 1 /\ no = 0
      <4>1. e[no] = h[0] /\ h[0] = start
        BY <2>1, <3>3
      <4> HIDE DEF e
      <4> QED BY <3>3, <4>1
    <3> QED BY <3>1, <3>2, <3>3
  <2>3. e = [no \in 0 .. d + 1 |-> e[no]]
    OBVIOUS
  <2> HIDE DEF e
  <2>4. Filled(e, d + 1)
    BY <2>2, <2>3
  <2> HIDE DEF Filled
  <2> QED BY <2>4
<1>3. HasFile(NLists)
  <2> HIDE DEF HasFile
  <2> DEFINE S == {d \in 0 .. NLists : HasFile(d)}
  <2>1. 0 \in S /\ \A d \in 0 .. NLists - 1 : d \in S => d + 1 \in S
    BY <1>0, <1>1, <1>2
  <2>2. \A d \in 0 .. NLists : d \in S
    <3> HIDE DEF S
    <3> QED BY <1>0, <2>1, Stepwise
  <2> QED BY <1>0, <2>2
<1>4. Filled(g, NLists)
  <2>1. g = CHOOSE h : Filled(h, NLists)
    BY DEF FileOf
  <2> HIDE DEF Filled
  <2> QED BY <1>3, <2>1
<1>5. ASSUME NEW k \in ListNos PROVE g[k+1] = Updated(g[k], k, ls[k], 1 .. sizes[k])
  <2>1. k + 1 \in 0 .. NLists /\ k + 1 # 0 /\ (k + 1) - 1 = k
    BY <1>0 DEF ListNos
  <2> QED BY <1>4, <2>1
<1>6. g[0] = start
  <2>1. 0 \in 0 .. NLists
    BY <1>0
  <2> QED BY <1>4, <2>1
<1> QED BY <1>5, <1>6

LEMMA MergeStep ==
  ASSUME StorageInv, NEW sizes \in [ListNos -> Sizes], MergeFromMultiple(sizes)
  PROVE  StorageInv'
<1> DEFINE offset == CHOOSE h : h = [no \in 0 .. NLists |->
                       IF no = 0 THEN 0 ELSE h[no-1] + sizes[no-1] * EntrySize]
           file == CHOOSE h : h = [no \in 0 .. NLists |->
                     IF no = 0 THEN items
                     ELSE Updated(h[no-1], no-1, lists'[no-1], 1 .. sizes[no-1])]
           top == offset[NLists]
<1>0. sizes \in [ListNos -> Nat]
  BY SizesAssumption
<1>1. /\ totsize = 0 /\ top \in 1 .. MaxTotal
      /\ lists' = [no \in ListNos |->
                     [size |-> sizes[no], capacity |-> sizes[no], offset |-> offset[no]]]
      /\ totsize' = top /\ slots' = Enlarged(slots, totsize, top)
      /\ items' = file[NLists]
      /\ written' = [no \in ListNos |-> 1 .. sizes[no]] /\ merged' = TRUE
  BY DEF MergeFromMultiple
<1>2. /\ \A k \in 0 .. NLists : offset[k] \in Nat
      /\ \A k \in ListNos : offset[k+1] = offset[k] + sizes[k] * EntrySize
      /\ \A i, k \in 0 .. NLists : i <= k => offset[i] <= offset[k]
  <2> HIDE DEF offset
  <2>1. offset = CHOOSE h : h = [no \in 0 .. NLists |->
                       IF no = 0 THEN 0 ELSE h[no-1] + sizes[no-1] * EntrySize]
    BY DEF offset
  <2> QED BY <1>0, <2>1, Offsets
<1>3. \A k \in ListNos : file[k+1] = Updated(file[k], k, lists'[k], 1 .. sizes[k])
  <2>1. file = FileOf(items, lists', sizes)
    BY DEF FileOf
  <2> HIDE DEF file
  <2> QED BY <2>1, Files
<1> HIDE DEF offset, file
<1>4. NLists \in Nat /\ NLists > 0
  BY NListsAssumption
<1>5. ASSUME NEW k \in ListNos
      PROVE  /\ k \in 0 .. NLists /\ k + 1 \in 0 .. NLists
             /\ lists'[k].size = sizes[k] /\ lists'[k].capacity = sizes[k]
             /\ lists'[k].offset = offset[k] /\ sizes[k] \in Nat /\ offset[k] \in Nat
             /\ Fine(lists'[k]) /\ lists'[k] \in Header
  <2>1. k \in 0 .. NLists /\ k + 1 \in 0 .. NLists
    BY <1>4 DEF ListNos
  <2>2. sizes[k] \in Nat /\ offset[k] \in Nat
    BY <1>0, <1>2, <2>1
  <2>3. lists'[k] = [size |-> sizes[k], capacity |-> sizes[k], offset |-> offset[k]]
    BY <1>1
  <2> QED BY <2>1, <2>2, <2>3 DEF Fine, Header
<1>6. ASSUME NEW k \in ListNos
      PROVE  /\ Room(lists'[k]) \in Nat /\ offset[k+1] \in Nat
             /\ offset[k] + Room(lists'[k]) = offset[k+1]
  <2>1. Room(lists'[k]) = sizes[k] * EntrySize /\ Room(lists'[k]) \in Nat
    BY <1>5, Rooms DEF Room
  <2> QED BY <1>2, <1>5, <2>1
<1>7. ASSUME NEW no \in ListNos, NEW mo \in ListNos, no < mo
      PROVE  ~Overlap(lists'[no].offset, Room(lists'[no]), lists'[mo].offset, Room(lists'[mo]))
  <2>1. no + 1 <= mo
    BY <1>7 DEF ListNos
  <2>2. offset[no+1] <= offset[mo]
    BY <1>2, <1>5, <2>1
  <2>3. PICK a \in Nat, m \in Nat, b \in Nat, z \in Nat :
          /\ a = offset[no] /\ m = Room(lists'[no]) /\ b = offset[no+1] /\ a + m = b
          /\ z = offset[mo]
    BY <1>5, <1>6
  <2>4. ~(z < a + m)
    BY <2>2, <2>3
  <2> QED BY <1>5, <2>3, <2>4 DEF Overlap
<1>8. ASSUME NEW no \in ListNos, NEW mo \in ListNos, no # mo
      PROVE  ~Overlap(lists'[no].offset, Room(lists'[no]), lists'[mo].offset, Room(lists'[mo]))
  <2>1. no < mo \/ mo < no
    BY <1>8 DEF ListNos
  <2>2. CASE no < mo
    BY <1>7, <2>2
  <2>3. CASE mo < no
    <3>1. ~Overlap(lists'[mo].offset, Room(lists'[mo]), lists'[no].offset, Room(lists'[no]))
      BY <1>7, <2>3
    <3> QED BY <3>1 DEF Overlap
  <2> QED BY <2>1, <2>2, <2>3
<1>9. top \in Nat /\ 0 < top
  BY <1>1, BoundsAssumption
<1>10. ASSUME NEW k \in ListNos PROVE lists'[k].offset + Room(lists'[k]) <= top
  <2>1. NLists \in 0 .. NLists /\ k + 1 <= NLists
    BY <1>4 DEF ListNos
  <2>2. offset[k+1] <= top
    BY <1>2, <1>5, <2>1
  <2> QED BY <1>5, <1>6, <2>2
<1>11. lists' \in [ListNos -> Header]
  <2>1. \A k \in ListNos : lists'[k] \in Header
    BY <1>5
  <2> QED BY <1>1, <2>1
<1>12. Placed(lists, totsize)'
  BY <1>1, <1>5, <1>8, <1>10, <1>11 DEF Placed, Fine, Overlap, Room, Header, ListNos, EntrySize, IdSize
<1>13. Tidy(slots, totsize)'
  <2>1. Tidy(slots, totsize) /\ totsize \in Nat /\ totsize < top
    BY <1>1, <1>9 DEF StorageInv
  <2>2. Tidy(Enlarged(slots, totsize, top), top)
    BY <1>9, <2>1, EnlargedKeeps
  <2> QED BY <1>1, <2>2 DEF Tidy
<1> DEFINE Have(k) == \A no \in ListNos : no < k =>
                        \A j \in 1 .. sizes[no] : CodeItem(no, lists'[no], j) \in file[k]
<1>14. ASSUME NEW k \in ListNos, Have(k) PROVE Have(k + 1)
  <2> SUFFICES ASSUME NEW no \in ListNos, no < k + 1, NEW j \in 1 .. sizes[no]
               PROVE  CodeItem(no, lists'[no], j) \in file[k+1]
    OBVIOUS
  <2>1. file[k+1] = Updated(file[k], k, lists'[k], 1 .. sizes[k])
    BY <1>3
  <2>2. j \in 1 .. lists'[no].capacity /\ 1 .. sizes[k] \in SUBSET (1 .. lists'[k].capacity)
    BY <1>5
  <2>3. CASE no = k
    <3>1. PICK K : K = lists'[k] /\ Fine(K)
      BY <1>5
    <3>2. CodeItem(k, K, j) \in Updated(file[k], k, K, 1 .. sizes[k])
      BY <2>2, <2>3, <3>1, UpdatedOwn
    <3> QED BY <2>1, <2>3, <3>1, <3>2
  <2>4. CASE no < k
    <3>1. CodeItem(no, lists'[no], j) \in file[k]
      BY <1>14, <2>4
    <3>2. Fine(lists'[k]) /\ Fine(lists'[no])
          /\ ~Overlap(lists'[no].offset, Room(lists'[no]), lists'[k].offset, Room(lists'[k]))
      BY <1>5, <1>7, <2>4
    <3>3. PICK K, L : K = lists'[k] /\ L = lists'[no]
      OBVIOUS
    <3>4. CodeItem(no, L, j) \in Updated(file[k], k, K, 1 .. sizes[k])
      BY <2>2, <3>1, <3>2, <3>3, UpdatedOthers
    <3> QED BY <2>1, <3>3, <3>4
  <2>5. no = k \/ no < k
    BY DEF ListNos
  <2> QED BY <2>3, <2>4, <2>5
<1>15. Have(NLists)
  <2> DEFINE S == {d \in 0 .. NLists : Have(d)}
  <2>1. Have(0)
    BY DEF ListNos
  <2> HIDE DEF Have
  <2>2. 0 \in S /\ \A d \in 0 .. NLists - 1 : d \in S => d + 1 \in S
    BY <1>4, <1>14, <2>1 DEF ListNos
  <2>3. \A d \in 0 .. NLists : d \in S
    <3> HIDE DEF S
    <3> QED BY <1>4, <2>2, Stepwise
  <2> QED BY <1>4, <2>3
<1>16. CodesKept'
  <2> SUFFICES ASSUME NEW no \in ListNos, NEW j \in written'[no]
               PROVE  CodeItem(no, lists'[no], j) \in items'
    BY DEF CodesKept, CodeItem
  <2>1. no < NLists /\ j \in 1 .. sizes[no]
    BY <1>1, <1>4 DEF ListNos
  <2> QED BY <1>1, <1>15, <2>1
<1>17. /\ written' \in [ListNos -> SUBSET Nat]
       /\ \A no \in ListNos : written'[no] \subseteq 1 .. lists'[no].size
  BY <1>1, <1>5
<1> QED BY <1>1, <1>9, <1>12, <1>13, <1>16, <1>17 DEF StorageInv

LEMMA StorageStep == ASSUME ~AddsToMerged, StorageInv, [StorageNext]_storage PROVE StorageInv'
<1>1. CASE UNCHANGED storage
  BY <1>1 DEF storage, StorageInv, CodesKept, CodeItem, Placed, Tidy, OffSlots, Clear
<1>2. ASSUME NEW no \in ListNos, NEW n \in Sizes, AddEntries(no, n) PROVE StorageInv'
  BY <1>2, SizesAssumption, AddEntriesStep
<1>3. ASSUME NEW no \in ListNos, NEW n \in Sizes, Resize(no, n) PROVE StorageInv'
  BY <1>3, SizesAssumption, ResizeStep
<1>4. ASSUME NEW no \in ListNos, NEW o \in Sizes, NEW n \in Sizes, UpdateEntries(no, o, n)
      PROVE  StorageInv'
  BY <1>4, SizesAssumption, UpdateEntriesStep
<1>5. ASSUME NEW sizes \in [ListNos -> Sizes], MergeFromMultiple(sizes) PROVE StorageInv'
  BY <1>5, MergeStep
<1> QED BY <1>1, <1>2, <1>3, <1>4, <1>5 DEF StorageNext

(* The storage keeps its invariant: lists in their places, slots in order, *)
(* and the lists' codes in the file, for any number of lists, code size,   *)
(* sizes and file length.                                                  *)
THEOREM StorageInvariant == ASSUME ~AddsToMerged PROVE StorageSpec => []StorageInv
<1>1. StorageInit => StorageInv
  BY StorageInitially
<1>2. StorageInv /\ [StorageNext]_storage => StorageInv'
  BY StorageStep
<1> QED BY <1>1, <1>2, PTL DEF StorageSpec

(* No byte belongs to two lists, nor to a list and a free slot, and        *)
(* nothing lies beyond the end of the file: what resize_locked and         *)
(* allocate_slot hand out was free.                                        *)
THEOREM ListsApart == ASSUME ~AddsToMerged PROVE StorageSpec => []Apart
<1>1. ASSUME StorageInv PROVE Apart
  <2>1. \A no, mo \in ListNos :
          no # mo => ~Overlap(lists[no].offset, Bytes(no), lists[mo].offset, Bytes(mo))
    BY <1>1 DEF StorageInv, Placed, Room, Bytes
  <2>2. \A no \in ListNos : lists[no].offset + Bytes(no) <= totsize
    BY <1>1 DEF StorageInv, Placed, Room, Bytes
  <2>3. slots \in Seq(Slot)
    BY <1>1 DEF StorageInv, Tidy
  <2>4. \A i \in DOMAIN slots : slots[i].offset + slots[i].capacity <= totsize
    BY <1>1, <2>3 DEF StorageInv, Tidy
  <2>5. ~merged => SlotsFree
    <3> SUFFICES ASSUME ~merged, NEW no \in ListNos
                 PROVE  Clear(slots, lists[no].offset, Room(lists[no]))
      BY DEF SlotsFree, Clear, Room, Bytes
    <3>1. PICK a \in Int, m \in Nat : a = lists[no].offset /\ m = Room(lists[no])
      BY <1>1, Rooms DEF StorageInv, Placed
    <3>2. Clear(slots, a - 1, m + 1)
      BY <1>1, <3>1 DEF StorageInv, OffSlots
    <3>3. a - 1 \in Int /\ m + 1 \in Nat /\ a - 1 <= a /\ a + m <= (a - 1) + (m + 1)
      OBVIOUS
    <3>4. Clear(slots, a, m)
      BY <2>3, <3>2, <3>3, ClearPart
    <3> QED BY <3>1, <3>4
  <2> QED BY <2>1, <2>2, <2>4, <2>5 DEF Apart
<1> QED BY <1>1, StorageInvariant, PTL

(* The free slots stay in the order of their offsets, and no two touch.    *)
THEOREM SlotsCoalesced == ASSUME ~AddsToMerged PROVE StorageSpec => []Coalesced
<1>1. ASSUME StorageInv PROVE Coalesced
  <2> SUFFICES ASSUME NEW i \in 1 .. Len(slots) - 1
               PROVE  slots[i].offset + slots[i].capacity < slots[i+1].offset
    BY DEF Coalesced
  <2>1. Len(slots) \in Nat
    BY <1>1, SlotTypes DEF StorageInv, Tidy
  <2>2. i \in 1 .. Len(slots) /\ i + 1 \in 1 .. Len(slots) /\ i < i + 1
    BY <2>1
  <2> QED BY <1>1, <2>2 DEF StorageInv, Tidy
<1> QED BY <1>1, StorageInvariant, PTL

(* A list gives back the codes that were put into it, however it is grown, *)
(* shrunk and moved: resize_locked copies them, and no write of another    *)
(* list, nor of its own ids, reaches them.                                 *)
THEOREM CodesStay == ASSUME ~AddsToMerged PROVE StorageSpec => []CodesKept
<1>1. StorageInv => CodesKept
  BY DEF StorageInv
<1> QED BY <1>1, StorageInvariant, PTL

(* The bounds of the model's guards.                                       *)
Bounded == totsize <= MaxTotal /\ \A no \in ListNos : lists[no].size <= MaxSize

LEMMA BoundedStep ==
  ASSUME ~AddsToMerged, StorageInv, Bounded, [StorageNext]_storage PROVE Bounded'
<1>1. CASE UNCHANGED storage
  BY <1>1 DEF storage, Bounded
<1>2. ASSUME NEW no \in ListNos, NEW n \in Nat, n <= MaxSize, ~merged,
             totsize' = Resized(no, n).totsize, lists' = Resized(no, n).lists,
             InBounds(Resized(no, n))
      PROVE  Bounded'
  <2>1. ResizedTo(Resized(no, n), no, n)
    BY <1>2, ResizeKeeps DEF StorageInv
  <2>2. lists'[no].size = n /\ \A mo \in ListNos \ {no} : lists'[mo] = lists[mo]
    BY <1>2, <2>1 DEF ResizedTo
  <2> QED BY <1>2, <2>2 DEF Bounded, InBounds
<1>3. ASSUME NEW no \in ListNos, NEW n \in Sizes, AddEntries(no, n) PROVE Bounded'
  <2>1. lists[no].size + n \in Nat
    <3>1. lists[no].size \in Nat
      BY Rooms DEF StorageInv, Placed
    <3> QED BY <3>1, SizesAssumption
  <2> QED BY <1>2, <1>3, <2>1 DEF AddEntries, MayResize
<1>4. ASSUME NEW no \in ListNos, NEW n \in Sizes, Resize(no, n) PROVE Bounded'
  BY <1>2, <1>4, SizesAssumption DEF Resize, MayResize
<1>5. ASSUME NEW no \in ListNos, NEW o \in Sizes, NEW n \in Sizes, UpdateEntries(no, o, n)
      PROVE  Bounded'
  BY <1>5 DEF UpdateEntries, Bounded
<1>6. ASSUME NEW sizes \in [ListNos -> Sizes], MergeFromMultiple(sizes) PROVE Bounded'
  <2>1. totsize' <= MaxTotal
    BY <1>6, BoundsAssumption DEF MergeFromMultiple
  <2>2. ASSUME NEW no \in ListNos PROVE lists'[no].size = sizes[no] /\ sizes[no] <= MaxSize
    BY <1>6 DEF MergeFromMultiple
  <2> QED BY <2>1, <2>2 DEF Bounded
<1> QED BY <1>1, <1>3, <1>4, <1>5, <1>6 DEF StorageNext

(* The types of the lists' headers and of the slots.                       *)
THEOREM StorageTypes == ASSUME ~AddsToMerged PROVE StorageSpec => []StorageTypeOK
<1>1. StorageInit => Bounded
  BY Empty, BoundsAssumption DEF StorageInit, Bounded
<1>2. StorageInv /\ Bounded /\ [StorageNext]_storage => Bounded'
  BY BoundedStep
<1>3. ASSUME StorageInv, Bounded PROVE StorageTypeOK
  <2>1. ASSUME NEW no \in ListNos
        PROVE  /\ lists[no].size \in 0 .. MaxSize
               /\ lists[no].capacity \in Nat /\ lists[no].size <= lists[no].capacity
               /\ lists[no].offset \in Nat \cup {INVALID_OFFSET}
    <3>1. Fine(lists[no])
      BY <1>3 DEF StorageInv, Placed
    <3>2. lists[no].offset \in Nat \cup {INVALID_OFFSET}
      BY <3>1 DEF Fine, Header
    <3> QED BY <1>3, <3>1, <3>2, Rooms, BoundsAssumption DEF Bounded
  <2>2. \A i \in DOMAIN slots : slots[i].offset \in Nat /\ slots[i].capacity \in Nat \ {0}
    <3>1. slots \in Seq(Slot)
      BY <1>3 DEF StorageInv, Tidy
    <3> QED BY <3>1, SlotTypes
  <2>3. totsize \in 0 .. MaxTotal
    BY <1>3, BoundsAssumption DEF StorageInv, Bounded
  <2> QED BY <1>3, <2>1, <2>2, <2>3 DEF StorageTypeOK, StorageInv
<1> QED BY <1>1, <1>2, <1>3, StorageInvariant, PTL DEF StorageSpec

=============================================================================
