------------------------- MODULE LocalCachesProofs -------------------------
(***************************************************************************)
(* Proofs about LocalCaches, for any threads, ids, capacities and sizes.   *)
(***************************************************************************)
EXTENDS LocalCaches, TLAPS

-----------------------------------------------------------------------------
(* What a thread has been asked for is in its cache, and while it hands    *)
(* over, among what is still to go.                                        *)
Collected ==
  \A t \in Threads :
    /\ due[t] # {} => needMerge[t] /\ strategy = "global"
    /\ due[t] \subseteq ToSet(local[t])
    /\ pc[t] \in {"batch", "flush"} => todo[t] \subseteq ToSet(local[t])
    /\ pc[t] = "flush" => due[t] \subseteq todo[t]

(* A ring that does not ask to be handed over has lost nothing and is free *)
(* from its position on; one that does has not more than the rest of the   *)
(* request to lose.                                                        *)
Ring(t) ==
  /\ pc[t] = "insert" => strategy = "buffer"
  /\ strategy = "buffer" /\ needMerge[t] =>
       pc[t] \in {"insert", "crashed"} /\ lost[t] + Len(reads[t]) <= MaxReads - 1
  /\ strategy = "buffer" /\ ~needMerge[t] =>
       \A p \in Places : p >= position[t] => ring[t][p] = None
  /\ strategy # "buffer" \/ ~needMerge[t] => lost[t] = 0

Rings == \A t \in Threads : Ring(t)

(* How often the counter counts a query                                    *)
Weight == IF hasDp THEN 2 ELSE 1

(* With SINGLE_THREAD_UPDATE: the counter was a multiple of BatchSize at   *)
(* the last hand-over, and at none of the queries since unless the next    *)
(* one is due.                                                             *)
Counted ==
  strategy = "single" /\ hasShard =>
    \A t \in Threads :
      /\ pc[t] = "batch" => updateShard[t]
      /\ updateShard[t] => pc[t] \in {"search", "batch", "crashed"}
                           /\ IsMultiple(counter[t], BatchSize)
      /\ \E k \in Nat : counter[t] = k * BatchSize + Weight * since[t]
      /\ ~updateShard[t] =>
           \A i \in 1 .. since[t] :
             ~IsMultiple(counter[t] - Weight * (since[t] - i), BatchSize)

(* MergedInFront, also when nobody merges                                  *)
InFront(q, T) ==
  \/ \A i \in DOMAIN q : q[i] \in T
  \/ /\ T \subseteq ToSet(q)
     /\ \A i, j \in DOMAIN q : i < j /\ q[j] \in T => q[i] \in T

IInv == TypeOK /\ Collected /\ Rings /\ Counted /\ InFront(dp, taken)

-----------------------------------------------------------------------------
(* Bounded sequences are functions on an initial segment.                  *)
LEMMA BoundedSeqIs ==
  ASSUME NEW S, NEW n \in Nat, NEW q \in BoundedSeq(S, n)
  PROVE  /\ q \in Seq(S) /\ Len(q) \in 0 .. n /\ DOMAIN q = 1 .. Len(q)
         /\ \A i \in 1 .. Len(q) : q[i] \in S
<1>1. PICK m \in 0 .. n : q \in [1 .. m -> S]
  BY DEF BoundedSeq, SeqOf
<1>2. q \in Seq(S) /\ Len(q) = m
  BY <1>1
<1> QED BY <1>1, <1>2

LEMMA BoundedSeqFrom ==
  ASSUME NEW S, NEW n \in Nat, NEW m \in 0 .. n, NEW q \in [1 .. m -> S]
  PROVE  q \in BoundedSeq(S, n)
BY DEF BoundedSeq, SeqOf

LEMMA SeqIsFunction ==
  ASSUME NEW S, NEW q \in Seq(S)
  PROVE  q \in [1 .. Len(q) -> S]
OBVIOUS

LEMMA BoundedSeqTail ==
  ASSUME NEW S, NEW n \in Nat, NEW q \in BoundedSeq(S, n), q # << >>
  PROVE  /\ Head(q) \in S /\ Tail(q) \in BoundedSeq(S, n)
         /\ Len(Tail(q)) = Len(q) - 1
<1>1. q \in Seq(S) /\ Len(q) \in 1 .. n
  BY BoundedSeqIs
<1>2. Head(q) \in S /\ Tail(q) \in Seq(S) /\ Len(Tail(q)) = Len(q) - 1
  BY <1>1
<1>3. Tail(q) \in [1 .. Len(Tail(q)) -> S]
  BY <1>2, SeqIsFunction
<1>4. Len(Tail(q)) \in 0 .. n
  BY <1>1, <1>2
<1>5. Tail(q) \in BoundedSeq(S, n)
  BY <1>3, <1>4, BoundedSeqFrom
<1> QED BY <1>2, <1>5

(* A vector put to the head of a list that does not have it                *)
LEMMA PushedType ==
  ASSUME NEW S, NEW n \in Nat \ {0}, NEW q \in BoundedSeq(S, n), IsInjective(q),
         NEW id \in S, id \notin ToSet(q)
  PROVE  /\ Pushed(q, id, n) \in BoundedSeq(S, n) /\ IsInjective(Pushed(q, id, n))
         /\ Len(q) < n => ToSet(Pushed(q, id, n)) = ToSet(q) \cup {id}
<1> DEFINE m == IF Len(q) < n THEN Len(q) + 1 ELSE n
           p == Pushed(q, id, n)
<1>1. /\ Len(q) \in 0 .. n /\ DOMAIN q = 1 .. Len(q)
      /\ \A i \in 1 .. Len(q) : q[i] \in S
  BY BoundedSeqIs
<1>2. m \in 0 .. n /\ DOMAIN p = 1 .. m /\ (Len(q) < n => m = Len(q) + 1)
  BY <1>1 DEF Pushed
<1>3. \A j \in 1 .. m : p[j] = IF j = 1 THEN id ELSE q[j - 1]
  BY DEF Pushed
<1>4. \A j \in 1 .. m : j # 1 => j - 1 \in 1 .. Len(q)
  BY <1>1
<1>5. p \in [1 .. m -> S]
  BY <1>1, <1>4 DEF Pushed
<1>6. IsInjective(p)
  <2>1. \A i \in 1 .. Len(q) : q[i] # id
    BY <1>1 DEF ToSet
  <2>2. \A i, j \in 1 .. Len(q) : q[i] = q[j] => i = j
    BY <1>1 DEF IsInjective
  <2> SUFFICES ASSUME NEW i \in 1 .. m, NEW j \in 1 .. m, p[i] = p[j] PROVE i = j
    BY <1>2 DEF IsInjective
  <2> HIDE DEF m, p
  <2>3. CASE i = 1 \/ j = 1
    BY <2>1, <2>3, <1>3, <1>4
  <2>4. CASE i # 1 /\ j # 1
    <3>1. q[i - 1] = q[j - 1] /\ i - 1 \in 1 .. Len(q) /\ j - 1 \in 1 .. Len(q)
      BY <2>4, <1>3, <1>4
    <3>2. i - 1 = j - 1
      BY <2>2, <3>1
    <3> QED BY <3>2, <1>2
  <2> QED BY <2>3, <2>4
<1>7. ASSUME Len(q) < n PROVE ToSet(p) = ToSet(q) \cup {id}
  <2>1. ToSet(p) = {p[j] : j \in 1 .. m} /\ ToSet(q) = {q[j] : j \in 1 .. Len(q)}
    BY <1>1, <1>2 DEF ToSet
  <2>2. \A j \in 1 .. Len(q) : j + 1 \in 1 .. m /\ p[j + 1] = q[j]
    BY <1>1, <1>2, <1>3, <1>7
  <2>3. 1 \in 1 .. m /\ p[1] = id
    BY <1>1, <1>2, <1>3, <1>7
  <2> HIDE DEF m, p
  <2> QED BY <2>1, <2>2, <2>3, <1>3, <1>4
<1> QED BY <1>2, <1>5, <1>6, <1>7, BoundedSeqFrom

(* A vector moved to the head                                              *)
LEMMA MovedType ==
  ASSUME NEW S, NEW n \in Nat, NEW q \in BoundedSeq(S, n), IsInjective(q),
         NEW i \in DOMAIN q
  PROVE  /\ Moved(q, i) \in BoundedSeq(S, n) /\ IsInjective(Moved(q, i))
         /\ ToSet(Moved(q, i)) = ToSet(q)
<1> DEFINE p == Moved(q, i)
           old(j) == IF j = 1 THEN i ELSE IF j <= i THEN j - 1 ELSE j
<1>1. /\ Len(q) \in 0 .. n /\ DOMAIN q = 1 .. Len(q)
      /\ \A j \in 1 .. Len(q) : q[j] \in S
  BY BoundedSeqIs
<1>2. DOMAIN p = 1 .. Len(q) /\ \A j \in 1 .. Len(q) : p[j] = q[old(j)]
  BY <1>1 DEF Moved
<1>3. \A j \in 1 .. Len(q) : old(j) \in 1 .. Len(q)
  BY <1>1
<1>4. \A j, k \in 1 .. Len(q) : old(j) = old(k) => j = k
  BY <1>1
<1>5. \A k \in 1 .. Len(q) : \E j \in 1 .. Len(q) : old(j) = k
  <2> TAKE k \in 1 .. Len(q)
  <2>1. CASE k = i
    <3> WITNESS 1 \in 1 .. Len(q)
    <3> QED BY <2>1
  <2>2. CASE k < i
    <3>1. k + 1 \in 1 .. Len(q) /\ old(k + 1) = k
      BY <2>2, <1>1
    <3> QED BY <3>1
  <2>3. CASE k > i
    BY <2>3, <1>1
  <2> QED BY <2>1, <2>2, <2>3, <1>1
<1>6. p \in [1 .. Len(q) -> S]
  <2>1. p = [j \in 1 .. Len(q) |-> p[j]]
    BY <1>1 DEF Moved
  <2> QED BY <2>1, <1>1, <1>2, <1>3
<1> HIDE DEF p, old
<1>7. IsInjective(p)
  BY <1>1, <1>2, <1>3, <1>4 DEF IsInjective
<1>8. ToSet(p) = ToSet(q)
  <2>1. ASSUME NEW v \in ToSet(p) PROVE v \in ToSet(q)
    BY <2>1, <1>1, <1>2, <1>3 DEF ToSet
  <2>2. ASSUME NEW v \in ToSet(q) PROVE v \in ToSet(p)
    <3>1. PICK k \in 1 .. Len(q) : q[k] = v
      BY <2>2, <1>1 DEF ToSet
    <3>2. PICK j \in 1 .. Len(q) : old(j) = k
      BY <1>5, <3>1
    <3> QED BY <3>1, <3>2, <1>2 DEF ToSet
  <2> QED BY <2>1, <2>2
<1> QED BY <1>1, <1>6, <1>7, <1>8, BoundedSeqFrom DEF p

(* What ToHead returns                                                     *)
LEMMA ToHeadType ==
  ASSUME NEW q \in BoundedSeq(Ids, DpCapacity), IsInjective(q), NEW id \in Ids
  PROVE  ToHead(q, id) \in BoundedSeq(Ids, DpCapacity) /\ IsInjective(ToHead(q, id))
<1>1. DpCapacity \in Nat \ {0}
  BY SizesAssumption
<1>2. CASE id \in ToSet(q)
  <2> DEFINE i == CHOOSE j \in DOMAIN q : q[j] = id
  <2>1. i \in DOMAIN q
    BY <1>2 DEF ToSet
  <2> HIDE DEF i
  <2>2. Moved(q, i) \in BoundedSeq(Ids, DpCapacity) /\ IsInjective(Moved(q, i))
    BY <1>1, <2>1, MovedType
  <2>3. ToHead(q, id) = Moved(q, i)
    BY <1>2 DEF ToHead, i
  <2> QED BY <2>2, <2>3
<1>3. CASE id \notin ToSet(q)
  BY <1>1, <1>3, PushedType DEF ToHead
<1> QED BY <1>2, <1>3

(* and what a merge keeps in front                                         *)
LEMMA ToHeadInFront ==
  ASSUME NEW q \in BoundedSeq(Ids, DpCapacity), IsInjective(q), NEW T, NEW id \in Ids,
         InFront(q, T)
  PROVE  InFront(ToHead(q, id), T \cup {id})
<1> DEFINE p == ToHead(q, id)
           n == Len(q)
           m == Len(p)
<1>1. /\ n \in 0 .. DpCapacity /\ DOMAIN q = 1 .. n /\ DpCapacity \in Nat \ {0}
      /\ p \in BoundedSeq(Ids, DpCapacity) /\ DOMAIN p = 1 .. m /\ m \in Nat
  BY ToHeadType, BoundedSeqIs, SizesAssumption
<1>2. ASSUME NEW old \in [2 .. m -> 1 .. n], m >= 1, p[1] = id,
             \A j \in 2 .. m : p[j] = q[old[j]] /\ p[j] # id,
             \A j, k \in 2 .. m : j < k => old[j] < old[k],
             (\E k \in 1 .. n : q[k] \notin T) => T \subseteq ToSet(p)
      PROVE  InFront(p, T \cup {id})
  <2>1. CASE \A k \in 1 .. n : q[k] \in T
    <3>1. \A j \in 1 .. m : p[j] \in T \cup {id}
      BY <2>1, <1>2
    <3> QED BY <3>1, <1>1 DEF InFront
  <2>2. CASE \E k \in 1 .. n : q[k] \notin T
    <3>1. \A i, j \in 1 .. n : i < j /\ q[j] \in T => q[i] \in T
      BY <2>2, <1>1 DEF InFront
    <3>2. T \cup {id} \subseteq ToSet(p)
      BY <2>2, <1>1, <1>2 DEF ToSet
    <3>3. ASSUME NEW i \in 1 .. m, NEW j \in 1 .. m, i < j, p[j] \in T \cup {id}
          PROVE  p[i] \in T \cup {id}
      <4>1. CASE i = 1
        BY <4>1, <1>2
      <4>2. CASE i # 1
        <5>1. i \in 2 .. m /\ j \in 2 .. m
          BY <4>2, <3>3, <1>1
        <5>2. q[old[j]] \in T /\ old[i] < old[j] /\ old[i] \in 1 .. n /\ old[j] \in 1 .. n
          BY <5>1, <3>3, <1>2
        <5>3. q[old[i]] \in T
          BY <5>2, <3>1
        <5> QED BY <5>1, <5>3, <1>2
      <4> QED BY <4>1, <4>2
    <3> QED BY <3>2, <3>3, <1>1 DEF InFront
  <2> QED BY <2>1, <2>2
<1>3. CASE id \in ToSet(q)
  <2> DEFINE i == CHOOSE j \in DOMAIN q : q[j] = id
             old == [j \in 2 .. m |-> IF j <= i THEN j - 1 ELSE j]
  <2>1. i \in 1 .. n /\ q[i] = id
    BY <1>3, <1>1 DEF ToSet
  <2> HIDE DEF i
  <2>2. p = Moved(q, i)
    BY <1>3 DEF ToHead, i
  <2>3. m = n /\ p[1] = id
    BY <2>1, <2>2, <1>1 DEF Moved
  <2>4. \A j \in 2 .. m : old[j] \in 1 .. n /\ p[j] = q[old[j]] /\ old[j] # i
    BY <2>1, <2>2, <2>3, <1>1 DEF Moved
  <2>5. \A j \in 2 .. m : p[j] # id
    BY <2>1, <2>4, <1>1 DEF IsInjective
  <2>6. (\E k \in 1 .. n : q[k] \notin T) => T \subseteq ToSet(p)
    <3>1. ToSet(p) = ToSet(q)
      BY <2>1, <2>2, <1>1, MovedType
    <3> QED BY <3>1, <1>1 DEF InFront
  <2>7. \A j, k \in 2 .. m : j < k => old[j] < old[k]
    BY <2>1, <1>1
  <2>8. m >= 1
    BY <2>1, <2>3
  <2>9. old \in [2 .. m -> 1 .. n]
    BY <2>4
  <2> HIDE DEF old
  <2> QED BY <1>2, <2>3, <2>4, <2>5, <2>6, <2>7, <2>8, <2>9
<1>4. CASE id \notin ToSet(q)
  <2> DEFINE old == [j \in 2 .. m |-> j - 1]
  <2>1. p = Pushed(q, id, DpCapacity)
    BY <1>4 DEF ToHead
  <2>2. /\ m = IF n < DpCapacity THEN n + 1 ELSE DpCapacity
        /\ m >= 1 /\ p[1] = id
    BY <2>1, <1>1 DEF Pushed
  <2>3. \A j \in 2 .. m : old[j] \in 1 .. n /\ p[j] = q[old[j]]
    BY <2>1, <2>2, <1>1 DEF Pushed
  <2>4. \A j \in 2 .. m : p[j] # id
    BY <2>3, <1>1, <1>4 DEF ToSet
  <2>5. ASSUME NEW k \in 1 .. n, q[k] \notin T, NEW v \in T PROVE v \in ToSet(p)
    <3>1. T \subseteq ToSet(q) /\ \A a, b \in 1 .. n : a < b /\ q[b] \in T => q[a] \in T
      BY <2>5, <1>1 DEF InFront
    <3>2. PICK l \in 1 .. n : q[l] = v
      BY <2>5, <3>1, <1>1 DEF ToSet
    <3>3. l <= k
      BY <2>5, <3>1, <3>2, <1>1
    <3>4. l # k
      BY <2>5, <3>2
    <3>5. l + 1 \in 2 .. m
      BY <3>2, <3>3, <3>4, <2>2, <1>1
    <3>6. p[l + 1] = v
      BY <3>5, <3>2, <2>3
    <3> QED BY <3>5, <3>6, <1>1, <2>2 DEF ToSet
  <2>6. \A j, k \in 2 .. m : j < k => old[j] < old[k]
    BY <1>1
  <2>7. old \in [2 .. m -> 1 .. n]
    BY <2>3
  <2> HIDE DEF old
  <2> QED BY <1>2, <2>2, <2>3, <2>4, <2>5, <2>6, <2>7
<1> QED BY <1>3, <1>4

(* Arithmetic of the counters                                              *)
LEMMA MultipleIs ==
  ASSUME NEW k \in Nat, NEW B \in Nat \ {0}
  PROVE  (k * B) % B = 0
OBVIOUS

LEMMA MultipleOf ==
  ASSUME NEW c \in Nat, NEW B \in Nat \ {0}, c % B = 0
  PROVE  \E k \in Nat : c = k * B
OBVIOUS

-----------------------------------------------------------------------------
(* One lemma an action.                                                    *)
LEMMA InitStep == Init => IInv
<1> SUFFICES ASSUME Init PROVE IInv
  OBVIOUS
<1>1. /\ \A n \in Nat : << >> \in BoundedSeq(Ids, n)
      /\ IsInjective(<< >>) /\ ToSet(<< >>) = {}
  <2>1. << >> \in [1 .. 0 -> Ids]
    OBVIOUS
  <2>2. \A n \in Nat : << >> \in BoundedSeq(Ids, n)
    BY <2>1 DEF BoundedSeq, SeqOf
  <2> QED BY <2>2 DEF IsInjective, ToSet
<1>2. dp \in BoundedSeq(Ids, DpCapacity) /\ IsInjective(dp)
  BY <1>1, SizesAssumption DEF Init, WarmedUp
<1>3. TypeOK
  BY <1>1, <1>2, SizesAssumption DEF Init, TypeOK, Places, Emptied
<1>4. Collected /\ Counted
  <2>1. 0 = 0 * BatchSize + Weight * 0
    BY SizesAssumption DEF Weight
  <2> QED BY <1>1, <2>1, SizesAssumption DEF Init, Collected, Counted
<1>5. Rings
  BY DEF Init, Rings, Ring, Emptied, Places
<1>6. InFront(dp, taken)
  BY DEF Init, InFront
<1> QED BY <1>3, <1>4, <1>5, <1>6 DEF IInv

(* The vectors of a thread's cache                                         *)
LEMMA LocalIds ==
  ASSUME TypeOK, NEW t \in Threads
  PROVE  ToSet(local[t]) \subseteq Ids
<1>1. local[t] \in BoundedSeq(Ids, LocalCapacity) /\ LocalCapacity \in Nat
  BY SizesAssumption DEF TypeOK
<1> QED BY <1>1, BoundedSeqIs DEF ToSet

LEMMA StartQueryStep ==
  ASSUME IInv, NEW t \in Threads, StartQuery(t)
  PROVE  IInv'
<1> USE DEF IInv
<1>1. TypeOK'
  <2>1. due' \in [Threads -> SUBSET Ids]
    BY LocalIds DEF TypeOK, StartQuery
  <2>2. /\ counter' \in [Threads -> Nat] /\ since' \in [Threads -> Nat]
        /\ globalQueryCount' \in Nat /\ queries' \in 0 .. MaxQueries
    BY SizesAssumption DEF TypeOK, StartQuery, Set
  <2>3. /\ needMerge' \in [Threads -> BOOLEAN] /\ updateDp' \in [Threads -> BOOLEAN]
        /\ updateShard' \in [Threads -> BOOLEAN]
    BY DEF TypeOK, StartQuery, Set, AllFlagged
  <2> QED BY <2>1, <2>2, <2>3 DEF TypeOK, StartQuery, Set, Goto, setup, buffer, global
<1>2. Collected'
  BY DEF Collected, TypeOK, StartQuery, Set, Goto, setup, counts, buffer, global,
     cache, IsMultiple, AllFlagged
<1>3. Rings'
  BY DEF Rings, Ring, TypeOK, StartQuery, Set, Goto, setup, counts, buffer, global,
     cache, IsMultiple, AllFlagged
<1>4. Counted'
  <2> SUFFICES ASSUME strategy = "single", hasShard, NEW u \in Threads
               PROVE  /\ pc'[u] = "batch" => updateShard'[u]
                      /\ updateShard'[u] => pc'[u] \in {"search", "batch", "crashed"}
                                            /\ IsMultiple(counter'[u], BatchSize)
                      /\ \E k \in Nat : counter'[u] = k * BatchSize + Weight * since'[u]
                      /\ ~updateShard'[u] =>
                           \A i \in 1 .. since'[u] :
                             ~IsMultiple(counter'[u] - Weight * (since'[u] - i), BatchSize)
    BY DEF Counted, Weight, StartQuery, setup
  <2>1. CASE u # t
    BY <2>1 DEF Counted, TypeOK, StartQuery, Set, Goto
  <2>2. CASE u = t
    <3>1. /\ ~updateShard[t] /\ pc'[t] = "search" /\ counter[t] \in Nat /\ since[t] \in Nat
          /\ Weight \in {1, 2} /\ BatchSize \in Nat \ {0}
      BY SizesAssumption DEF Counted, TypeOK, StartQuery, Set, Goto, Weight
    <3>2. counter'[t] = counter[t] + Weight /\ since'[t] = since[t] + 1
      BY DEF TypeOK, StartQuery, Set, Weight
    <3>3. updateShard'[t] <=> IsMultiple(counter'[t], BatchSize)
      <4> DEFINE twice == counter[t] + (IF hasDp THEN 1 ELSE 0)
                                     + (IF strategy = "single" THEN 1 ELSE 0)
                 raised == strategy = "single" /\ IsMultiple(twice, BatchSize)
      <4>1. /\ updateShard' = [updateShard EXCEPT ![t] = updateShard[t] \/ raised]
            /\ counter' = [counter EXCEPT ![t] = twice]
        BY DEF StartQuery, Set
      <4>2. DOMAIN updateShard = Threads /\ DOMAIN counter = Threads
        BY DEF TypeOK
      <4> HIDE DEF twice
      <4>3. counter'[t] = twice /\ (updateShard'[t] <=> updateShard[t] \/ raised)
        BY <4>1, <4>2, Zenon
      <4> QED BY <4>3, <3>1
    <3>4. PICK k \in Nat : counter[t] = k * BatchSize + Weight * since[t]
      BY DEF Counted
    <3>5. counter'[t] = k * BatchSize + Weight * since'[t]
      BY <3>1, <3>2, <3>4
    <3>6. ASSUME ~updateShard'[t], NEW i \in 1 .. since'[t]
          PROVE  ~IsMultiple(counter'[t] - Weight * (since'[t] - i), BatchSize)
      <4>1. CASE i = since'[t]
        <5>1. counter'[t] - Weight * (since'[t] - i) = counter'[t]
          BY <4>1, <3>1, <3>2
        <5> QED BY <5>1, <3>3, <3>6
      <4>2. CASE i \in 1 .. since[t]
        <5>1. counter'[t] - Weight * (since'[t] - i) = counter[t] - Weight * (since[t] - i)
          BY <4>2, <3>1, <3>2
        <5> QED BY <5>1, <4>2, <3>1 DEF Counted
      <4> QED BY <4>1, <4>2, <3>1, <3>2
    <3> QED BY <2>2, <3>1, <3>3, <3>5, <3>6
  <2> QED BY <2>1, <2>2
<1>5. InFront(dp, taken)'
  BY DEF InFront, StartQuery, Set, Goto, setup, counts, buffer, global, cache,
     IsMultiple, AllFlagged
<1> QED BY <1>1, <1>2, <1>3, <1>4, <1>5

LEMMA LocalHitStep ==
  ASSUME IInv, NEW t \in Threads, LocalHit(t)
  PROVE  IInv'
<1> USE DEF IInv
<1>1. TypeOK'
  BY DEF TypeOK, LocalHit, Set, Goto, setup, counts, buffer, global, cache
<1>2. Collected'
  BY DEF Collected, TypeOK, LocalHit, Set, Goto, setup, counts, buffer, global, cache
<1>3. Rings'
  BY DEF Rings, Ring, TypeOK, LocalHit, Set, Goto, setup, counts, buffer, global, cache
<1>4. Counted'
  BY DEF Counted, Weight, TypeOK, LocalHit, Set, Goto, setup, counts, buffer, global,
     cache
<1>5. InFront(dp, taken)'
  BY DEF InFront, LocalHit, Set, Goto, setup, counts, buffer, global, cache
<1> QED BY <1>1, <1>2, <1>3, <1>4, <1>5

LEMMA InsertLocalStep ==
  ASSUME IInv, NEW t \in Threads, NEW id \in Ids, InsertLocal(t, id)
  PROVE  IInv'
<1> USE DEF IInv
<1>1. TypeOK'
  <2> DEFINE p == Pushed(local[t], id, LocalCapacity)
  <2>1. local[t] \in BoundedSeq(Ids, LocalCapacity) /\ IsInjective(local[t])
    BY DEF TypeOK
  <2>2. p \in BoundedSeq(Ids, LocalCapacity) /\ IsInjective(p)
    BY <2>1, PushedType, SizesAssumption DEF InsertLocal
  <2>3. local' = [local EXCEPT ![t] = p]
    BY DEF InsertLocal, Set
  <2> HIDE DEF p
  <2>4. /\ local' \in [Threads -> BoundedSeq(Ids, LocalCapacity)]
        /\ \A u \in Threads : IsInjective(local'[u])
    BY <2>2, <2>3 DEF TypeOK
  <2>5. due' \in [Threads -> SUBSET Ids]
    BY DEF TypeOK, InsertLocal, Set
  <2> QED BY <2>4, <2>5 DEF TypeOK, InsertLocal, setup, counts, buffer, global
<1>2. Collected'
  BY DEF Collected, TypeOK, InsertLocal, Set, Goto, setup, counts, buffer, global, cache
<1>3. Rings'
  BY DEF Rings, Ring, TypeOK, InsertLocal, Set, Goto, setup, counts, buffer, global,
     cache
<1>4. Counted'
  BY DEF Counted, Weight, TypeOK, InsertLocal, Set, Goto, setup, counts, buffer,
     global, cache
<1>5. InFront(dp, taken)'
  BY DEF InFront, InsertLocal, Set, Goto, setup, counts, buffer, global, cache
<1> QED BY <1>1, <1>2, <1>3, <1>4, <1>5

LEMMA CompletedStep ==
  ASSUME IInv, NEW t \in Threads, NEW q \in BoundedSeq(Ids, MaxReads), Completed(t, q)
  PROVE  IInv'
<1> USE DEF IInv
<1>1. TypeOK'
  BY DEF TypeOK, Completed, Set, Goto, setup, counts, buffer, global, cache
<1>2. Collected'
  BY DEF Collected, TypeOK, Completed, Set, Goto, setup, counts, buffer, global, cache
<1>3. Rings'
  BY DEF Rings, Ring, TypeOK, Completed, Set, Goto, setup, counts, buffer, global, cache
<1>4. Counted'
  BY DEF Counted, Weight, TypeOK, Completed, Set, Goto, setup, counts, buffer,
     global, cache
<1>5. InFront(dp, taken)'
  BY DEF InFront, Completed, Set, Goto, setup, counts, buffer, global, cache
<1> QED BY <1>1, <1>2, <1>3, <1>4, <1>5

LEMMA InsertRingStep ==
  ASSUME IInv, NEW t \in Threads, InsertRing(t)
  PROVE  IInv'
<1> USE DEF IInv
<1>1. TypeOK'
  <2>1. /\ Head(reads[t]) \in Ids /\ Tail(reads[t]) \in BoundedSeq(Ids, MaxReads)
    BY BoundedSeqTail, SizesAssumption DEF TypeOK, InsertRing
  <2>2. reads' \in [Threads -> BoundedSeq(Ids, MaxReads)]
    BY <2>1 DEF TypeOK, InsertRing, Set
  <2>3. CASE UNCHANGED <<ring, position, lost, needMerge>>
    BY <2>2, <2>3 DEF TypeOK, InsertRing, setup, counts, cache, global
  <2>4. CASE ~UNCHANGED <<ring, position, lost, needMerge>>
    <3>1. /\ ring' = [ring EXCEPT ![t][position[t]] = Head(reads[t])]
          /\ lost' = Set(lost, t, IF ring[t][position[t]] = None THEN lost[t] ELSE lost[t] + 1)
          /\ position' = Set(position, t, (position[t] + 1) % LocalCapacity)
          /\ needMerge' = Set(needMerge, t, needMerge[t] \/ AskedFor(t))
      BY <2>4 DEF InsertRing, buffer
    <3>2. (position[t] + 1) % LocalCapacity \in Places
      <4>1. PICK x \in Nat, n \in Nat \ {0} : x = position[t] /\ n = LocalCapacity
        BY SizesAssumption DEF TypeOK, Places
      <4>2. (x + 1) % n \in 0 .. n - 1
        OBVIOUS
      <4> QED BY <4>1, <4>2 DEF Places
    <3>3. ring' \in [Threads -> [Places -> Ids \cup {None}]]
      BY <3>1, <2>1 DEF TypeOK
    <3>4. /\ lost' \in [Threads -> Nat] /\ position' \in [Threads -> Places]
          /\ needMerge' \in [Threads -> BOOLEAN]
      BY <3>1, <3>2 DEF TypeOK, Set, AskedFor
    <3> QED BY <2>2, <3>3, <3>4 DEF TypeOK, InsertRing, setup, counts, cache, global
  <2> QED BY <2>3, <2>4
<1>2. Collected'
  BY DEF Collected, TypeOK, InsertRing, Set, Goto, setup, counts, buffer, global,
     cache, AskedFor
<1>3. Rings'
  <2> SUFFICES ASSUME NEW u \in Threads
               PROVE  Ring(u)'
    BY DEF Rings
  <2>1. CASE u # t
    BY <2>1 DEF Rings, Ring, TypeOK, InsertRing, setup, buffer, Set
  <2>2. CASE u = t
    <3>1. Ring(t) /\ strategy = "buffer" /\ pc[t] = "insert"
      BY DEF Rings, Ring, InsertRing
    <3>2. /\ reads[t] \in BoundedSeq(Ids, MaxReads) /\ reads[t] # << >>
          /\ reads'[t] = Tail(reads[t]) /\ strategy' = strategy /\ pc' = pc
      BY DEF TypeOK, InsertRing, Set, setup
    <3>3. Len(reads[t]) \in 1 .. MaxReads /\ Len(reads'[t]) = Len(reads[t]) - 1
      <4>1. Len(Tail(reads[t])) = Len(reads[t]) - 1
        BY <3>2, BoundedSeqTail, SizesAssumption
      <4>2. reads[t] \in Seq(Ids) /\ Len(reads[t]) \in 0 .. MaxReads
        BY <3>2, BoundedSeqIs, SizesAssumption
      <4> QED BY <4>1, <4>2, <3>2
    <3>4. CASE UNCHANGED <<ring, position, lost, needMerge>>
      BY <3>1, <3>2, <3>3, <3>4, <2>2, SizesAssumption DEF Ring, TypeOK
    <3>5. CASE ~UNCHANGED <<ring, position, lost, needMerge>>
      <4>1. /\ ring' = [ring EXCEPT ![t][position[t]] = Head(reads[t])]
            /\ lost'[t] = IF ring[t][position[t]] = None THEN lost[t] ELSE lost[t] + 1
            /\ position'[t] = (position[t] + 1) % LocalCapacity
            /\ needMerge'[t] <=> needMerge[t] \/ position[t] + 1 >= LocalCapacity
        BY <3>5 DEF InsertRing, TypeOK, buffer, Set, AskedFor
      <4>2. /\ position[t] \in 0 .. LocalCapacity - 1 /\ LocalCapacity \in Nat \ {0}
            /\ lost[t] \in Nat /\ MaxReads \in Nat \ {0}
            /\ lost'[t] \in Nat /\ lost'[t] <= lost[t] + 1
        BY <4>1, SizesAssumption DEF TypeOK, Places
      <4>3. CASE needMerge[t]
        <5>1. lost[t] + Len(reads[t]) <= MaxReads - 1
          BY <4>3, <3>1 DEF Ring
        <5>2. lost'[t] + Len(reads'[t]) <= MaxReads - 1
          BY <5>1, <4>2, <3>3
        <5>3. needMerge'[t]
          BY <4>1, <4>3
        <5> QED BY <5>2, <5>3, <3>1, <3>2, <2>2 DEF Ring
      <4>4. CASE ~needMerge[t]
        <5>1. lost'[t] = 0
          BY <4>1, <4>2, <4>4, <3>1 DEF Ring, Places
        <5>2. CASE position[t] + 1 >= LocalCapacity
          <6>1. lost'[t] + Len(reads'[t]) <= MaxReads - 1
            BY <5>1, <4>2, <3>3
          <6>2. needMerge'[t]
            BY <5>2, <4>1
          <6> QED BY <6>1, <6>2, <3>1, <3>2, <2>2 DEF Ring
        <5>3. CASE position[t] + 1 < LocalCapacity
          <6>1. position'[t] = position[t] + 1 /\ ~needMerge'[t]
            BY <5>3, <4>1, <4>2, <4>4
          <6>2. \A p \in Places : p # position[t] => ring'[t][p] = ring[t][p]
            BY <4>1 DEF TypeOK
          <6>3. \A p \in Places : p >= position'[t] => ring'[t][p] = None
            BY <6>1, <6>2, <4>2, <4>4, <3>1 DEF Ring, Places
          <6> QED BY <5>1, <6>1, <6>3, <3>1, <3>2, <2>2 DEF Ring
        <5> QED BY <5>2, <5>3, <4>2
      <4> QED BY <4>3, <4>4
    <3> QED BY <3>4, <3>5
  <2> QED BY <2>1, <2>2
<1>4. Counted'
  BY DEF Counted, Weight, TypeOK, InsertRing, Set, Goto, setup, counts, buffer,
     global, cache, AskedFor
<1>5. InFront(dp, taken)'
  BY DEF InFront, InsertRing, Set, Goto, setup, counts, buffer, global, cache, AskedFor
<1> QED BY <1>1, <1>2, <1>3, <1>4, <1>5

LEMMA InsertedStep ==
  ASSUME IInv, NEW t \in Threads, Inserted(t)
  PROVE  IInv'
<1> USE DEF IInv
<1>1. /\ pc[t] = "insert" /\ strategy = "buffer"
      /\ UNCHANGED <<setup, counts, updateDp, updateShard, cache, reads, todo, global>>
      /\ \A u \in Threads : u # t => pc'[u] = pc[u] /\ ring'[u] = ring[u]
            /\ position'[u] = position[u] /\ lost'[u] = lost[u] /\ needMerge'[u] = needMerge[u]
  BY DEF Rings, Ring, TypeOK, Inserted, Set, Goto, buffer
<1>2. /\ pc' = [pc EXCEPT ![t] = IF needMerge[t] /\ ~hasShard THEN "crashed" ELSE "search"]
      /\ IF needMerge[t] /\ hasShard
         THEN /\ ring' = [ring EXCEPT ![t] = Emptied] /\ position' = [position EXCEPT ![t] = 0]
              /\ lost' = [lost EXCEPT ![t] = 0] /\ needMerge' = [needMerge EXCEPT ![t] = FALSE]
         ELSE UNCHANGED <<ring, position, lost, needMerge>>
  BY DEF Inserted, Set, Goto, buffer
<1>3. TypeOK'
  <2>1. pc' \in [Threads -> {"idle", "search", "insert", "batch", "flagged", "flush",
                             "merge", "merging", "crashed"}]
    BY <1>2 DEF TypeOK
  <2>2. /\ ring' \in [Threads -> [Places -> Ids \cup {None}]]
        /\ position' \in [Threads -> Places] /\ lost' \in [Threads -> Nat]
        /\ needMerge' \in [Threads -> BOOLEAN]
    <3>1. CASE needMerge[t] /\ hasShard
      <4>1. Emptied \in [Places -> Ids \cup {None}] /\ 0 \in Places
        BY SizesAssumption DEF Emptied, Places
      <4>2. /\ ring' = [ring EXCEPT ![t] = Emptied] /\ position' = [position EXCEPT ![t] = 0]
            /\ lost' = [lost EXCEPT ![t] = 0] /\ needMerge' = [needMerge EXCEPT ![t] = FALSE]
        BY <3>1, <1>2
      <4> QED BY <4>1, <4>2 DEF TypeOK
    <3>2. CASE ~(needMerge[t] /\ hasShard)
      BY <3>2, <1>2 DEF TypeOK
    <3> QED BY <3>1, <3>2
  <2> QED BY <1>1, <2>1, <2>2 DEF TypeOK, setup, counts, cache, global
<1>4. Collected'
  <2>1. \A u \in Threads : due[u] = {}
    BY <1>1 DEF Collected
  <2>2. pc'[t] \in {"search", "crashed"}
    BY <1>2 DEF TypeOK
  <2> QED BY <1>1, <2>1, <2>2 DEF Collected, TypeOK, cache
<1>5. Rings'
  <2> SUFFICES ASSUME NEW u \in Threads PROVE Ring(u)'
    BY DEF Rings
  <2>1. CASE u # t
    BY <2>1, <1>1 DEF Rings, Ring, setup
  <2>2. CASE u = t /\ needMerge[t] /\ hasShard
    BY <2>2, <1>1, <1>2 DEF Rings, Ring, TypeOK, setup, Emptied
  <2>3. CASE u = t /\ ~(needMerge[t] /\ hasShard)
    <3>1. /\ pc'[t] = IF needMerge[t] THEN "crashed" ELSE "search"
          /\ UNCHANGED <<ring, position, lost, needMerge, strategy, reads>>
      BY <2>3, <1>1, <1>2 DEF TypeOK, setup
    <3> QED BY <2>3, <3>1 DEF Rings, Ring
  <2> QED BY <2>1, <2>2, <2>3
<1>6. Counted'
  BY <1>1 DEF Counted, setup
<1>7. InFront(dp, taken)'
  BY <1>1 DEF InFront, global
<1> QED BY <1>3, <1>4, <1>5, <1>6, <1>7

LEMMA BatchDueStep ==
  ASSUME IInv, NEW t \in Threads, BatchDue(t)
  PROVE  IInv'
<1> USE DEF IInv
<1>1. TypeOK'
  BY LocalIds DEF TypeOK, BatchDue, Set, Goto, setup, counts, buffer, global, cache
<1>2. Collected'
  BY DEF Collected, TypeOK, BatchDue, Set, Goto, setup, counts, buffer, global, cache
<1>3. Rings'
  BY DEF Rings, Ring, TypeOK, BatchDue, Set, Goto, setup, counts, buffer, global, cache
<1>4. Counted'
  BY DEF Counted, Weight, TypeOK, BatchDue, Set, Goto, setup, counts, buffer, global,
     cache
<1>5. InFront(dp, taken)'
  BY DEF InFront, BatchDue, Set, Goto, setup, counts, buffer, global, cache
<1> QED BY <1>1, <1>2, <1>3, <1>4, <1>5

LEMMA FlagDueStep ==
  ASSUME IInv, NEW t \in Threads, FlagDue(t)
  PROVE  IInv'
<1> USE DEF IInv
<1>1. TypeOK'
  BY LocalIds DEF TypeOK, FlagDue, Set, Goto, setup, counts, buffer, global, cache,
     AtFlag, Flagged, FlagDuring
<1>2. Collected'
  BY DEF Collected, TypeOK, FlagDue, Set, Goto, setup, counts, buffer, global, cache,
     AtFlag, Flagged, FlagDuring
<1>3. Rings'
  BY DEF Rings, Ring, TypeOK, FlagDue, Set, Goto, setup, counts, buffer, global,
     cache, AtFlag, Flagged, FlagDuring
<1>4. Counted'
  BY DEF Counted, Weight, TypeOK, FlagDue, Set, Goto, setup, counts, buffer, global,
     cache, AtFlag, Flagged, FlagDuring
<1>5. InFront(dp, taken)'
  BY DEF InFront, FlagDue, Set, Goto, setup, counts, buffer, global, cache, AtFlag,
     Flagged, FlagDuring
<1> QED BY <1>1, <1>2, <1>3, <1>4, <1>5

LEMMA NotFlaggedStep ==
  ASSUME IInv, NEW t \in Threads, NotFlagged(t)
  PROVE  IInv'
<1> USE DEF IInv
<1>1. TypeOK'
  BY DEF TypeOK, NotFlagged, Set, Goto, setup, counts, buffer, global, cache, AtFlag,
     Flagged
<1>2. Collected'
  BY DEF Collected, TypeOK, NotFlagged, Set, Goto, setup, counts, buffer, global,
     cache, AtFlag, Flagged
<1>3. Rings'
  BY DEF Rings, Ring, TypeOK, NotFlagged, Set, Goto, setup, counts, buffer, global,
     cache, AtFlag, Flagged
<1>4. Counted'
  BY DEF Counted, Weight, TypeOK, NotFlagged, Set, Goto, setup, counts, buffer,
     global, cache, AtFlag, Flagged
<1>5. InFront(dp, taken)'
  BY DEF InFront, NotFlagged, Set, Goto, setup, counts, buffer, global, cache,
     AtFlag, Flagged
<1> QED BY <1>1, <1>2, <1>3, <1>4, <1>5

LEMMA HandOverStep ==
  ASSUME IInv, NEW t \in Threads, HandOver(t)
  PROVE  IInv'
<1> USE DEF IInv
<1>1. TypeOK'
  BY DEF TypeOK, HandOver, Set, Goto, setup, counts, buffer, global, cache
<1>2. Collected'
  BY DEF Collected, TypeOK, HandOver, Set, Goto, setup, counts, buffer, global, cache
<1>3. Rings'
  BY DEF Rings, Ring, TypeOK, HandOver, Set, Goto, setup, counts, buffer, global, cache
<1>4. Counted'
  BY DEF Counted, Weight, TypeOK, HandOver, Set, Goto, setup, counts, buffer, global,
     cache
<1>5. InFront(dp, taken)'
  BY DEF InFront, HandOver, Set, Goto, setup, counts, buffer, global, cache
<1> QED BY <1>1, <1>2, <1>3, <1>4, <1>5

LEMMA HandedOverStep ==
  ASSUME IInv, NEW t \in Threads, HandedOver(t)
  PROVE  IInv'
<1> USE DEF IInv
<1>1. TypeOK'
  <2>1. CASE pc[t] = "batch"
    <3>1. /\ pc' = [pc EXCEPT ![t] = "flagged"] /\ since' = [since EXCEPT ![t] = 0]
          /\ updateShard' = [updateShard EXCEPT ![t] = FALSE] /\ UNCHANGED needMerge
      BY <2>1 DEF HandedOver, Set, Goto
    <3>2. /\ pc' \in [Threads -> {"idle", "search", "insert", "batch", "flagged", "flush",
                                  "merge", "merging", "crashed"}]
          /\ since' \in [Threads -> Nat] /\ updateShard' \in [Threads -> BOOLEAN]
      BY <3>1 DEF TypeOK
    <3> QED BY <3>1, <3>2 DEF TypeOK, HandedOver, setup, buffer, global, cache
  <2>2. CASE pc[t] # "batch"
    BY <2>2 DEF TypeOK, HandedOver, Set, Goto, setup, counts, buffer, global, cache
  <2> QED BY <2>1, <2>2
<1>2. Collected'
  BY DEF Collected, TypeOK, HandedOver, Set, Goto, setup, counts, buffer, global, cache
<1>3. Rings'
  BY DEF Rings, Ring, TypeOK, HandedOver, Set, Goto, setup, counts, buffer, global,
     cache
<1>4. Counted'
  <2> SUFFICES ASSUME strategy = "single", hasShard, NEW u \in Threads
               PROVE  /\ pc'[u] = "batch" => updateShard'[u]
                      /\ updateShard'[u] => pc'[u] \in {"search", "batch", "crashed"}
                                            /\ IsMultiple(counter'[u], BatchSize)
                      /\ \E k \in Nat : counter'[u] = k * BatchSize + Weight * since'[u]
                      /\ ~updateShard'[u] =>
                           \A i \in 1 .. since'[u] :
                             ~IsMultiple(counter'[u] - Weight * (since'[u] - i), BatchSize)
    BY DEF Counted, Weight, HandedOver, setup
  <2>1. CASE u # t
    BY <2>1 DEF Counted, TypeOK, HandedOver, Set, Goto
  <2>2. CASE u = t /\ pc[t] = "batch"
    <3>1. /\ pc'[t] = "flagged" /\ ~updateShard'[t] /\ since'[t] = 0
          /\ counter'[t] = counter[t] /\ counter[t] \in Nat
      BY <2>2 DEF TypeOK, HandedOver, Set, Goto
    <3>2. counter[t] % BatchSize = 0
      BY <2>2 DEF Counted, IsMultiple
    <3>3. PICK k \in Nat : counter[t] = k * BatchSize
      BY <3>1, <3>2, MultipleOf, SizesAssumption
    <3>4. counter'[t] = k * BatchSize + Weight * since'[t]
      BY <3>1, <3>3, SizesAssumption DEF Weight
    <3> QED BY <2>2, <3>1, <3>4
  <2>3. CASE u = t /\ pc[t] = "flush"
    BY <2>3 DEF Counted, TypeOK, HandedOver, Set, Goto
  <2> QED BY <2>1, <2>2, <2>3 DEF HandedOver
<1>5. InFront(dp, taken)'
  BY DEF InFront, HandedOver, Set, Goto, setup, counts, buffer, global, cache
<1> QED BY <1>1, <1>2, <1>3, <1>4, <1>5

LEMMA MergeDueStep ==
  ASSUME IInv, NEW t \in Threads, MergeDue(t)
  PROVE  IInv'
<1> USE DEF IInv
<1>1. TypeOK'
  <2>1. CASE hasDp
    <3>1. /\ pc' = [pc EXCEPT ![t] = "merging"] /\ globalMutex' = t /\ taken' = {}
          /\ todo' = [todo EXCEPT ![t] = ToSet(local[t])] /\ UNCHANGED dp
      BY <2>1 DEF MergeDue, Set, Goto
    <3>2. /\ pc' \in [Threads -> {"idle", "search", "insert", "batch", "flagged", "flush",
                                  "merge", "merging", "crashed"}]
          /\ todo' \in [Threads -> SUBSET Ids]
      BY <3>1, LocalIds DEF TypeOK
    <3> QED BY <3>1, <3>2 DEF TypeOK, MergeDue, setup, counts, buffer, cache
  <2>2. CASE ~hasDp
    BY <2>2 DEF TypeOK, MergeDue, Set, Goto, setup, counts, buffer, global, cache
  <2> QED BY <2>1, <2>2
<1>2. Collected'
  BY DEF Collected, TypeOK, MergeDue, Set, Goto, setup, counts, buffer, global, cache
<1>3. Rings'
  BY DEF Rings, Ring, TypeOK, MergeDue, Set, Goto, setup, counts, buffer, global, cache
<1>4. Counted'
  BY DEF Counted, Weight, TypeOK, MergeDue, Set, Goto, setup, counts, buffer, global,
     cache
<1>5. InFront(dp, taken)'
  BY DEF InFront, MergeDue, Set, Goto, setup, counts, buffer, global, cache
<1> QED BY <1>1, <1>2, <1>3, <1>4, <1>5

LEMMA MergeOneStep ==
  ASSUME IInv, NEW t \in Threads, NEW id \in Ids, MergeOne(t, id)
  PROVE  IInv'
<1> USE DEF IInv
<1>1. TypeOK'
  BY ToHeadType DEF TypeOK, MergeOne, Set, Goto, setup, counts, buffer, global, cache
<1>2. Collected'
  BY DEF Collected, TypeOK, MergeOne, Set, Goto, setup, counts, buffer, global, cache
<1>3. Rings'
  BY DEF Rings, Ring, TypeOK, MergeOne, Set, Goto, setup, counts, buffer, global, cache
<1>4. Counted'
  BY DEF Counted, Weight, TypeOK, MergeOne, Set, Goto, setup, counts, buffer, global,
     cache
<1>5. InFront(dp, taken)'
  <2>1. CASE dp' = ToHead(dp, id) /\ taken' = taken \cup {id}
    BY <2>1, ToHeadInFront DEF TypeOK
  <2>2. CASE UNCHANGED <<dp, taken>>
    BY <2>2 DEF InFront
  <2> QED BY <2>1, <2>2 DEF MergeOne
<1> QED BY <1>1, <1>2, <1>3, <1>4, <1>5

LEMMA RoundOverStep ==
  ASSUME IInv, NEW t \in Threads, RoundOver(t)
  PROVE  IInv'
<1> USE DEF IInv
<1>1. TypeOK'
  BY DEF TypeOK, RoundOver, Set, Goto, setup, counts, buffer, global, cache, AtFlag,
     Flagged
<1>2. Collected'
  BY DEF Collected, TypeOK, RoundOver, Set, Goto, setup, counts, buffer, global,
     cache, AtFlag, Flagged
<1>3. Rings'
  BY DEF Rings, Ring, TypeOK, RoundOver, Set, Goto, setup, counts, buffer, global,
     cache, AtFlag, Flagged
<1>4. Counted'
  BY DEF Counted, Weight, TypeOK, RoundOver, Set, Goto, setup, counts, buffer,
     global, cache, AtFlag, Flagged
<1>5. InFront(dp, taken)'
  BY DEF InFront, RoundOver, Set, Goto, setup, counts, buffer, global, cache, AtFlag,
     Flagged
<1> QED BY <1>1, <1>2, <1>3, <1>4, <1>5

LEMMA StutterStep == IInv /\ UNCHANGED vars => IInv'
<1> SUFFICES ASSUME IInv, UNCHANGED vars PROVE IInv'
  OBVIOUS
<1> USE DEF IInv, vars
<1>1. TypeOK'
  BY DEF TypeOK
<1>2. Collected'
  BY DEF Collected
<1>3. Rings'
  BY DEF Rings, Ring
<1>4. Counted'
  BY DEF Counted, Weight
<1>5. InFront(dp, taken)'
  BY DEF InFront
<1> QED BY <1>1, <1>2, <1>3, <1>4, <1>5

LEMMA NextStep == IInv /\ [Next]_vars => IInv'
<1> SUFFICES ASSUME IInv, [Next]_vars PROVE IInv'
  OBVIOUS
<1>1. CASE UNCHANGED vars
  BY <1>1, StutterStep
<1>2. CASE Stopped
  BY <1>2, StutterStep DEF Stopped
<1>3. ASSUME NEW t \in Threads, Step(t) PROVE IInv'
  <2>1. CASE StartQuery(t)
    BY <2>1, StartQueryStep
  <2>2. CASE LocalHit(t)
    BY <2>2, LocalHitStep
  <2>3. CASE \E id \in Ids : InsertLocal(t, id)
    BY <2>3, InsertLocalStep
  <2>4. CASE \E q \in BoundedSeq(Ids, MaxReads) : Completed(t, q)
    BY <2>4, CompletedStep
  <2>5. CASE InsertRing(t)
    BY <2>5, InsertRingStep
  <2>6. CASE Inserted(t)
    BY <2>6, InsertedStep
  <2>7. CASE BatchDue(t)
    BY <2>7, BatchDueStep
  <2>8. CASE FlagDue(t)
    BY <2>8, FlagDueStep
  <2>9. CASE NotFlagged(t)
    BY <2>9, NotFlaggedStep
  <2>10. CASE HandOver(t)
    BY <2>10, HandOverStep
  <2>11. CASE HandedOver(t)
    BY <2>11, HandedOverStep
  <2>12. CASE MergeDue(t)
    BY <2>12, MergeDueStep
  <2>13. CASE \E id \in Ids : MergeOne(t, id)
    BY <2>13, MergeOneStep
  <2>14. CASE RoundOver(t)
    BY <2>14, RoundOverStep
  <2> QED
    BY <1>3, <2>1, <2>2, <2>3, <2>4, <2>5, <2>6, <2>7, <2>8, <2>9, <2>10, <2>11, <2>12,
       <2>13, <2>14 DEF Step
<1> QED BY <1>1, <1>2, <1>3 DEF Next

(* An idle thread that had answered BatchSize queries since it last handed *)
(* over would have counted a multiple of BatchSize at the last of them.    *)
LEMMA CountedInTime == TypeOK /\ Counted => HandedOverInTime
<1> SUFFICES ASSUME TypeOK, Counted, strategy = "single", hasShard, NEW t \in Threads,
                    pc[t] = "idle", since[t] >= BatchSize
             PROVE  FALSE
  BY SizesAssumption DEF HandedOverInTime, TypeOK
<1>1. /\ since[t] \in Nat /\ BatchSize \in Nat \ {0} /\ Weight \in {1, 2}
      /\ BatchSize \in 1 .. since[t]
  BY SizesAssumption DEF TypeOK, Weight
<1>2. ~updateShard[t]
  BY DEF Counted
<1>3. PICK k \in Nat : counter[t] = k * BatchSize + Weight * since[t]
  BY DEF Counted
<1>4. ~IsMultiple(counter[t] - Weight * (since[t] - BatchSize), BatchSize)
  BY <1>1, <1>2 DEF Counted
<1>5. counter[t] - Weight * (since[t] - BatchSize) = (k + Weight) * BatchSize
  <2>1. CASE Weight = 1
    BY <2>1, <1>1, <1>3
  <2>2. CASE Weight = 2
    BY <2>2, <1>1, <1>3
  <2> QED BY <2>1, <2>2, <1>1
<1>6. k + Weight \in Nat
  BY <1>1, <1>3
<1>7. ((k + Weight) * BatchSize) % BatchSize = 0
  BY <1>1, <1>6, MultipleIs
<1> QED BY <1>4, <1>5, <1>7 DEF IsMultiple

(* The loss of a ring that asks to be handed over is bounded by what the   *)
(* request still brought then; any other has lost nothing.                 *)
LEMMA RingsBound == TypeOK /\ Rings => LossBound
<1> SUFFICES ASSUME TypeOK, Rings, NEW t \in Threads PROVE lost[t] <= MaxReads - 1
  BY DEF LossBound
<1>1. lost[t] \in Nat /\ MaxReads \in Nat \ {0} /\ Len(reads[t]) \in Nat
  BY SizesAssumption, BoundedSeqIs DEF TypeOK
<1>2. CASE strategy = "buffer" /\ needMerge[t]
  BY <1>1, <1>2 DEF Rings, Ring
<1>3. CASE ~(strategy = "buffer" /\ needMerge[t])
  BY <1>1, <1>3 DEF Rings, Ring
<1> QED BY <1>2, <1>3

-----------------------------------------------------------------------------
(* The invariant holds of every behaviour of the caches.                   *)
THEOREM Invariant == Spec => []IInv
BY InitStep, NextStep, PTL DEF Spec

(* A thread's cache and the frequency cache hold a vector once and never   *)
(* more than they have room for, and the ring is written inside its bounds.*)
THEOREM TypeCorrect == Spec => []TypeOK
<1>1. IInv => TypeOK
  BY DEF IInv
<1> QED BY <1>1, Invariant, PTL

(* GLOBAL_CONTROL_UPDATE forgets no trigger, however many threads there    *)
(* are and whenever it comes.                                              *)
THEOREM NothingForgottenAlways == Spec => []NothingForgotten
<1>1. IInv => NothingForgotten
  BY DEF IInv, Collected, NothingForgotten
<1> QED BY <1>1, Invariant, PTL

(* SINGLE_THREAD_UPDATE hands over within batch_shard_query_size queries   *)
(* of a thread, also when its counter counts every query twice.            *)
THEOREM HandedOverInTimeAlways == Spec => []HandedOverInTime
<1>1. IInv => HandedOverInTime
  BY CountedInTime DEF IInv
<1> QED BY <1>1, Invariant, PTL

(* SINGLE_THREAD_LOCAL_BUFFER_UPDATE overwrites at most one vector less    *)
(* than a request brings before the ring is handed over.                   *)
THEOREM LossBoundAlways == Spec => []LossBound
<1>1. IInv => LossBound
  BY RingsBound DEF IInv
<1> QED BY <1>1, Invariant, PTL

(* merge_from_local evicts no vector it has itself taken while one of the  *)
(* older ones is left.                                                     *)
THEOREM MergedInFrontAlways == Spec => []MergedInFront
<1>1. IInv => MergedInFront
  BY DEF IInv, InFront, MergedInFront
<1> QED BY <1>1, Invariant, PTL
=============================================================================
