-------------------------- MODULE ShardCacheProofs --------------------------
(***************************************************************************)
(* Proofs about ShardCache: its types, that no vector is held twice, that  *)
(* the unprotected counter is exact, and the bound on the cache's size.    *)
(***************************************************************************)
EXTENDS ShardCache, FiniteSetTheorems, TLAPS

-----------------------------------------------------------------------------
(* The operators on a recency list.                                        *)

Elements(q) == {q[i] : i \in DOMAIN q}

(* A splice to the front keeps the length and the elements.                *)
LEMMA TouchFrontLemma ==
  ASSUME NEW S, NEW q \in Seq(S), NEW i \in DOMAIN q, Injective(q)
  PROVE  /\ TouchFront(q, i) \in Seq(S)
         /\ Len(TouchFront(q, i)) = Len(q)
         /\ Elements(TouchFront(q, i)) = Elements(q)
         /\ Injective(TouchFront(q, i))
<1> DEFINE r == TouchFront(q, i)
<1>1. /\ r = [j \in 1 .. Len(q) |-> IF j = 1 THEN q[i] ELSE IF j <= i THEN q[j-1] ELSE q[j]]
      /\ i \in 1 .. Len(q) /\ Len(q) \in Nat /\ DOMAIN q = 1 .. Len(q)
  BY DEF TouchFront
<1>2. r \in [1 .. Len(q) -> S]
  BY <1>1
<1>3. r \in Seq(S) /\ Len(r) = Len(q) /\ DOMAIN r = 1 .. Len(q)
  BY <1>1, <1>2
<1>4. ASSUME NEW e PROVE e \in Elements(r) <=> e \in Elements(q)
  <2>1. ASSUME NEW j \in DOMAIN r, e = r[j] PROVE e \in Elements(q)
    BY <2>1, <1>1, <1>3 DEF Elements
  <2>2. ASSUME NEW j \in DOMAIN q, e = q[j] PROVE e \in Elements(r)
    <3>1. CASE j = i
      <4>1. 1 \in DOMAIN r /\ r[1] = e
        BY <2>2, <3>1, <1>1, <1>3
      <4> QED BY <4>1 DEF Elements
    <3>2. CASE j < i
      <4>1. j + 1 \in DOMAIN r /\ r[j + 1] = e
        BY <2>2, <3>2, <1>1, <1>3
      <4> QED BY <4>1 DEF Elements
    <3>3. CASE j > i
      <4>1. j \in DOMAIN r /\ r[j] = e
        BY <2>2, <3>3, <1>1, <1>3
      <4> QED BY <4>1 DEF Elements
    <3> QED BY <3>1, <3>2, <3>3, <1>1
  <2> QED BY <2>1, <2>2 DEF Elements
<1>5. Injective(r)
  BY <1>1, <1>3 DEF Injective
<1> QED BY <1>3, <1>4, <1>5

(* emplace_front of a new element.                                         *)
LEMMA PushFrontLemma ==
  ASSUME NEW S, NEW q \in Seq(S), NEW e \in S, e \notin Elements(q), Injective(q)
  PROVE  /\ PushFront(q, e) \in Seq(S)
         /\ PushFront(q, e) # << >>
         /\ Elements(PushFront(q, e)) = Elements(q) \cup {e}
         /\ Injective(PushFront(q, e))
<1> DEFINE r == PushFront(q, e)
<1>1. /\ r = [j \in 1 .. Len(q) + 1 |-> IF j = 1 THEN e ELSE q[j-1]]
      /\ Len(q) \in Nat /\ DOMAIN q = 1 .. Len(q)
  BY DEF PushFront
<1>2. r \in [1 .. Len(q) + 1 -> S]
  BY <1>1
<1>3. r \in Seq(S) /\ Len(r) = Len(q) + 1 /\ DOMAIN r = 1 .. Len(q) + 1
  BY <1>1, <1>2
<1>4. ASSUME NEW x PROVE x \in Elements(r) <=> x \in Elements(q) \/ x = e
  <2>1. ASSUME NEW j \in DOMAIN r, x = r[j] PROVE x \in Elements(q) \/ x = e
    BY <2>1, <1>1, <1>3 DEF Elements
  <2>2. ASSUME NEW j \in DOMAIN q, x = q[j] PROVE x \in Elements(r)
    <3>1. j + 1 \in DOMAIN r /\ r[j + 1] = x
      BY <2>2, <1>1, <1>3
    <3> QED BY <3>1 DEF Elements
  <2>3. e \in Elements(r)
    <3>1. 1 \in DOMAIN r /\ r[1] = e
      BY <1>1, <1>3
    <3> QED BY <3>1 DEF Elements
  <2> QED BY <2>1, <2>2, <2>3 DEF Elements
<1>5. Injective(r)
  BY <1>1, <1>3 DEF Injective, Elements
<1> QED BY <1>3, <1>4, <1>5

(* erase of one position, pop_back among them.                             *)
LEMMA WithoutLemma ==
  ASSUME NEW S, NEW q \in Seq(S), NEW i \in DOMAIN q, Injective(q)
  PROVE  /\ Without(q, i) \in Seq(S)
         /\ Elements(Without(q, i)) = Elements(q) \ {q[i]}
         /\ Injective(Without(q, i))
<1> DEFINE r == Without(q, i)
<1>1. /\ r = [j \in 1 .. Len(q) - 1 |-> IF j < i THEN q[j] ELSE q[j+1]]
      /\ i \in 1 .. Len(q) /\ Len(q) \in Nat /\ DOMAIN q = 1 .. Len(q)
  BY DEF Without
<1>2. r \in [1 .. Len(q) - 1 -> S] /\ Len(q) - 1 \in Nat
  BY <1>1
<1>3. r \in Seq(S) /\ Len(r) = Len(q) - 1 /\ DOMAIN r = 1 .. Len(q) - 1
  BY <1>1, <1>2
<1>4. ASSUME NEW x PROVE x \in Elements(r) <=> x \in Elements(q) /\ x # q[i]
  <2>1. ASSUME NEW j \in DOMAIN r, x = r[j] PROVE x \in Elements(q) /\ x # q[i]
    BY <2>1, <1>1, <1>3 DEF Elements, Injective
  <2>2. ASSUME NEW j \in DOMAIN q, x = q[j], x # q[i] PROVE x \in Elements(r)
    <3>1. CASE j < i
      <4>1. j \in DOMAIN r /\ r[j] = x
        BY <2>2, <3>1, <1>1, <1>3
      <4> QED BY <4>1 DEF Elements
    <3>2. CASE j > i
      <4>1. j - 1 \in DOMAIN r /\ r[j - 1] = x
        BY <2>2, <3>2, <1>1, <1>3
      <4> QED BY <4>1 DEF Elements
    <3> QED BY <2>2, <3>1, <3>2, <1>1
  <2> QED BY <2>1, <2>2 DEF Elements
<1>5. Injective(r)
  BY <1>1, <1>3 DEF Injective
<1> QED BY <1>3, <1>4, <1>5

(* A list without repetition has as many elements as positions.            *)
LEMMA ElementsCardinality ==
  ASSUME NEW S, NEW q \in Seq(S), Injective(q)
  PROVE  IsFiniteSet(Elements(q)) /\ Cardinality(Elements(q)) = Len(q)
<1>1. DOMAIN q = 1 .. Len(q) /\ Len(q) \in Nat
  OBVIOUS
<1>2. IsFiniteSet(1 .. Len(q)) /\ Cardinality(1 .. Len(q)) = Len(q)
  <2>1. PICK n \in Nat : n = Len(q)
    BY <1>1
  <2>2. /\ IsFiniteSet(1 .. n)
        /\ Cardinality(1 .. n) = IF 1 > n THEN 0 ELSE n - 1 + 1
    BY FS_Interval
  <2>3. Cardinality(1 .. n) = n
    BY <2>2
  <2> QED BY <2>1, <2>2, <2>3
<1>3. q \in Injection(1 .. Len(q), Elements(q)) /\ q \in Surjection(1 .. Len(q), Elements(q))
  <2>1. q \in [1 .. Len(q) -> Elements(q)]
    BY <1>1 DEF Elements
  <2> QED BY <1>1, <2>1 DEF Injection, Surjection, IsInjective, Elements, Injective
<1>4. ExistsBijection(1 .. Len(q), Elements(q))
  BY <1>3 DEF ExistsBijection, Bijection
<1> QED BY <1>2, <1>4, FS_Bijection

-----------------------------------------------------------------------------
(* The inductive invariant.                                                *)

(* The shard a thread outside "idle" works on.                             *)
Locked(t) == IF pc[t] = "clearing" THEN clearing[t] ELSE Shard(arg[t])

(* A shard's mutex is held exactly by the thread that works on it.         *)
Ownership ==
  /\ \A s \in Shards : mutex[s] # NoThread =>
       pc[mutex[s]] # "idle" /\ Locked(mutex[s]) = s
  /\ \A t \in Threads : pc[t] # "idle" =>
       Locked(t) \in Shards /\ mutex[Locked(t)] = t

(* A vector that was just inserted is in its list, one that was just       *)
(* erased is not.                                                          *)
Done ==
  \A t \in Threads : pc[t] = "emplaced" => Resident(arg[t])

(* Shards that hold a vector or are about to, those being cleared left out. *)
Occupied == {s \in Shards \ Clearing : lru[s] # << >> \/ mutex[s] # NoThread}

MaxCapacity == IF Capacity = 0 THEN 1 ELSE Capacity

(* The vectors counted, those an insertion has made and those it is        *)
(* committed to exceed the capacity by less than the number of occupied    *)
(* shards.  SoftCapacity alone is not inductive: it does not know that an  *)
(* insertion that has passed the test already owns its excess vector.      *)
Budget ==
  Cardinality(Counted) + Cardinality(Dropping) + Cardinality(Emplacing) + Cardinality(Emplaced)
    <= MaxCapacity - 1 + Cardinality(Occupied)

(* What is left in the shards that are about to be emptied.                *)
Remains == \A s \in Clearing : Len(lru[s]) <= SoftLimit

IInv == TypeOK /\ Ownership /\ Done /\ NoDuplicate /\ Accounting /\ Budget /\ Remains

LEMMA ShardType == \A id \in Ids : Shard(id) \in Shards
BY IdsAssumption, NShardsAssumption DEF Shard, Shards

LEMMA FiniteIds ==
  ASSUME NEW A \in SUBSET Ids
  PROVE  IsFiniteSet(A) /\ Cardinality(A) \in Nat
BY IdsAssumption, FS_Subset, FS_CardinalityType

LEMMA FiniteShards ==
  ASSUME NEW A \in SUBSET Shards
  PROVE  IsFiniteSet(A) /\ Cardinality(A) \in Nat /\ Cardinality(A) <= NShards
<1>1. IsFiniteSet(Shards) /\ Cardinality(Shards) = NShards
  BY NShardsAssumption, FS_Interval DEF Shards
<1> QED BY <1>1, FS_Subset, FS_CardinalityType

LEMMA Subsets ==
  /\ Cached \subseteq Ids /\ Counted \subseteq Ids
  /\ Dropping \subseteq Shards /\ Emplacing \subseteq Shards /\ Emplaced \subseteq Shards
  /\ Clearing \subseteq Shards /\ Occupied \subseteq Shards
BY DEF Cached, Counted, Leaving, Dropping, Emplacing, Emplaced, Clearing, Occupied

LEMMA SubsetsPrime ==
  /\ Cached' \subseteq Ids /\ Counted' \subseteq Ids
  /\ Dropping' \subseteq Shards /\ Emplacing' \subseteq Shards /\ Emplaced' \subseteq Shards
  /\ Clearing' \subseteq Shards /\ Occupied' \subseteq Shards
BY DEF Cached, Counted, Leaving, Dropping, Emplacing, Emplaced, Clearing, Occupied

(* Membership in Counted, in terms of the lists.                           *)
LEMMA CountedElements ==
  \A id : id \in Counted <=>
    /\ id \in Ids /\ id \in Elements(lru[Shard(id)])
    /\ ~At(Shard(id), "clearing")
    /\ ~(At(Shard(id), "emplaced") /\ arg[mutex[Shard(id)]] = id)
BY ShardType DEF Counted, Leaving, Clearing, Cached, Resident, Held, Elements

LEMMA CountedElementsPrime ==
  \A id : id \in Counted' <=>
    /\ id \in Ids /\ id \in Elements(lru'[Shard(id)])
    /\ ~At(Shard(id), "clearing")'
    /\ ~(At(Shard(id), "emplaced")' /\ arg'[mutex'[Shard(id)]] = id)
BY ShardType DEF Counted, Leaving, Clearing, Cached, Resident, Held, Elements

(* NoDuplicate, in terms of the lists' elements.                           *)
LEMMA NoDuplicateElements ==
  NoDuplicate <=>
    /\ \A r \in Shards : Injective(lru[r])
    /\ \A r \in Shards : \A e \in Elements(lru[r]) : Shard(e) = r
    /\ \A t \in Threads :
         pc[t] \in {"evicted", "emplace"} => arg[t] \notin Elements(lru[Shard(arg[t])])
BY DEF NoDuplicate, Resident, Held, Elements

LEMMA NoDuplicateElementsPrime ==
  NoDuplicate' <=>
    /\ \A r \in Shards : Injective(lru'[r])
    /\ \A r \in Shards : \A e \in Elements(lru'[r]) : Shard(e) = r
    /\ \A t \in Threads :
         pc'[t] \in {"evicted", "emplace"} => arg'[t] \notin Elements(lru'[Shard(arg'[t])])
BY DEF NoDuplicate, Resident, Held, Elements

(* The counts of a state as numbers: what the arithmetic of each step uses. *)
LEMMA Counts ==
  /\ Cardinality(Counted) \in Nat /\ IsFiniteSet(Counted)
  /\ Cardinality(Dropping) \in Nat /\ IsFiniteSet(Dropping)
  /\ Cardinality(Emplacing) \in Nat /\ IsFiniteSet(Emplacing)
  /\ Cardinality(Emplaced) \in Nat /\ IsFiniteSet(Emplaced)
  /\ Cardinality(Occupied) \in Nat /\ IsFiniteSet(Occupied)
  /\ MaxCapacity \in Nat /\ Capacity \in Nat /\ Capacity <= MaxCapacity
BY Subsets, FiniteIds, FiniteShards, CapacityAssumption DEF MaxCapacity

LEMMA CountsPrime ==
  /\ Cardinality(Counted') \in Nat /\ IsFiniteSet(Counted')
  /\ Cardinality(Dropping') \in Nat
  /\ Cardinality(Emplacing') \in Nat
  /\ Cardinality(Emplaced') \in Nat
  /\ Cardinality(Occupied') \in Nat
  /\ MaxCapacity' = MaxCapacity /\ SoftLimit' = SoftLimit
BY SubsetsPrime, FiniteIds, FiniteShards DEF MaxCapacity, SoftLimit

(* The counts after a step that adds an element to one of the sets, or     *)
(* removes one.                                                            *)
LEMMA OneMore ==
  ASSUME NEW A, NEW x, IsFiniteSet(A), x \notin A
  PROVE  Cardinality(A \cup {x}) = Cardinality(A) + 1
BY FS_AddElement

LEMMA OneLess ==
  ASSUME NEW A, NEW x, IsFiniteSet(A), x \in A
  PROVE  Cardinality(A \ {x}) = Cardinality(A) - 1
BY FS_RemoveElement

(* Every shard with an insertion in flight is occupied.                    *)
LEMMA InFlight ==
  Cardinality(Emplacing') + Cardinality(Emplaced') <= Cardinality(Occupied')
<1>1. /\ Emplacing' \cup Emplaced' \subseteq Occupied'
      /\ Emplacing' \cap Emplaced' = {}
  BY DEF Emplacing, Emplaced, Occupied, Clearing, At
<1>2. /\ IsFiniteSet(Emplacing') /\ IsFiniteSet(Emplaced') /\ IsFiniteSet(Occupied')
      /\ Cardinality(Emplacing' \cap Emplaced') = 0
  BY <1>1, SubsetsPrime, FiniteShards, FS_EmptySet
<1>3. Cardinality(Emplacing' \cup Emplaced')
        = Cardinality(Emplacing') + Cardinality(Emplaced') - Cardinality(Emplacing' \cap Emplaced')
  BY <1>2, FS_Union
<1>4. Cardinality(Emplacing' \cup Emplaced') <= Cardinality(Occupied')
  BY <1>1, <1>2, FS_Subset
<1> QED BY <1>2, <1>3, <1>4, CountsPrime

-----------------------------------------------------------------------------
(* Every action preserves the invariant.                                   *)

(* A step of thread t in the critical section of shard s that leaves the   *)
(* thread at p: the mutex was free or the thread's, is released when p is  *)
(* "idle", and only this shard and this thread change.  The last four      *)
(* conjuncts are what the invariant asks of the shard afterwards.          *)
Section(t, s, p) ==
  /\ \/ mutex[s] = NoThread /\ pc[t] = "idle"
     \/ mutex[s] = t /\ pc[t] # "idle"
  /\ mutex' = [mutex EXCEPT ![s] = IF p = "idle" THEN NoThread ELSE t]
  /\ pc' = [pc EXCEPT ![t] = p]
  /\ \A r \in Shards \ {s} : lru'[r] = lru[r]
  /\ \A u \in Threads \ {t} : arg'[u] = arg[u] /\ clearing'[u] = clearing[u]
  /\ p # "idle" => (IF p = "clearing" THEN clearing'[t] ELSE Shard(arg'[t])) = s
  /\ Injective(lru'[s]) /\ \A e \in Elements(lru'[s]) : Shard(e) = s
  /\ p \in {"evicted", "emplace"} => arg'[t] \notin Elements(lru'[s])
  /\ p = "emplaced" => arg'[t] \in Elements(lru'[s])
  /\ p = "clearing" => Len(lru'[s]) <= SoftLimit

(* The rest of the cache does not notice such a step.                      *)
LEMMA SectionElsewhere ==
  ASSUME IInv, NEW t \in Threads, NEW s \in Shards, NEW p, Section(t, s, p)
  PROVE  /\ \A r \in Shards \ {s} : mutex'[r] = mutex[r] /\ mutex[r] # t
         /\ \A u \in Threads \ {t} :
              pc'[u] = pc[u] /\ (pc[u] # "idle" => Locked(u) \in Shards \ {s})
         /\ \A r \in Shards \ {s} : \A q : At(r, q)' <=> At(r, q)
         /\ \A r \in Shards \ {s} :
              mutex[r] # NoThread => arg'[mutex'[r]] = arg[mutex[r]]
         /\ \A q : At(s, q)' <=> p # "idle" /\ q = p
         /\ \A q : At(s, q) <=> mutex[s] = t /\ q = pc[t]
         /\ p # "idle" => mutex'[s] = t
         /\ p = "idle" => mutex'[s] = NoThread
<1> USE DEF IInv
<1>1. t # NoThread /\ \A u \in Threads : u # NoThread
  BY ThreadsAssumption
<1>2. \A r \in Shards \ {s} : mutex[r] # t
  <2>1. CASE mutex[s] = NoThread /\ pc[t] = "idle"
    BY <2>1, <1>1 DEF Ownership
  <2>2. CASE mutex[s] = t /\ pc[t] # "idle"
    BY <2>2, <1>1 DEF Ownership
  <2> QED BY <2>1, <2>2 DEF Section
<1>3. \A r \in Shards \ {s} : mutex'[r] = mutex[r]
  BY DEF Section, TypeOK
<1>4. /\ mutex'[s] = IF p = "idle" THEN NoThread ELSE t
      /\ pc'[t] = p
  BY DEF Section, TypeOK
<1>5. \A u \in Threads \ {t} :
        pc'[u] = pc[u] /\ (pc[u] # "idle" => Locked(u) \in Shards \ {s})
  <2> SUFFICES ASSUME NEW u \in Threads \ {t}
               PROVE  pc'[u] = pc[u] /\ (pc[u] # "idle" => Locked(u) \in Shards \ {s})
    OBVIOUS
  <2>1. pc'[u] = pc[u]
    BY DEF Section, TypeOK
  <2>2. mutex[s] # u
    BY <1>1 DEF Section
  <2> QED BY <2>1, <2>2 DEF Ownership
<1>6. \A r \in Shards \ {s} : \A q : At(r, q)' <=> At(r, q)
  BY <1>2, <1>3, <1>5 DEF At, TypeOK
<1>7. \A r \in Shards \ {s} : mutex[r] # NoThread => arg'[mutex'[r]] = arg[mutex[r]]
  BY <1>2, <1>3 DEF Section, TypeOK
<1>8. \A q : At(s, q)' <=> p # "idle" /\ q = p
  BY <1>1, <1>4 DEF At
<1>9. \A q : At(s, q) <=> mutex[s] = t /\ q = pc[t]
  BY <1>1 DEF At, Section
<1> QED BY <1>2, <1>3, <1>4, <1>5, <1>6, <1>7, <1>8, <1>9

LEMMA SectionStep ==
  ASSUME IInv, TypeOK', NEW t \in Threads, NEW s \in Shards, NEW p, Section(t, s, p)
  PROVE  Ownership' /\ Done' /\ NoDuplicate' /\ Remains'
<1> USE DEF IInv
<1>1. t # NoThread /\ pc'[t] = p
  BY ThreadsAssumption DEF Section, TypeOK
<1>2. Ownership'
  <2>1. p # "idle" => Locked(t)' = s
    BY <1>1 DEF Section, Locked
  <2>2. ASSUME NEW r \in Shards, mutex'[r] # NoThread
        PROVE  pc'[mutex'[r]] # "idle" /\ Locked(mutex[r])' = r
    <3>1. CASE r = s
      <4>1. p # "idle" /\ mutex'[r] = t
        BY <3>1, <2>2, SectionElsewhere
      <4> QED BY <4>1, <3>1, <1>1, <2>1 DEF Locked
    <3>2. CASE r # s
      <4>1. mutex'[r] = mutex[r] /\ mutex[r] \in Threads \ {t}
        BY <3>2, <2>2, SectionElsewhere DEF TypeOK
      <4>2. /\ pc'[mutex[r]] = pc[mutex[r]] /\ arg'[mutex[r]] = arg[mutex[r]]
            /\ clearing'[mutex[r]] = clearing[mutex[r]]
        BY <4>1, SectionElsewhere DEF Section
      <4>3. pc[mutex[r]] # "idle" /\ Locked(mutex[r]) = r
        BY <4>1, <2>2 DEF Ownership
      <4> QED BY <4>1, <4>2, <4>3 DEF Locked
    <3> QED BY <3>1, <3>2
  <2>3. ASSUME NEW u \in Threads, pc'[u] # "idle"
        PROVE  Locked(u)' \in Shards /\ mutex'[Locked(u)'] = u
    <3>1. CASE u = t
      <4>1. p # "idle" /\ mutex'[s] = t
        BY <3>1, <2>3, <1>1, SectionElsewhere
      <4> QED BY <4>1, <3>1, <2>1
    <3>2. CASE u # t
      <4>0. arg'[u] = arg[u] /\ clearing'[u] = clearing[u]
        BY <3>2 DEF Section
      <4>1. pc'[u] = pc[u] /\ Locked(u) \in Shards \ {s}
        BY <3>2, <2>3, SectionElsewhere
      <4>2. Locked(u)' = Locked(u)
        BY <4>0, <4>1 DEF Locked
      <4>3. mutex[Locked(u)] = u /\ mutex'[Locked(u)] = mutex[Locked(u)]
        BY <4>1, <2>3, SectionElsewhere DEF Ownership
      <4> QED BY <4>1, <4>2, <4>3
    <3> QED BY <3>1, <3>2
  <2> QED BY <2>2, <2>3 DEF Ownership, Locked
<1>3. ASSUME NEW u \in Threads \ {t}, pc'[u] \in {"evicted", "emplace", "emplaced"}
      PROVE  /\ pc[u] = pc'[u] /\ arg'[u] = arg[u]
             /\ Shard(arg[u]) \in Shards /\ lru'[Shard(arg[u])] = lru[Shard(arg[u])]
  <2>1. pc[u] = pc'[u] /\ Locked(u) \in Shards \ {s}
    BY <1>3, SectionElsewhere
  <2>2. Locked(u) = Shard(arg[u])
    BY <2>1, <1>3 DEF Locked
  <2> QED BY <2>1, <2>2 DEF Section
<1>4. Done'
  <2> SUFFICES ASSUME NEW u \in Threads, pc'[u] = "emplaced"
               PROVE  arg'[u] \in Elements(lru'[Shard(arg'[u])])
    BY DEF Done, Resident, Held, Elements
  <2>1. CASE u = t
    BY <2>1, <1>1 DEF Section
  <2>2. CASE u # t
    <3>1. arg[u] \in Elements(lru[Shard(arg[u])])
      BY <2>2, <1>3 DEF Done, Resident, Held, Elements
    <3> QED BY <3>1, <2>2, <1>3
  <2> QED BY <2>1, <2>2
<1>5. NoDuplicate'
  <2>1. ASSUME NEW u \in Threads, pc'[u] \in {"evicted", "emplace"}
        PROVE  arg'[u] \notin Elements(lru'[Shard(arg'[u])])
    <3>1. CASE u = t
      BY <3>1, <2>1, <1>1 DEF Section
    <3>2. CASE u # t
      BY <3>2, <2>1, <1>3, NoDuplicateElements
    <3> QED BY <3>1, <3>2
  <2>2. \A r \in Shards : Injective(lru'[r]) /\ \A e \in Elements(lru'[r]) : Shard(e) = r
    <3> SUFFICES ASSUME NEW r \in Shards
                 PROVE  Injective(lru'[r]) /\ \A e \in Elements(lru'[r]) : Shard(e) = r
      OBVIOUS
    <3>1. CASE r = s
      BY <3>1 DEF Section
    <3>2. CASE r # s
      <4>1. lru'[r] = lru[r]
        BY <3>2 DEF Section
      <4> QED BY <4>1, NoDuplicateElements
    <3> QED BY <3>1, <3>2
  <2> QED BY <2>1, <2>2, NoDuplicateElementsPrime
<1>6. Remains'
  <2> SUFFICES ASSUME NEW r \in Shards, At(r, "clearing")'
               PROVE  Len(lru'[r]) <= SoftLimit
    BY CountsPrime DEF Remains, Clearing
  <2>1. CASE r = s
    <3>1. p = "clearing"
      BY <2>1, SectionElsewhere
    <3> QED BY <3>1, <2>1 DEF Section
  <2>2. CASE r # s
    <3>1. At(r, "clearing")
      BY <2>2, SectionElsewhere
    <3>2. lru'[r] = lru[r]
      BY <2>2 DEF Section
    <3> QED BY <3>1, <3>2 DEF Remains, Clearing
  <2> QED BY <2>1, <2>2
<1> QED BY <1>2, <1>4, <1>5, <1>6

(* What such a step does to the sets the invariant counts.                 *)
Effect(t, s, p) ==
  /\ Dropping'  = IF p \in {"evicted", "erased"} THEN Dropping \cup {s} ELSE Dropping \ {s}
  /\ Emplacing' = IF p = "emplace" THEN Emplacing \cup {s} ELSE Emplacing \ {s}
  /\ Emplaced'  = IF p = "emplaced" THEN Emplaced \cup {s} ELSE Emplaced \ {s}
  /\ s \in Dropping  <=> mutex[s] = t /\ pc[t] \in {"evicted", "erased"}
  /\ s \in Emplacing <=> mutex[s] = t /\ pc[t] = "emplace"
  /\ s \in Emplaced  <=> mutex[s] = t /\ pc[t] = "emplaced"
  /\ Occupied' = IF p # "clearing" /\ (lru'[s] # << >> \/ p # "idle")
                 THEN Occupied \cup {s} ELSE Occupied \ {s}
  /\ s \in Occupied <=>
       ~(mutex[s] = t /\ pc[t] = "clearing") /\ (lru[s] # << >> \/ mutex[s] = t)
  /\ Counted \subseteq Ids /\ Counted' \subseteq Ids
  /\ \A id \in Ids :
       id \in Counted' <=>
         IF Shard(id) = s
         THEN /\ id \in Elements(lru'[s]) /\ p # "clearing"
              /\ ~(p = "emplaced" /\ arg'[t] = id)
         ELSE id \in Counted
  /\ \A id \in Ids : Shard(id) = s =>
       (id \in Counted <=> /\ id \in Elements(lru[s])
                           /\ ~(mutex[s] = t /\ pc[t] = "clearing")
                           /\ ~(mutex[s] = t /\ pc[t] = "emplaced" /\ arg[t] = id))

LEMMA SectionSets ==
  ASSUME IInv, NEW t \in Threads, NEW s \in Shards, NEW p, Section(t, s, p)
  PROVE  Effect(t, s, p)
<1>1. Dropping'  = IF p \in {"evicted", "erased"} THEN Dropping \cup {s} ELSE Dropping \ {s}
  BY SectionElsewhere DEF Dropping
<1>2. Emplacing' = IF p = "emplace" THEN Emplacing \cup {s} ELSE Emplacing \ {s}
  BY SectionElsewhere DEF Emplacing
<1>3. Emplaced'  = IF p = "emplaced" THEN Emplaced \cup {s} ELSE Emplaced \ {s}
  BY SectionElsewhere DEF Emplaced
<1>4. /\ s \in Dropping  <=> mutex[s] = t /\ pc[t] \in {"evicted", "erased"}
      /\ s \in Emplacing <=> mutex[s] = t /\ pc[t] = "emplace"
      /\ s \in Emplaced  <=> mutex[s] = t /\ pc[t] = "emplaced"
  BY SectionElsewhere DEF Dropping, Emplacing, Emplaced
<1>5. \A r \in Shards \ {s} : r \in Occupied' <=> r \in Occupied
  <2> SUFFICES ASSUME NEW r \in Shards \ {s} PROVE r \in Occupied' <=> r \in Occupied
    OBVIOUS
  <2>1. mutex'[r] = mutex[r] /\ (At(r, "clearing")' <=> At(r, "clearing"))
    BY SectionElsewhere
  <2>2. lru'[r] = lru[r]
    BY DEF Section
  <2> QED BY <2>1, <2>2 DEF Occupied, Clearing
<1>6. s \in Occupied' <=> p # "clearing" /\ (lru'[s] # << >> \/ p # "idle")
  <2>1. mutex'[s] # NoThread <=> p # "idle"
    BY SectionElsewhere, ThreadsAssumption
  <2>2. At(s, "clearing")' <=> p = "clearing"
    BY SectionElsewhere
  <2> QED BY <2>1, <2>2 DEF Occupied, Clearing
<1>7. s \in Occupied <=>
        ~(mutex[s] = t /\ pc[t] = "clearing") /\ (lru[s] # << >> \/ mutex[s] = t)
  <2>1. mutex[s] # NoThread <=> mutex[s] = t
    BY ThreadsAssumption DEF Section
  <2>2. At(s, "clearing") <=> mutex[s] = t /\ pc[t] = "clearing"
    BY SectionElsewhere
  <2> QED BY <2>1, <2>2 DEF Occupied, Clearing
<1>8. ASSUME NEW id, Shard(id) # s PROVE id \in Counted' <=> id \in Counted
  <2>1. CASE id \notin Ids
    BY <2>1, Subsets, SubsetsPrime
  <2>2. CASE id \in Ids
    <3> DEFINE r == Shard(id)
    <3>1. r \in Shards \ {s}
      BY <1>8, <2>2, ShardType
    <3>2. /\ lru'[r] = lru[r]
          /\ At(r, "clearing")' <=> At(r, "clearing")
          /\ At(r, "emplaced")' <=> At(r, "emplaced")
      BY <3>1, SectionElsewhere DEF Section
    <3>3. At(r, "emplaced") => arg'[mutex'[r]] = arg[mutex[r]]
      BY <3>1, SectionElsewhere DEF At
    <3> QED BY <3>2, <3>3, CountedElements, CountedElementsPrime
  <2> QED BY <2>1, <2>2
<1>9. ASSUME NEW id \in Ids, Shard(id) = s
      PROVE  /\ id \in Counted' <=> /\ id \in Elements(lru'[s]) /\ p # "clearing"
                                    /\ ~(p = "emplaced" /\ arg'[t] = id)
             /\ id \in Counted <=> /\ id \in Elements(lru[s])
                                   /\ ~(mutex[s] = t /\ pc[t] = "clearing")
                                   /\ ~(mutex[s] = t /\ pc[t] = "emplaced" /\ arg[t] = id)
  <2>1. /\ At(s, "clearing")' <=> p = "clearing"
        /\ At(s, "emplaced")' <=> p = "emplaced"
        /\ At(s, "clearing") <=> mutex[s] = t /\ pc[t] = "clearing"
        /\ At(s, "emplaced") <=> mutex[s] = t /\ pc[t] = "emplaced"
        /\ p # "idle" => mutex'[s] = t
    BY SectionElsewhere
  <2>2. id \in Counted' <=> /\ id \in Elements(lru'[s]) /\ p # "clearing"
                            /\ ~(p = "emplaced" /\ arg'[t] = id)
    BY <1>9, <2>1, CountedElementsPrime
  <2>3. id \in Counted <=> /\ id \in Elements(lru[s])
                           /\ ~(mutex[s] = t /\ pc[t] = "clearing")
                           /\ ~(mutex[s] = t /\ pc[t] = "emplaced" /\ arg[t] = id)
    BY <1>9, <2>1, CountedElements
  <2> QED BY <2>2, <2>3
<1>10. Occupied' = IF p # "clearing" /\ (lru'[s] # << >> \/ p # "idle")
                   THEN Occupied \cup {s} ELSE Occupied \ {s}
  BY <1>5, <1>6, Subsets, SubsetsPrime
<1> QED BY <1>1, <1>2, <1>3, <1>4, <1>7, <1>8, <1>9, <1>10, Subsets, SubsetsPrime DEF Effect

(* A hit, in insert_with_eviction or in get, only reorders one list.       *)
LEMMA TouchStep ==
  ASSUME IInv, NEW id \in Ids, NEW i \in DOMAIN lru[Shard(id)], mutex[Shard(id)] = NoThread,
         lru' = [lru EXCEPT ![Shard(id)] = TouchFront(@, i)],
         todo' \in [Threads -> SUBSET Ids],
         UNCHANGED <<global_size, mutex, pc, arg, clearing>>
  PROVE  IInv'
<1> DEFINE s == Shard(id)
<1> USE DEF IInv
<1>1. s \in Shards /\ lru[s] \in Seq(Ids) /\ Injective(lru[s])
  BY ShardType DEF TypeOK, NoDuplicate
<1>2. /\ lru'[s] = TouchFront(lru[s], i)
      /\ \A r \in Shards \ {s} : lru'[r] = lru[r]
  BY <1>1 DEF TypeOK
<1>3. /\ lru'[s] \in Seq(Ids) /\ Injective(lru'[s])
      /\ Len(lru'[s]) = Len(lru[s])
      /\ Elements(lru'[s]) = Elements(lru[s])
  BY <1>1, <1>2, TouchFrontLemma
<1>4. \A r \in Shards : Elements(lru'[r]) = Elements(lru[r])
  BY <1>2, <1>3
<1>5. \A r, q : At(r, q)' <=> At(r, q)
  BY DEF At
<1>6. Counted' = Counted
  BY <1>4, <1>5, ShardType, CountedElements, CountedElementsPrime
<1>7. /\ Dropping' = Dropping /\ Emplacing' = Emplacing
      /\ Emplaced' = Emplaced /\ Clearing' = Clearing
  BY <1>5 DEF Dropping, Emplacing, Emplaced, Clearing
<1>8. Occupied' = Occupied
  <2>1. lru[s] # << >> /\ lru'[s] # << >>
    BY <1>1, <1>3
  <2> QED BY <2>1, <1>2, <1>7 DEF Occupied
<1>9. TypeOK'
  BY <1>2, <1>3 DEF TypeOK
<1>10. NoDuplicate'
  <2>1. \A r \in Shards : Injective(lru'[r])
    BY <1>2, <1>3, NoDuplicateElements
  <2>2. \A r \in Shards : \A e \in Elements(lru'[r]) : Shard(e) = r
    BY <1>4, NoDuplicateElements
  <2>3. ASSUME NEW t \in Threads, pc'[t] \in {"evicted", "emplace"}
        PROVE  arg'[t] \notin Elements(lru'[Shard(arg'[t])])
    <3>1. arg'[t] = arg[t] /\ arg[t] \in Ids /\ pc[t] = pc'[t]
      BY DEF TypeOK
    <3> QED BY <2>3, <3>1, <1>4, ShardType, NoDuplicateElements
  <2> QED BY <2>1, <2>2, <2>3, NoDuplicateElementsPrime
<1>11. Ownership'
  BY DEF Ownership, Locked
<1>12. Done'
  <2> SUFFICES ASSUME NEW t \in Threads, pc'[t] = "emplaced"
               PROVE  arg'[t] \in Elements(lru'[Shard(arg'[t])])
    BY DEF Done, Resident, Held, Elements
  <2>1. arg[t] \in Ids /\ arg[t] \in Elements(lru[Shard(arg[t])])
    BY DEF Done, TypeOK, Resident, Held, Elements
  <2> QED BY <2>1, <1>4, ShardType
<1>13. Remains'
  <2>1. s \notin Clearing
    BY DEF Clearing, At
  <2> QED BY <2>1, <1>2, <1>7, CountsPrime DEF Remains, Clearing
<1>14. Accounting' /\ Budget'
  BY <1>6, <1>7, <1>8, CountsPrime DEF Accounting, Budget
<1> QED BY <1>9, <1>10, <1>11, <1>12, <1>13, <1>14

LEMMA InsertNoEvictStep ==
  ASSUME IInv, NEW t \in Threads, NEW id \in Ids, InsertNoEvict(t, id)
  PROVE  IInv'
<1> DEFINE s == Shard(id)
<1> USE DEF IInv
<1>1. /\ s \in Shards /\ mutex[s] = NoThread /\ t # NoThread
      /\ pc[t] = "idle" /\ id \notin Elements(lru[s])
      /\ lru' = lru /\ global_size' = global_size
  BY ShardType, ThreadsAssumption DEF InsertNoEvict, CanLock, Idle, Resident, Held, Elements
<1>2. TypeOK'
  BY <1>1 DEF TypeOK, InsertNoEvict
<1>3. Section(t, s, "emplace")
  <2>1. arg'[t] = id /\ Injective(lru[s]) /\ \A e \in Elements(lru[s]) : Shard(e) = s
    BY <1>1, NoDuplicateElements DEF InsertNoEvict, TypeOK
  <2> QED BY <1>1, <2>1 DEF Section, InsertNoEvict, TypeOK
<1>e. Effect(t, s, "emplace")
  BY <1>1, <1>3, SectionSets
<1>4. Ownership' /\ Done' /\ NoDuplicate' /\ Remains'
  BY <1>1, <1>2, <1>3, SectionStep
<1>5. Counted' = Counted
  BY <1>1, <1>e DEF Effect
<1>6. /\ Dropping' = Dropping /\ Emplaced' = Emplaced
      /\ Emplacing' = Emplacing \cup {s} /\ s \notin Emplacing
  BY <1>1, <1>e DEF Effect
<1>7. Occupied' = Occupied \cup {s} /\ (s \in Occupied <=> lru[s] # << >>)
  BY <1>1, <1>e DEF Effect
<1>8. Cardinality(Emplacing') = Cardinality(Emplacing) + 1
  BY <1>6, Counts, OneMore
<1>9. Accounting'
  BY <1>1, <1>5, <1>6 DEF Accounting
<1>10. Budget'
  <2>1. CASE lru[s] = << >>
    <3>1. Cardinality(Occupied') = Cardinality(Occupied) + 1
      BY <1>7, <2>1, Counts, OneMore
    <3> QED BY <3>1, <1>5, <1>6, <1>8, Counts, CountsPrime DEF Budget
  <2>2. CASE lru[s] # << >>
    <3>1. Cardinality(Counted) + Cardinality(Dropping) <= Capacity - 1
      <4>1. global_size < Capacity
        BY <2>2, Counts DEF InsertNoEvict, MustEvict, TypeOK
      <4> QED BY <4>1, Counts DEF Accounting
    <3>2. Cardinality(Counted') + Cardinality(Dropping') + Cardinality(Emplacing')
            + Cardinality(Emplaced') <= MaxCapacity - 1 + Cardinality(Occupied')
      BY <3>1, <1>5, <1>6, InFlight, Counts, CountsPrime
    <3> QED BY <3>2, CountsPrime DEF Budget
  <2> QED BY <2>1, <2>2
<1> QED BY <1>2, <1>4, <1>9, <1>10

LEMMA InsertEvictStep ==
  ASSUME IInv, NEW t \in Threads, NEW id \in Ids, InsertEvict(t, id)
  PROVE  IInv'
<1> DEFINE s == Shard(id)
           n == Len(lru[s])
           last == lru[s][n]
<1> USE DEF IInv
<1>1. /\ s \in Shards /\ mutex[s] = NoThread /\ t # NoThread
      /\ pc[t] = "idle" /\ id \notin Elements(lru[s])
      /\ lru[s] \in Seq(Ids) /\ lru[s] # << >> /\ Injective(lru[s])
      /\ global_size' = global_size
  BY ShardType, ThreadsAssumption DEF InsertEvict, CanLock, MustEvict, Idle, Resident, Held, Elements, TypeOK, NoDuplicate
<1>2. n \in DOMAIN lru[s] /\ last \in Elements(lru[s]) /\ last \in Ids /\ Shard(last) = s
  <2>1. n \in DOMAIN lru[s] /\ last \in Elements(lru[s]) /\ last \in Ids
    BY <1>1 DEF Elements
  <2> QED BY <2>1, <1>1, NoDuplicateElements
<1>3. /\ lru'[s] \in Seq(Ids) /\ Injective(lru'[s])
      /\ Elements(lru'[s]) = Elements(lru[s]) \ {last}
      /\ \A r \in Shards \ {s} : lru'[r] = lru[r]
  <2>1. /\ lru'[s] = Without(lru[s], n)
        /\ \A r \in Shards \ {s} : lru'[r] = lru[r]
    BY <1>1 DEF InsertEvict, TypeOK
  <2> QED BY <2>1, <1>1, <1>2, WithoutLemma
<1>4. TypeOK'
  BY <1>1, <1>3 DEF TypeOK, InsertEvict
<1>5. Section(t, s, "evicted")
  <2>1. arg'[t] = id /\ \A e \in Elements(lru'[s]) : Shard(e) = s
    BY <1>1, <1>3, NoDuplicateElements DEF InsertEvict, TypeOK
  <2>2. id \notin Elements(lru'[s])
    BY <1>1, <1>3
  <2> QED BY <1>1, <1>3, <2>1, <2>2 DEF Section, InsertEvict, TypeOK
<1>e. Effect(t, s, "evicted")
  BY <1>1, <1>5, SectionSets
<1>6. Ownership' /\ Done' /\ NoDuplicate' /\ Remains'
  BY <1>1, <1>4, <1>5, SectionStep
<1>7. Counted' = Counted \ {last} /\ last \in Counted
  BY <1>1, <1>2, <1>3, <1>e DEF Effect
<1>8. /\ Emplacing' = Emplacing /\ Emplaced' = Emplaced
      /\ Dropping' = Dropping \cup {s} /\ s \notin Dropping
  BY <1>1, <1>e DEF Effect
<1>9. Occupied' = Occupied
  BY <1>1, <1>e DEF Effect
<1>10. /\ Cardinality(Counted') = Cardinality(Counted) - 1
       /\ Cardinality(Dropping') = Cardinality(Dropping) + 1
  BY <1>7, <1>8, Counts, OneMore, OneLess
<1>11. Accounting' /\ Budget'
  <2>1. Accounting /\ Budget
    OBVIOUS
  <2>2. global_size' = global_size
    BY <1>1
  <2> HIDE DEF IInv, s, n, last
  <2> QED BY <2>1, <2>2, <1>8, <1>9, <1>10, Counts, CountsPrime DEF Accounting, Budget
<1> QED BY <1>4, <1>6, <1>11

LEMMA CountEvictionStep ==
  ASSUME IInv, NEW t \in Threads, CountEviction(t)
  PROVE  IInv'
<1> DEFINE s == Shard(arg[t])
<1> USE DEF IInv
<1>1. /\ pc[t] = "evicted" /\ s \in Shards /\ mutex[s] = t
      /\ UNCHANGED <<lru, mutex, arg, todo, clearing>>
      /\ global_size' = global_size - 1
      /\ pc' = [pc EXCEPT ![t] = "emplace"]
  BY DEF CountEviction, Ownership, Locked
<1>2. Section(t, s, "emplace")
  <2>1. /\ Injective(lru[s]) /\ \A e \in Elements(lru[s]) : Shard(e) = s
        /\ arg[t] \notin Elements(lru[s])
    BY <1>1, NoDuplicateElements
  <2>2. mutex' = [mutex EXCEPT ![s] = t]
    BY <1>1 DEF TypeOK
  <2> QED BY <1>1, <2>1, <2>2 DEF Section
<1>e. Effect(t, s, "emplace")
  BY <1>1, <1>2, SectionSets
<1>3. Counted' = Counted
  BY <1>1, <1>e DEF Effect
<1>4. /\ Emplaced' = Emplaced
      /\ Dropping' = Dropping \ {s} /\ s \in Dropping
      /\ Emplacing' = Emplacing \cup {s} /\ s \notin Emplacing
  BY <1>1, <1>e DEF Effect
<1>5. Occupied' = Occupied
  BY <1>1, <1>e DEF Effect
<1>6. /\ Cardinality(Dropping') = Cardinality(Dropping) - 1
      /\ Cardinality(Emplacing') = Cardinality(Emplacing) + 1
  BY <1>4, Counts, OneMore, OneLess
<1>7. Accounting' /\ Budget'
  BY <1>1, <1>3, <1>4, <1>5, <1>6, Counts, CountsPrime DEF Accounting, Budget
<1>8. TypeOK'
  BY <1>1, <1>7, CountsPrime DEF TypeOK, Accounting
<1>9. Ownership' /\ Done' /\ NoDuplicate' /\ Remains'
  BY <1>1, <1>2, <1>8, SectionStep
<1> QED BY <1>7, <1>8, <1>9

LEMMA EmplaceStep ==
  ASSUME IInv, NEW t \in Threads, Emplace(t)
  PROVE  IInv'
<1> DEFINE id == arg[t]
           s == Shard(id)
<1> USE DEF IInv
<1>1. /\ pc[t] = "emplace" /\ id \in Ids /\ s \in Shards /\ mutex[s] = t
      /\ id \notin Elements(lru[s])
      /\ lru[s] \in Seq(Ids) /\ Injective(lru[s])
  BY NoDuplicateElements DEF Emplace, TypeOK, Ownership, Locked
<1>2. /\ lru' = [lru EXCEPT ![s] = PushFront(lru[s], id)]
      /\ pc' = [pc EXCEPT ![t] = "emplaced"]
      /\ UNCHANGED <<global_size, mutex, arg, todo, clearing>>
  BY DEF Emplace
<1>3. /\ lru'[s] \in Seq(Ids) /\ Injective(lru'[s]) /\ lru'[s] # << >>
      /\ Elements(lru'[s]) = Elements(lru[s]) \cup {id}
      /\ \A r \in Shards \ {s} : lru'[r] = lru[r]
  BY <1>1, <1>2, PushFrontLemma DEF TypeOK
<1>4. TypeOK'
  BY <1>1, <1>2, <1>3 DEF TypeOK
<1>5. Section(t, s, "emplaced")
  <2>1. \A e \in Elements(lru'[s]) : Shard(e) = s
    BY <1>1, <1>3, NoDuplicateElements
  <2>2. mutex' = [mutex EXCEPT ![s] = t]
    BY <1>1, <1>2 DEF TypeOK
  <2>3. arg'[t] \in Elements(lru'[s])
    BY <1>2, <1>3
  <2> QED BY <1>1, <1>2, <1>3, <2>1, <2>2, <2>3 DEF Section
<1>e. Effect(t, s, "emplaced")
  BY <1>1, <1>5, SectionSets
<1>6. Ownership' /\ Done' /\ NoDuplicate' /\ Remains'
  BY <1>1, <1>4, <1>5, SectionStep
<1>7. Counted' = Counted
  <2>1. ASSUME NEW e \in Ids PROVE e \in Counted' <=> e \in Counted
    <3>1. CASE Shard(e) # s
      BY <3>1, <1>1, <1>e DEF Effect
    <3>2. CASE Shard(e) = s
      <4>1. e \in Counted' <=> e \in Elements(lru'[s]) /\ e # id
        BY <3>2, <1>1, <1>2, <1>e DEF Effect
      <4>2. e \in Counted <=> e \in Elements(lru[s])
        BY <3>2, <1>1, <1>e DEF Effect
      <4> QED BY <4>1, <4>2, <1>1, <1>3
    <3> QED BY <3>1, <3>2
  <2> QED BY <2>1, Subsets, SubsetsPrime
<1>8. /\ Dropping' = Dropping
      /\ Emplacing' = Emplacing \ {s} /\ s \in Emplacing
      /\ Emplaced' = Emplaced \cup {s} /\ s \notin Emplaced
  BY <1>1, <1>e DEF Effect
<1>9. Occupied' = Occupied
  BY <1>1, <1>3, <1>e DEF Effect
<1>10. /\ Cardinality(Emplacing') = Cardinality(Emplacing) - 1
       /\ Cardinality(Emplaced') = Cardinality(Emplaced) + 1
  BY <1>8, Counts, OneMore, OneLess
<1>11. Accounting' /\ Budget'
  BY <1>2, <1>7, <1>8, <1>9, <1>10, Counts, CountsPrime DEF Accounting, Budget
<1> QED BY <1>4, <1>6, <1>11

LEMMA CountInsertionStep ==
  ASSUME IInv, NEW t \in Threads, CountInsertion(t)
  PROVE  IInv'
<1> DEFINE id == arg[t]
           s == Shard(id)
<1> USE DEF IInv
<1>1. /\ pc[t] = "emplaced" /\ id \in Ids /\ s \in Shards /\ mutex[s] = t
      /\ id \in Elements(lru[s]) /\ lru[s] # << >>
  <2>1. /\ pc[t] = "emplaced" /\ id \in Ids /\ s \in Shards /\ mutex[s] = t
    BY DEF CountInsertion, TypeOK, Ownership, Locked
  <2>2. id \in Elements(lru[s])
    BY <2>1 DEF Done, Resident, Held, Elements
  <2> QED BY <2>1, <2>2 DEF Elements
<1>2. /\ UNCHANGED <<lru, arg, todo, clearing>>
      /\ global_size' = global_size + 1
      /\ pc' = [pc EXCEPT ![t] = "idle"]
      /\ mutex' = [mutex EXCEPT ![s] = NoThread]
  BY DEF CountInsertion
<1>3. TypeOK'
  <2>1. global_size' \in Nat /\ lru' \in [Shards -> Seq(Ids)]
    BY <1>2 DEF TypeOK
  <2>2. mutex' \in [Shards -> Threads \cup {NoThread}]
    BY <1>2 DEF TypeOK
  <2> QED BY <1>2, <2>1, <2>2 DEF TypeOK
<1>4. Section(t, s, "idle")
  <2>1. Injective(lru[s]) /\ \A e \in Elements(lru[s]) : Shard(e) = s
    BY <1>1, NoDuplicateElements
  <2> QED BY <1>1, <1>2, <2>1 DEF Section
<1>e. Effect(t, s, "idle")
  BY <1>1, <1>4, SectionSets
<1>5. Ownership' /\ Done' /\ NoDuplicate' /\ Remains'
  BY <1>1, <1>3, <1>4, SectionStep
<1>6. Counted' = Counted \cup {id} /\ id \notin Counted
  <2>1. ASSUME NEW e \in Ids PROVE e \in Counted' <=> e \in Counted \/ e = id
    <3>1. CASE Shard(e) # s
      BY <3>1, <1>1, <1>e DEF Effect
    <3>2. CASE Shard(e) = s
      <4>1. e \in Counted' <=> e \in Elements(lru[s])
        BY <3>2, <1>1, <1>2, <1>e DEF Effect
      <4>2. e \in Counted <=> e \in Elements(lru[s]) /\ e # id
        BY <3>2, <1>1, <1>e DEF Effect
      <4> QED BY <4>1, <4>2, <1>1
    <3> QED BY <3>1, <3>2
  <2>2. id \notin Counted
    BY <1>1, <1>e DEF Effect
  <2> QED BY <2>1, <2>2, <1>1, Subsets, SubsetsPrime
<1>7. /\ Dropping' = Dropping /\ Emplacing' = Emplacing
      /\ Emplaced' = Emplaced \ {s} /\ s \in Emplaced
  BY <1>1, <1>e DEF Effect
<1>8. Occupied' = Occupied
  BY <1>1, <1>2, <1>e DEF Effect
<1>9. /\ Cardinality(Counted') = Cardinality(Counted) + 1
      /\ Cardinality(Emplaced') = Cardinality(Emplaced) - 1
  BY <1>6, <1>7, Counts, OneMore, OneLess
<1>10. Accounting' /\ Budget'
  BY <1>2, <1>7, <1>8, <1>9, Counts, CountsPrime DEF Accounting, Budget
<1> QED BY <1>3, <1>5, <1>10

LEMMA EraseStep ==
  ASSUME IInv, NEW t \in Threads, NEW id \in Ids, NEW i \in DOMAIN lru[Shard(id)],
         Erase(t, id, i)
  PROVE  IInv'
<1> DEFINE s == Shard(id)
<1> USE DEF IInv
<1>1. /\ s \in Shards /\ mutex[s] = NoThread /\ pc[t] = "idle" /\ lru[s][i] = id
      /\ lru[s] \in Seq(Ids) /\ Injective(lru[s])
      /\ id \in Elements(lru[s]) /\ lru[s] # << >>
  BY ShardType DEF Erase, CanLock, Idle, TypeOK, NoDuplicate, Elements
<1>2. /\ lru' = [lru EXCEPT ![s] = Without(lru[s], i)]
      /\ mutex' = [mutex EXCEPT ![s] = t]
      /\ pc' = [pc EXCEPT ![t] = "erased"]
      /\ arg' = [arg EXCEPT ![t] = id]
      /\ UNCHANGED <<global_size, todo, clearing>>
  BY DEF Erase
<1>3. /\ lru'[s] \in Seq(Ids) /\ Injective(lru'[s])
      /\ Elements(lru'[s]) = Elements(lru[s]) \ {id}
      /\ \A r \in Shards \ {s} : lru'[r] = lru[r]
  BY <1>1, <1>2, WithoutLemma DEF TypeOK
<1>4. TypeOK'
  BY <1>1, <1>2, <1>3 DEF TypeOK
<1>5. Section(t, s, "erased")
  <2>1. arg'[t] = id /\ \A e \in Elements(lru'[s]) : Shard(e) = s
    BY <1>1, <1>2, <1>3, NoDuplicateElements DEF TypeOK
  <2> QED BY <1>1, <1>2, <1>3, <2>1 DEF Section, TypeOK
<1>e. Effect(t, s, "erased")
  BY <1>1, <1>5, SectionSets
<1>6. Ownership' /\ Done' /\ NoDuplicate' /\ Remains'
  BY <1>1, <1>4, <1>5, SectionStep
<1>7. Counted' = Counted \ {id} /\ id \in Counted
  BY <1>1, <1>3, <1>e DEF Effect
<1>8. /\ Emplacing' = Emplacing /\ Emplaced' = Emplaced
      /\ Dropping' = Dropping \cup {s} /\ s \notin Dropping
  BY <1>1, <1>e DEF Effect
<1>9. Occupied' = Occupied
  BY <1>1, <1>e DEF Effect
<1>10. /\ Cardinality(Counted') = Cardinality(Counted) - 1
       /\ Cardinality(Dropping') = Cardinality(Dropping) + 1
  BY <1>7, <1>8, Counts, OneMore, OneLess
<1>11. Accounting' /\ Budget'
  BY <1>2, <1>8, <1>9, <1>10, Counts, CountsPrime DEF Accounting, Budget
<1> QED BY <1>4, <1>6, <1>11

LEMMA CountErasureStep ==
  ASSUME IInv, NEW t \in Threads, CountErasure(t)
  PROVE  IInv'
<1> DEFINE s == Shard(arg[t])
<1> USE DEF IInv
<1>1. /\ pc[t] = "erased" /\ s \in Shards /\ mutex[s] = t
      /\ UNCHANGED <<lru, arg, todo, clearing>>
      /\ global_size' = global_size - 1
      /\ pc' = [pc EXCEPT ![t] = "idle"]
      /\ mutex' = [mutex EXCEPT ![s] = NoThread]
  BY DEF CountErasure, Ownership, Locked
<1>2. Section(t, s, "idle")
  <2>1. Injective(lru[s]) /\ \A e \in Elements(lru[s]) : Shard(e) = s
    BY <1>1, NoDuplicateElements
  <2> QED BY <1>1, <2>1 DEF Section
<1>e. Effect(t, s, "idle")
  BY <1>1, <1>2, SectionSets
<1>3. Counted' = Counted
  BY <1>1, <1>e DEF Effect
<1>4. /\ Emplacing' = Emplacing /\ Emplaced' = Emplaced
      /\ Dropping' = Dropping \ {s} /\ s \in Dropping
  BY <1>1, <1>e DEF Effect
<1>5. Cardinality(Occupied') >= Cardinality(Occupied) - 1
  <2>1. Occupied' = Occupied \/ (Occupied' = Occupied \ {s} /\ s \in Occupied)
    BY <1>1, <1>e DEF Effect
  <2> QED BY <2>1, OneLess, Counts
<1>6. Cardinality(Dropping') = Cardinality(Dropping) - 1
  BY <1>4, Counts, OneLess
<1>7. Accounting' /\ Budget'
  BY <1>1, <1>3, <1>4, <1>5, <1>6, Counts, CountsPrime DEF Accounting, Budget
<1>8. TypeOK'
  BY <1>1, <1>7, CountsPrime DEF TypeOK, Accounting
<1>9. Ownership' /\ Done' /\ NoDuplicate' /\ Remains'
  BY <1>1, <1>2, <1>8, SectionStep
<1> QED BY <1>7, <1>8, <1>9

(* clear() takes the content of a shard off the counter: what it holds is  *)
(* within the bound, and is no longer part of the budget.                  *)
LEMMA DiscountShardStep ==
  ASSUME IInv, NEW t \in Threads, DiscountShard(t)
  PROVE  IInv'
<1> DEFINE s == clearing[t]
           gone == Elements(lru[s])
           n == Len(lru[s])
<1> USE DEF IInv
<1>1. /\ s \in Shards /\ mutex[s] = NoThread /\ pc[t] = "idle"
      /\ lru[s] \in Seq(Ids) /\ Injective(lru[s]) /\ n \in Nat
  BY NShardsAssumption DEF DiscountShard, CanLock, TypeOK, NoDuplicate, Shards
<1>2. /\ global_size' = global_size - n
      /\ mutex' = [mutex EXCEPT ![s] = t]
      /\ pc' = [pc EXCEPT ![t] = "clearing"]
      /\ UNCHANGED <<lru, arg, todo, clearing>>
  BY DEF DiscountShard
<1>3. gone \subseteq Ids /\ \A e \in gone : Shard(e) = s
  BY <1>1, NoDuplicateElements DEF Elements
<1>4. IsFiniteSet(gone) /\ Cardinality(gone) = n
  BY <1>1, ElementsCardinality
<1>5. gone \subseteq Counted
  <2>1. At(s, "clearing") = FALSE /\ At(s, "emplaced") = FALSE
    BY <1>1 DEF At
  <2> QED BY <2>1, <1>3, CountedElements
<1>6. n <= SoftLimit
  <2>1. n <= Cardinality(Counted)
    BY <1>4, <1>5, Counts, FS_Subset
  <2>2. Cardinality(Occupied) <= NShards
    BY Subsets, FiniteShards
  <2>3. Cardinality(Counted) <= SoftLimit
    BY <2>2, Counts, NShardsAssumption DEF Budget, SoftLimit, MaxCapacity
  <2>4. SoftLimit \in Int
    BY Counts, NShardsAssumption DEF SoftLimit
  <2> QED BY <2>1, <2>3, <2>4, <1>1, Counts
<1>7. Section(t, s, "clearing")
  <2>1. Injective(lru'[s]) /\ \A e \in Elements(lru'[s]) : Shard(e) = s
    BY <1>1, <1>2, <1>3
  <2>2. Len(lru'[s]) <= SoftLimit
    BY <1>2, <1>6
  <2> QED BY <1>1, <1>2, <2>1, <2>2 DEF Section
<1>e. Effect(t, s, "clearing")
  BY <1>1, <1>7, SectionSets
<1>8. Counted' = Counted \ gone
  <2>1. ASSUME NEW e \in Ids PROVE e \in Counted' <=> e \in Counted /\ e \notin gone
    <3>1. CASE Shard(e) # s
      BY <3>1, <1>1, <1>3, <1>e DEF Effect
    <3>2. CASE Shard(e) = s
      <4>1. e \notin Counted'
        BY <3>2, <1>1, <1>e DEF Effect
      <4>2. e \in Counted => e \in gone
        BY <3>2, <1>1, <1>e DEF Effect
      <4> QED BY <4>1, <4>2
    <3> QED BY <3>1, <3>2
  <2> QED BY <2>1, Subsets, SubsetsPrime
<1>9. Cardinality(Counted') = Cardinality(Counted) - n
  <2>1. Counted = Counted' \cup gone /\ Counted' \cap gone = {}
    BY <1>5, <1>8
  <2>2. Cardinality(Counted' \cup gone)
          = Cardinality(Counted') + Cardinality(gone) - Cardinality(Counted' \cap gone)
    BY <1>4, CountsPrime, FS_Union
  <2>3. Cardinality(Counted' \cap gone) = 0
    BY <2>1, FS_EmptySet
  <2> HIDE DEF gone, n
  <2> QED BY <2>1, <2>2, <2>3, <1>1, <1>4, Counts, CountsPrime
<1>10. /\ Emplacing' = Emplacing /\ Emplaced' = Emplaced /\ Dropping' = Dropping
  BY <1>1, <1>e, ThreadsAssumption DEF Effect
<1>11. Cardinality(Occupied') >= Cardinality(Occupied) - n
  <2>1. Occupied' = Occupied \ {s} /\ (s \in Occupied <=> lru[s] # << >>)
    BY <1>1, <1>e, ThreadsAssumption DEF Effect
  <2>2. CASE lru[s] = << >>
    <3>1. Occupied' = Occupied
      BY <2>1, <2>2
    <3> QED BY <3>1, <1>1, Counts
  <2>3. CASE lru[s] # << >>
    <3>1. n >= 1
      BY <2>3, <1>1
    <3>2. Cardinality(Occupied') = Cardinality(Occupied) - 1
      BY <2>1, <2>3, OneLess, Counts
    <3> HIDE DEF n
    <3> QED BY <3>1, <3>2, <1>1, Counts
  <2> QED BY <2>2, <2>3
<1>12. Accounting' /\ Budget'
  <2>1. Accounting /\ Budget
    OBVIOUS
  <2>2. n \in Nat /\ global_size' = global_size - n
    BY <1>1, <1>2
  <2> HIDE DEF IInv, s, n, gone
  <2> QED BY <2>1, <2>2, <1>9, <1>10, <1>11, Counts, CountsPrime DEF Accounting, Budget
<1>13. TypeOK'
  <2>1. global_size' \in Nat
    BY <1>12, CountsPrime DEF Accounting
  <2> HIDE DEF s
  <2> QED BY <2>1, <1>2 DEF TypeOK
<1>14. Ownership' /\ Done' /\ NoDuplicate' /\ Remains'
  BY <1>1, <1>7, <1>13, SectionStep
<1> QED BY <1>12, <1>13, <1>14

LEMMA EmptyShardStep ==
  ASSUME IInv, NEW t \in Threads, EmptyShard(t)
  PROVE  IInv'
<1> DEFINE s == clearing[t]
<1> USE DEF IInv
<1>1. /\ pc[t] = "clearing" /\ s \in Shards /\ mutex[s] = t /\ t # NoThread
  BY ThreadsAssumption DEF EmptyShard, Ownership, Locked
<1>2. /\ lru' = [lru EXCEPT ![s] = << >>]
      /\ mutex' = [mutex EXCEPT ![s] = NoThread]
      /\ pc' = [pc EXCEPT ![t] = "idle"]
      /\ clearing' = [clearing EXCEPT ![t] = s + 1]
      /\ UNCHANGED <<global_size, arg, todo>>
  BY DEF EmptyShard
<1>3. /\ lru'[s] = << >> /\ Elements(lru'[s]) = {}
      /\ \A r \in Shards \ {s} : lru'[r] = lru[r]
  BY <1>1, <1>2 DEF TypeOK, Elements
<1>4. TypeOK'
  <2>1. clearing' \in [Threads -> 0 .. NShards]
    BY <1>1, <1>2, NShardsAssumption DEF TypeOK, Shards
  <2>2. lru' \in [Shards -> Seq(Ids)]
    BY <1>1, <1>2 DEF TypeOK
  <2> QED BY <2>1, <2>2, <1>2 DEF TypeOK
<1>5. Section(t, s, "idle")
  <2>1. Injective(lru'[s])
    BY <1>3 DEF Injective
  <2> QED BY <1>1, <1>2, <1>3, <2>1 DEF Section, TypeOK
<1>e. Effect(t, s, "idle")
  BY <1>1, <1>5, SectionSets
<1>6. Ownership' /\ Done' /\ NoDuplicate' /\ Remains'
  BY <1>1, <1>4, <1>5, SectionStep
<1>7. Counted' = Counted
  <2>1. ASSUME NEW e \in Ids PROVE e \in Counted' <=> e \in Counted
    <3>1. CASE Shard(e) # s
      BY <3>1, <1>1, <1>e DEF Effect
    <3>2. CASE Shard(e) = s
      BY <3>2, <1>1, <1>3, <1>e DEF Effect
    <3> QED BY <3>1, <3>2
  <2> QED BY <2>1, Subsets, SubsetsPrime
<1>8. Emplacing' = Emplacing /\ Emplaced' = Emplaced /\ Dropping' = Dropping
  BY <1>1, <1>e DEF Effect
<1>9. Occupied' = Occupied
  BY <1>1, <1>3, <1>e DEF Effect
<1>10. Accounting' /\ Budget'
  BY <1>2, <1>7, <1>8, <1>9, CountsPrime DEF Accounting, Budget
<1> QED BY <1>4, <1>6, <1>10

-----------------------------------------------------------------------------
LEMMA InitInv == Init => IInv
<1> SUFFICES ASSUME Init PROVE IInv
  OBVIOUS
<1>1. \A s \in Shards : lru[s] \in Seq(Ids) /\ Injective(lru[s])
                          /\ \A i \in DOMAIN lru[s] : Shard(lru[s][i]) = s
  <2> SUFFICES ASSUME NEW s \in Shards
               PROVE  lru[s] \in Seq(Ids) /\ Injective(lru[s])
                        /\ \A i \in DOMAIN lru[s] : Shard(lru[s][i]) = s
    OBVIOUS
  <2> DEFINE own == {id \in Ids : Shard(id) = s}
  <2>1. lru[s] \in ShardContents(s)
    BY DEF Init
  <2>2. PICK n \in 0 .. Cardinality(own) : lru[s] \in [1 .. n -> own] /\ Injective(lru[s])
    BY <2>1 DEF ShardContents
  <2>3. IsFiniteSet(own) /\ Cardinality(own) \in Nat
    BY FiniteIds
  <2>4. n \in Nat /\ lru[s] \in [1 .. n -> Ids]
    BY <2>2, <2>3
  <2> QED BY <2>2, <2>4
<1>2. /\ Dropping = {} /\ Emplacing = {} /\ Emplaced = {} /\ Clearing = {}
      /\ Cardinality({}) = 0 /\ Counted = Cached
  <2>1. \A r \in Shards : \A q : ~At(r, q)
    BY DEF Init, At
  <2>2. Dropping = {} /\ Emplacing = {} /\ Emplaced = {} /\ Clearing = {}
    BY <2>1 DEF Dropping, Emplacing, Emplaced, Clearing
  <2>3. Counted = Cached
    BY <2>1, <2>2, ShardType DEF Counted, Leaving, Cached
  <2> QED BY <2>2, <2>3, FS_EmptySet
<1>3. TypeOK
  <2>1. lru \in [Shards -> Seq(Ids)]
    BY <1>1 DEF Init
  <2>2. global_size \in Nat
    BY <1>2, Counts DEF Init
  <2> QED BY <2>1, <2>2, NShardsAssumption DEF Init, TypeOK
<1>4. Ownership /\ Done /\ NoDuplicate /\ Remains
  BY <1>1, <1>2 DEF Init, Ownership, Done, NoDuplicate, Remains
<1>5. Accounting
  BY <1>2, Counts DEF Init, Accounting
<1>6. Budget
  <2>1. CASE Cached = {}
    BY <2>1, <1>2, Counts, CapacityAssumption DEF Budget, MaxCapacity
  <2>2. CASE Cached # {}
    <3>1. PICK id \in Cached : TRUE
      BY <2>2
    <3>2. Shard(id) \in Occupied
      BY <3>1, <1>2, CountedElements, ShardType DEF Occupied, Elements
    <3>3. Cardinality(Occupied) >= 1
      BY <3>2, Counts, FS_EmptySet
    <3> QED BY <3>3, <1>2, Counts DEF Init, Budget
  <2> QED BY <2>1, <2>2
<1> QED BY <1>3, <1>4, <1>5, <1>6 DEF IInv

(* Steps that leave the cache alone: a batch taken up, and a clear begun.  *)
LEMMA IdleStep ==
  ASSUME IInv, todo' \in [Threads -> SUBSET Ids],
         UNCHANGED <<lru, global_size, mutex, pc, arg, clearing>>
  PROVE  IInv'
<1>1. \A r, q : At(r, q)' <=> At(r, q)
  BY DEF At
<1>2. TypeOK' /\ Ownership' /\ Done' /\ NoDuplicate'
  <2>1. TypeOK'
    BY DEF IInv, TypeOK
  <2>2. Ownership'
    BY DEF IInv, Ownership, Locked
  <2>3. Done' /\ NoDuplicate'
    BY DEF IInv, Done, NoDuplicate, Resident, Held
  <2> QED BY <2>1, <2>2, <2>3
<1>3. /\ Counted' = Counted /\ Dropping' = Dropping /\ Emplacing' = Emplacing
      /\ Emplaced' = Emplaced /\ Clearing' = Clearing /\ Occupied' = Occupied
  <2>1. /\ Dropping' = Dropping /\ Emplacing' = Emplacing
        /\ Emplaced' = Emplaced /\ Clearing' = Clearing
    BY <1>1 DEF Dropping, Emplacing, Emplaced, Clearing
  <2>2. Occupied' = Occupied
    BY <2>1 DEF Occupied
  <2>3. Counted' = Counted
    BY <1>1, CountedElements, CountedElementsPrime
  <2> QED BY <2>1, <2>2, <2>3
<1>4. Accounting' /\ Budget' /\ Remains'
  BY <1>3, CountsPrime DEF IInv, Accounting, Budget, Remains
<1> QED BY <1>2, <1>4 DEF IInv

LEMMA StartClearStep ==
  ASSUME IInv, NEW t \in Threads, pc[t] = "idle",
         clearing' = [clearing EXCEPT ![t] = 0],
         UNCHANGED <<lru, global_size, mutex, pc, arg, todo>>
  PROVE  IInv'
<1>1. \A r, q : At(r, q)' <=> At(r, q)
  BY DEF At
<1>2. TypeOK'
  BY NShardsAssumption DEF IInv, TypeOK
<1>3. Ownership'
  <2>1. \A u \in Threads : pc[u] # "idle" => clearing'[u] = clearing[u]
    BY DEF IInv, TypeOK
  <2>2. \A u \in Threads : pc[u] # "idle" => Locked(u)' = Locked(u)
    BY <2>1 DEF Locked
  <2>3. \A r \in Shards : mutex[r] # NoThread => mutex[r] \in Threads
    BY DEF IInv, TypeOK
  <2> QED BY <2>2, <2>3 DEF IInv, Ownership, Locked
<1>4. Done' /\ NoDuplicate'
  BY DEF IInv, Done, NoDuplicate, Resident, Held
<1>5. /\ Counted' = Counted /\ Dropping' = Dropping /\ Emplacing' = Emplacing
      /\ Emplaced' = Emplaced /\ Clearing' = Clearing /\ Occupied' = Occupied
  <2>1. /\ Dropping' = Dropping /\ Emplacing' = Emplacing
        /\ Emplaced' = Emplaced /\ Clearing' = Clearing
    BY <1>1 DEF Dropping, Emplacing, Emplaced, Clearing
  <2>2. Occupied' = Occupied
    BY <2>1 DEF Occupied
  <2>3. Counted' = Counted
    BY <1>1, CountedElements, CountedElementsPrime
  <2> QED BY <2>1, <2>2, <2>3
<1>6. Accounting' /\ Budget' /\ Remains'
  BY <1>5, CountsPrime DEF IInv, Accounting, Budget, Remains
<1> QED BY <1>2, <1>3, <1>4, <1>6 DEF IInv

LEMMA NextInv == IInv /\ [Next]_vars => IInv'
<1> SUFFICES ASSUME IInv, [Next]_vars PROVE IInv'
  OBVIOUS
<1>1. ASSUME NEW t \in Threads, NEW batch \in SUBSET Ids \ {{}}, InsertBatch(t, batch)
      PROVE  IInv'
  <2>1. todo' \in [Threads -> SUBSET Ids] /\ UNCHANGED <<lru, global_size, mutex, pc, arg, clearing>>
    BY <1>1 DEF InsertBatch, IInv, TypeOK
  <2> QED BY <2>1, IdleStep
<1>2. ASSUME NEW t \in Threads, NEW id \in todo[t], NEW i \in DOMAIN lru[Shard(id)],
             InsertPresent(t, id, i)
      PROVE  IInv'
  BY <1>2, TouchStep DEF InsertPresent, CanLock, IInv, TypeOK
<1>3. ASSUME NEW t \in Threads, NEW id \in todo[t], InsertNoEvict(t, id)
      PROVE  IInv'
  BY <1>3, InsertNoEvictStep DEF IInv, TypeOK
<1>4. ASSUME NEW t \in Threads, NEW id \in todo[t], InsertEvict(t, id)
      PROVE  IInv'
  BY <1>4, InsertEvictStep DEF IInv, TypeOK
<1>5. ASSUME NEW t \in Threads, CountEviction(t)
      PROVE  IInv'
  BY <1>5, CountEvictionStep
<1>6. ASSUME NEW t \in Threads, Emplace(t)
      PROVE  IInv'
  BY <1>6, EmplaceStep
<1>7. ASSUME NEW t \in Threads, CountInsertion(t)
      PROVE  IInv'
  BY <1>7, CountInsertionStep
<1>8. ASSUME NEW t \in Threads, NEW id \in Ids, NEW i \in DOMAIN lru[Shard(id)],
             Get(t, id, i)
      PROVE  IInv'
  BY <1>8, TouchStep DEF Get, CanLock, IInv, TypeOK
<1>9. ASSUME NEW t \in Threads, NEW id \in Ids, NEW i \in DOMAIN lru[Shard(id)],
             Erase(t, id, i)
      PROVE  IInv'
  BY <1>9, EraseStep
<1>10. ASSUME NEW t \in Threads, CountErasure(t)
       PROVE  IInv'
  BY <1>10, CountErasureStep
<1>11. ASSUME NEW t \in Threads, StartClear(t)
       PROVE  IInv'
  <2>1. /\ pc[t] = "idle" /\ clearing' = [clearing EXCEPT ![t] = 0]
        /\ UNCHANGED <<lru, global_size, mutex, pc, arg, todo>>
    BY <1>11 DEF StartClear, Idle
  <2> QED BY <2>1, StartClearStep
<1>12. ASSUME NEW t \in Threads, DiscountShard(t)
       PROVE  IInv'
  BY <1>12, DiscountShardStep
<1>13. ASSUME NEW t \in Threads, EmptyShard(t)
       PROVE  IInv'
  BY <1>13, EmptyShardStep
<1>14. CASE UNCHANGED vars
  BY <1>14, IdleStep DEF vars, IInv, TypeOK
<1> QED
  BY <1>1, <1>2, <1>3, <1>4, <1>5, <1>6, <1>7, <1>8, <1>9, <1>10, <1>11, <1>12, <1>13, <1>14
     DEF Next

(* What is held outside the shards being cleared is counted, or has just   *)
(* been inserted: one vector for each shard of Emplaced.                   *)
LEMMA BudgetBound == IInv => SoftCapacity
<1> SUFFICES ASSUME IInv PROVE SoftCapacity
  OBVIOUS
<1> DEFINE fresh == {arg[mutex[s]] : s \in Emplaced}
<1>1. Cached \ Leaving \subseteq Counted \cup fresh
  <2> SUFFICES ASSUME NEW id \in Cached \ Leaving, id \notin Counted
               PROVE  id \in fresh
    OBVIOUS
  <2>1. Shard(id) \in Shards /\ At(Shard(id), "emplaced") /\ arg[mutex[Shard(id)]] = id
    BY ShardType, Subsets DEF Counted
  <2> QED BY <2>1 DEF Emplaced
<1>2. IsFiniteSet(fresh) /\ Cardinality(fresh) <= Cardinality(Emplaced) /\ Cardinality(fresh) \in Nat
  <2> DEFINE f == [s \in Emplaced |-> arg[mutex[s]]]
  <2>1. f \in Surjection(Emplaced, fresh)
    BY DEF Surjection
  <2>2. IsFiniteSet(fresh) /\ Cardinality(fresh) <= Cardinality(Emplaced)
    BY <2>1, Counts, FS_Surjection
  <2> QED BY <2>2, FS_CardinalityType
<1>3. Cardinality(Cached \ Leaving) <= Cardinality(Counted) + Cardinality(fresh)
  <2>1. /\ IsFiniteSet(Counted \cup fresh)
        /\ Cardinality(Counted \cup fresh)
             = Cardinality(Counted) + Cardinality(fresh) - Cardinality(Counted \cap fresh)
    BY <1>2, Counts, FS_Union
  <2>2. IsFiniteSet(Counted \cap fresh) /\ Cardinality(Counted \cap fresh) \in Nat
    BY <1>2, FS_Subset, FS_CardinalityType
  <2>3. Cardinality(Cached \ Leaving) <= Cardinality(Counted \cup fresh)
    BY <1>1, <2>1, FS_Subset
  <2>4. Cardinality(Cached \ Leaving) \in Nat /\ Cardinality(Counted \cup fresh) \in Nat
    BY <2>1, FiniteIds, Subsets, FS_CardinalityType
  <2> HIDE DEF fresh
  <2> QED BY <2>1, <2>2, <2>3, <2>4, <1>2, Counts
<1>4. Cardinality(Cached \ Leaving) <= SoftLimit
  <2>1. Cardinality(Occupied) <= NShards /\ Cardinality(Cached \ Leaving) \in Nat
    BY Subsets, FiniteShards, FiniteIds
  <2> HIDE DEF fresh
  <2> QED BY <2>1, <1>2, <1>3, Counts, NShardsAssumption DEF IInv, Budget, SoftLimit, MaxCapacity
<1> QED BY <1>4 DEF IInv, Remains, SoftCapacity

-----------------------------------------------------------------------------
(* The invariant holds of every behaviour of the cache.                    *)
THEOREM Invariant == Spec => []IInv
BY InitInv, NextInv, PTL DEF Spec

(* The counter never wraps below zero, and the state keeps its types, for  *)
(* any number of threads, shards and ids.                                  *)
THEOREM TypeCorrect == Spec => []TypeOK
<1>1. IInv => TypeOK
  BY DEF IInv
<1> QED BY <1>1, Invariant, PTL

(* No vector is in the cache twice.                                        *)
THEOREM NeverDuplicated == Spec => []NoDuplicate
<1>1. IInv => NoDuplicate
  BY DEF IInv
<1> QED BY <1>1, Invariant, PTL

(* The relaxed counter agrees with the lists, up to the one change each    *)
(* thread in a shard has still to count.                                   *)
THEOREM CounterExact == Spec => []Accounting
<1>1. IInv => Accounting
  BY DEF IInv
<1> QED BY <1>1, Invariant, PTL

(* Outside the shards that clear() is about to empty the cache never       *)
(* exceeds its capacity by more than one vector per shard but one, and     *)
(* what such a shard still holds is within the same bound.                 *)
THEOREM CapacityBound == Spec => []SoftCapacity
BY BudgetBound, Invariant, PTL
=============================================================================
