----------------------------- MODULE ShardCache -----------------------------
(***************************************************************************)
(* The sharded LRU vector cache of IndexDiskV (DiskVectorHolder_shard).    *)
(*                                                                         *)
(* The cache is split into NShards shards; vector id lives in shard        *)
(* id % NShards.  Every shard has a mutex, a list in recency order (front  *)
(* first) and a hash map into that list.  List and map change only under   *)
(* the mutex and always together, so the list alone stands for both.       *)
(*                                                                         *)
(* The number of vectors in the whole cache is kept in one relaxed atomic  *)
(* counter, global_size, that no shard mutex protects.  An operation that  *)
(* changes a list and the counter does so in two steps under its shard's   *)
(* mutex, and operations on other shards read and change the counter       *)
(* between the two.                                                        *)
(***************************************************************************)
EXTENDS Integers, Sequences, FiniteSets

CONSTANTS
  Threads,    (* the search threads                                         *)
  NoThread,   (* owner of a free mutex                                      *)
  Ids,        (* vector ids                                                 *)
  NShards,    (* n_shards                                                   *)
  Capacity    (* global_capacity                                            *)

ASSUME ThreadsAssumption == NoThread \notin Threads
ASSUME IdsAssumption     == Ids \subseteq Nat /\ IsFiniteSet(Ids)
ASSUME NShardsAssumption == NShards \in Nat \ {0}
ASSUME CapacityAssumption == Capacity \in Nat

VARIABLES
  lru,          (* lru_list of every shard, most recently used first        *)
  global_size,  (* the shared counter                                       *)
  mutex,        (* owner of every shard's mutex                             *)
  pc,           (* where a thread is inside a shard's critical section      *)
  arg,          (* the id that thread inserts or erases                     *)
  todo,         (* ids the thread's insert_batch has still to insert        *)
  clearing      (* next shard the thread's clear() visits, NShards if none  *)

vars == <<lru, global_size, mutex, pc, arg, todo, clearing>>

Shards == 0 .. NShards - 1

(* get_shard                                                               *)
Shard(id) == id % NShards

Held(s) == {lru[s][i] : i \in DOMAIN lru[s]}

(* map.find in the shard of id                                             *)
Resident(id) == id \in Held(Shard(id))

Cached == {id \in Ids : Resident(id)}

(* lru_list.splice(begin, it): the element at i moves to the front         *)
TouchFront(q, i) ==
  [j \in 1 .. Len(q) |-> IF j = 1 THEN q[i] ELSE IF j <= i THEN q[j-1] ELSE q[j]]

(* lru_list.emplace_front                                                  *)
PushFront(q, id) ==
  [j \in 1 .. Len(q) + 1 |-> IF j = 1 THEN id ELSE q[j-1]]

(* lru_list.erase(it)                                                      *)
Without(q, i) ==
  [j \in 1 .. Len(q) - 1 |-> IF j < i THEN q[j] ELSE q[j+1]]

Idle(t) == pc[t] = "idle" /\ clearing[t] = NShards

(* Mutant: shared_lock, which the mutex's type would allow.                *)
SharedLock(s) == TRUE

(* unique_lock lock(mutex)                                                 *)
CanLock(s) == mutex[s] = NoThread

(* Mutant: off by one at the capacity.                                     *)
MustEvictLate(s) == global_size > Capacity /\ lru[s] # << >>

(* The test of insert_with_eviction: the cache is full and this shard has  *)
(* something to drop.                                                      *)
MustEvict(s) == global_size >= Capacity /\ lru[s] # << >>

-----------------------------------------------------------------------------
(***************************************************************************)
(* Warm-up.  bulk_initialize runs before the searches: it inserts without  *)
(* limit, but warmUpVectorCacheShard passes at most nvec = Capacity ids,   *)
(* each once (sort_vectors_to_cache merges the copies of an id).           *)
(***************************************************************************)
Injective(q) == \A i, j \in DOMAIN q : q[i] = q[j] => i = j

ShardContents(s) ==
  LET own == {id \in Ids : Shard(id) = s}
  IN  UNION {{q \in [1 .. n -> own] : Injective(q)} : n \in 0 .. Cardinality(own)}

Init ==
  /\ lru \in [Shards -> UNION {ShardContents(s) : s \in Shards}]
  /\ \A s \in Shards : lru[s] \in ShardContents(s)
  /\ Cardinality(Cached) <= Capacity
  /\ global_size = Cardinality(Cached)
  /\ mutex = [s \in Shards |-> NoThread]
  /\ pc = [t \in Threads |-> "idle"]
  /\ arg \in [Threads -> Ids]
  /\ todo = [t \in Threads |-> {}]
  /\ clearing = [t \in Threads |-> NShards]

-----------------------------------------------------------------------------
(* insert_batch: the ids of the thread's local cache, in map order; a      *)
(* single insert() is a batch of one.                                      *)
InsertBatch(t, batch) ==
  /\ Idle(t)
  /\ todo[t] = {}
  /\ todo' = [todo EXCEPT ![t] = batch]
  /\ UNCHANGED <<lru, global_size, mutex, pc, arg, clearing>>

(* insert_with_eviction finds id: it only refreshes its recency.           *)
InsertPresent(t, id, i) ==
  /\ Idle(t)
  /\ id \in todo[t]
  /\ CanLock(Shard(id))
  /\ i \in DOMAIN lru[Shard(id)]
  /\ lru[Shard(id)][i] = id
  /\ lru' = [lru EXCEPT ![Shard(id)] = TouchFront(@, i)]
  /\ todo' = [todo EXCEPT ![t] = @ \ {id}]
  /\ UNCHANGED <<global_size, mutex, pc, arg, clearing>>

(* id is absent: take the mutex and load global_size.  Below capacity, or  *)
(* with nothing to evict in this shard, go on to the insertion ...         *)
InsertNoEvict(t, id) ==
  /\ Idle(t)
  /\ id \in todo[t]
  /\ CanLock(Shard(id))
  /\ ~Resident(id)
  /\ ~MustEvict(Shard(id))
  /\ mutex' = [mutex EXCEPT ![Shard(id)] = t]
  /\ pc' = [pc EXCEPT ![t] = "emplace"]
  /\ arg' = [arg EXCEPT ![t] = id]
  /\ todo' = [todo EXCEPT ![t] = @ \ {id}]
  /\ UNCHANGED <<lru, global_size, clearing>>

(* ... at capacity, drop the least recently used vector of this shard; the *)
(* counter is decremented by a step of its own.                            *)
InsertEvict(t, id) ==
  /\ Idle(t)
  /\ id \in todo[t]
  /\ CanLock(Shard(id))
  /\ ~Resident(id)
  /\ MustEvict(Shard(id))
  /\ lru' = [lru EXCEPT ![Shard(id)] = Without(@, Len(@))]
  /\ mutex' = [mutex EXCEPT ![Shard(id)] = t]
  /\ pc' = [pc EXCEPT ![t] = "evicted"]
  /\ arg' = [arg EXCEPT ![t] = id]
  /\ todo' = [todo EXCEPT ![t] = @ \ {id}]
  /\ UNCHANGED <<global_size, clearing>>

CountEviction(t) ==
  /\ pc[t] = "evicted"
  /\ global_size' = global_size - 1
  /\ pc' = [pc EXCEPT ![t] = "emplace"]
  /\ UNCHANGED <<lru, mutex, arg, todo, clearing>>

Emplace(t) ==
  /\ pc[t] = "emplace"
  /\ lru' = [lru EXCEPT ![Shard(arg[t])] = PushFront(@, arg[t])]
  /\ pc' = [pc EXCEPT ![t] = "emplaced"]
  /\ UNCHANGED <<global_size, mutex, arg, todo, clearing>>

(* Count the new vector and release the mutex.                             *)
CountInsertion(t) ==
  /\ pc[t] = "emplaced"
  /\ global_size' = global_size + 1
  /\ mutex' = [mutex EXCEPT ![Shard(arg[t])] = NoThread]
  /\ pc' = [pc EXCEPT ![t] = "idle"]
  /\ UNCHANGED <<lru, arg, todo, clearing>>

(* get: a hit moves the vector to the front; a miss changes nothing.       *)
Get(t, id, i) ==
  /\ Idle(t)
  /\ CanLock(Shard(id))
  /\ i \in DOMAIN lru[Shard(id)]
  /\ lru[Shard(id)][i] = id
  /\ lru' = [lru EXCEPT ![Shard(id)] = TouchFront(@, i)]
  /\ UNCHANGED <<global_size, mutex, pc, arg, todo, clearing>>

(* erase of a vector the shard holds, discounted by a step of its own.    *)
Erase(t, id, i) ==
  /\ Idle(t)
  /\ CanLock(Shard(id))
  /\ i \in DOMAIN lru[Shard(id)]
  /\ lru[Shard(id)][i] = id
  /\ lru' = [lru EXCEPT ![Shard(id)] = Without(@, i)]
  /\ mutex' = [mutex EXCEPT ![Shard(id)] = t]
  /\ pc' = [pc EXCEPT ![t] = "erased"]
  /\ arg' = [arg EXCEPT ![t] = id]
  /\ UNCHANGED <<global_size, todo, clearing>>

CountErasure(t) ==
  /\ pc[t] = "erased"
  /\ global_size' = global_size - 1
  /\ mutex' = [mutex EXCEPT ![Shard(arg[t])] = NoThread]
  /\ pc' = [pc EXCEPT ![t] = "idle"]
  /\ UNCHANGED <<lru, arg, todo, clearing>>

(* clear() visits the shards in order, one mutex at a time.                *)
StartClear(t) ==
  /\ Idle(t)
  /\ todo[t] = {}
  /\ clearing' = [clearing EXCEPT ![t] = 0]
  /\ UNCHANGED <<lru, global_size, mutex, pc, arg, todo>>

DiscountEmptied(t) ==     (* Mutant: the map is cleared before it is counted. *)
  /\ pc[t] = "idle"
  /\ clearing[t] < NShards
  /\ CanLock(clearing[t])
  /\ lru' = [lru EXCEPT ![clearing[t]] = <<>>]
  /\ global_size' = global_size - Len(lru'[clearing[t]])
  /\ mutex' = [mutex EXCEPT ![clearing[t]] = t]
  /\ pc' = [pc EXCEPT ![t] = "clearing"]
  /\ UNCHANGED <<arg, todo, clearing>>

(* Shard::clear takes its shard's content off the counter first ...        *)
DiscountShard(t) ==
  /\ pc[t] = "idle"
  /\ clearing[t] < NShards
  /\ CanLock(clearing[t])
  /\ global_size' = global_size - Len(lru[clearing[t]])
  /\ mutex' = [mutex EXCEPT ![clearing[t]] = t]
  /\ pc' = [pc EXCEPT ![t] = "clearing"]
  /\ UNCHANGED <<lru, arg, todo, clearing>>

(* ... and empties it then: in between, insertions into the other shards   *)
(* see room that this shard still takes.                                   *)
EmptyShard(t) ==
  /\ pc[t] = "clearing"
  /\ lru' = [lru EXCEPT ![clearing[t]] = <<>>]
  /\ mutex' = [mutex EXCEPT ![clearing[t]] = NoThread]
  /\ pc' = [pc EXCEPT ![t] = "idle"]
  /\ clearing' = [clearing EXCEPT ![t] = @ + 1]
  /\ UNCHANGED <<global_size, arg, todo>>

Next ==
  \E t \in Threads :
    \/ \E batch \in SUBSET Ids \ {{}} : InsertBatch(t, batch)
    \/ \E id \in todo[t] :
         \/ \E i \in DOMAIN lru[Shard(id)] : InsertPresent(t, id, i)
         \/ InsertNoEvict(t, id)
         \/ InsertEvict(t, id)
    \/ CountEviction(t)
    \/ Emplace(t)
    \/ CountInsertion(t)
    \/ \E id \in Ids : \E i \in DOMAIN lru[Shard(id)] : Get(t, id, i) \/ Erase(t, id, i)
    \/ CountErasure(t)
    \/ StartClear(t)
    \/ DiscountShard(t)
    \/ EmptyShard(t)

Spec == Init /\ [][Next]_vars

-----------------------------------------------------------------------------
(***************************************************************************)
(* Types.  global_size is a size_t: that it stays in Nat says that no      *)
(* decrement of insert_with_eviction, erase or clear can make it wrap to a *)
(* huge value, after which every insertion would evict.                    *)
(***************************************************************************)
TypeOK ==
  /\ lru \in [Shards -> Seq(Ids)]
  /\ global_size \in Nat
  /\ mutex \in [Shards -> Threads \cup {NoThread}]
  /\ pc \in [Threads -> {"idle", "evicted", "emplace", "emplaced", "erased", "clearing"}]
  /\ arg \in [Threads -> Ids]
  /\ todo \in [Threads -> SUBSET Ids]
  /\ clearing \in [Threads -> 0 .. NShards]

(* The thread in the critical section of shard s is at p.                  *)
At(s, p) == mutex[s] # NoThread /\ pc[mutex[s]] = p

(* Shards whose owner has dropped a vector it has not discounted yet; is   *)
(* committed to an insertion; has made one it has not counted yet; has     *)
(* discounted a content it has not cleared yet.                            *)
Dropping  == {s \in Shards : At(s, "evicted") \/ At(s, "erased")}
Emplacing == {s \in Shards : At(s, "emplace")}
Emplaced  == {s \in Shards : At(s, "emplaced")}
Clearing  == {s \in Shards : At(s, "clearing")}

(* Vectors in the lists that clear() is about to empty, and the others     *)
(* that the counter covers.                                                *)
Leaving == {id \in Cached : Shard(id) \in Clearing}
Counted ==
  {id \in Cached \ Leaving :
     ~(At(Shard(id), "emplaced") /\ arg[mutex[Shard(id)]] = id)}

(***************************************************************************)
(* A vector is held at most once: it is only in the shard of its id, at    *)
(* one position, and an insertion in flight is of a vector the cache does  *)
(* not hold (find and emplace_front of insert_with_eviction are under one  *)
(* mutex, whatever the other threads insert in between).                   *)
(***************************************************************************)
NoDuplicate ==
  /\ \A s \in Shards : Injective(lru[s]) /\ \A i \in DOMAIN lru[s] : Shard(lru[s][i]) = s
  /\ \A t \in Threads : pc[t] \in {"evicted", "emplace"} => ~Resident(arg[t])

(***************************************************************************)
(* global_size, which no mutex protects, counts the vectors the lists      *)
(* hold, but for what an operation between its change of a list and its    *)
(* change of the counter has yet to bring up to date: the vector it has    *)
(* just dropped or inserted, the content it is about to clear.  No         *)
(* interleaving of insertions, erasures and clears loses a vector or       *)
(* counts one twice; when no thread is in a shard the counter is exact.    *)
(***************************************************************************)
Accounting == global_size = Cardinality(Counted) + Cardinality(Dropping)

(***************************************************************************)
(* global_capacity is only a soft limit: every shard may exceed it by one  *)
(* vector, because a shard with an empty list does not evict and because   *)
(* insertions into different shards read the counter before either counts. *)
(* SoftLimit is the bound insert_with_eviction does keep.  The vectors of  *)
(* a shard that clear() has discounted and not emptied yet come on top of  *)
(* it, because the other shards fill the room meanwhile: with two shards   *)
(* and a capacity of 2, four vectors are held for a moment.  What such a   *)
(* shard still holds is within the same bound, and the excess ends with    *)
(* the clear.                                                              *)
(***************************************************************************)
SoftLimit == (IF Capacity = 0 THEN 1 ELSE Capacity) - 1 + NShards

SoftCapacity ==
  /\ Cardinality(Cached \ Leaving) <= SoftLimit
  /\ \A s \in Clearing : Len(lru[s]) <= SoftLimit
=============================================================================
