---------------------------- MODULE LocalCaches ----------------------------
(***************************************************************************)
(* The update strategies of the vector caches that first collect vectors   *)
(* in a cache of the search thread, and hand them over later.              *)
(*                                                                         *)
(*   "single"  SINGLE_THREAD_UPDATE: a thread hands its cache over to the  *)
(*             sharded cache every BatchSize queries of its own;           *)
(*   "global"  GLOBAL_CONTROL_UPDATE: whoever counts the BatchSize-th      *)
(*             query of all threads raises need_merge of every thread, and *)
(*             each hands its cache over at the end of a round;            *)
(*   "buffer"  SINGLE_THREAD_LOCAL_BUFFER_UPDATE: the cache is a ring      *)
(*             buffer, handed over and emptied when it has come round.     *)
(*                                                                         *)
(* The strategy is set once, then the frequency cache, the sharded cache   *)
(* or both are warmed up.  With the frequency cache a thread also merges   *)
(* its cache into that one, every LocalMergeSize queries and after every   *)
(* round with a hit in its own cache.                                      *)
(*                                                                         *)
(* What the sharded cache does with a vector is in module ShardCache.      *)
(***************************************************************************)
EXTENDS Integers, Sequences, SequencesExt

CONSTANTS
  Threads,         (* the search threads                                    *)
  Ids,             (* vector ids                                            *)
  None,            (* cache_id of an empty place, owner of a free mutex     *)
  LocalCapacity,   (* capacity of a thread's cache                          *)
  DpCapacity,      (* capacity of the frequency cache                       *)
  BatchSize,       (* batch_shard_query_size                                *)
  LocalMergeSize,  (* local_merge_size, once the frequency cache is there   *)
  MaxReads,        (* bound: vectors a completed request brings             *)
  MaxQueries       (* bound: queries of all threads                         *)

ASSUME NoneAssumption  == None \notin Threads /\ None \notin Ids
ASSUME SizesAssumption ==
  /\ LocalCapacity \in Nat \ {0} /\ DpCapacity \in Nat \ {0}
  /\ BatchSize \in Nat \ {0} /\ LocalMergeSize \in Nat \ {0}
  /\ MaxReads \in Nat \ {0} /\ MaxQueries \in Nat

VARIABLES
  strategy,           (* the flags set_cache_strategy has set               *)
  hasDp, hasShard,    (* which caches were warmed up                        *)
  pc,
  queries,            (* queries begun                                      *)
  counter,            (* result_cached_queries                              *)
  globalQueryCount,
  needMerge,
  updateDp,           (* update_run_time_cache                              *)
  updateShard,        (* update_run_time_shard_cache                        *)
  local,              (* DiskVectorHolder_local: the newest vector first    *)
  ring, position,     (* DiskVectorHolder_local_buffer                      *)
  reads,              (* vectors of a completed request, to be inserted     *)
  todo,               (* vectors of a thread's cache still to hand over     *)
  dp,                 (* the frequency cache, its head first                *)
  globalMutex,
  taken,              (* vectors this merge has put to the head of dp       *)
  due,                (* history: vectors the last trigger found here and   *)
                      (* that were not handed over since                    *)
  lost,               (* history: vectors overwritten in the ring           *)
  since               (* history: queries since the last hand-over          *)

vars == <<strategy, hasDp, hasShard, pc, queries, counter, globalQueryCount, needMerge,
          updateDp, updateShard, local, ring, position, reads, todo, dp,
          globalMutex, taken, due, lost, since>>

setup   == <<strategy, hasDp, hasShard>>
counts  == <<queries, counter, globalQueryCount, since>>
buffer  == <<ring, position, lost>>
global  == <<dp, globalMutex, taken>>
cache   == <<local, due>>

Strategies == {"single", "global", "buffer"}

Places == 0 .. LocalCapacity - 1

(* The ring after DiskVectorHolder_local_buffer::clear                     *)
Emptied == [p \in Places |-> None]

(* What a warm-up leaves in the frequency cache: at least one vector, for  *)
(* min_freq stays at its maximum otherwise and no vector is ever taken.    *)
WarmedUp == {q \in BoundedSeq(Ids, DpCapacity) : q # << >> /\ IsInjective(q)}

Goto(t, loc) == pc' = [pc EXCEPT ![t] = loc]

Set(f, t, v) == [f EXCEPT ![t] = v]

(* insert_to_head; a list that is full loses its tail first.               *)
Pushed(q, id, size) ==
  [j \in 1 .. (IF Len(q) < size THEN Len(q) + 1 ELSE size) |->
     IF j = 1 THEN id ELSE q[j - 1]]

(* move_to_head                                                            *)
Moved(q, i) ==
  [j \in DOMAIN q |-> IF j = 1 THEN q[i] ELSE IF j <= i THEN q[j - 1] ELSE q[j]]

(* Mutant: the flag is raised the first time only.                         *)
IsMultipleOnce(c, size) == c = size

IsMultiple(c, size) == c % size = 0

(* Mutant: a full cache drops its newest vector.                           *)
ToHeadDroppingHead(q, id) ==
  IF id \in ToSet(q) THEN Moved(q, CHOOSE i \in DOMAIN q : q[i] = id)
  ELSE Pushed(IF Len(q) < DpCapacity THEN q ELSE Tail(q), id, DpCapacity)

(* DiskVectorHolder_dp: move_to_head, or evict_tail and insert_to_head     *)
ToHead(q, id) ==
  IF id \in ToSet(q) THEN Moved(q, CHOOSE i \in DOMAIN q : q[i] = id)
  ELSE Pushed(q, id, DpCapacity)

(* trigger_local_merge_flag: the flags are raised one by one, which is one *)
(* step here because each thread looks at its own only.                    *)
AllFlagged == [t \in Threads |-> TRUE]

(* Mutant: the flag is taken back before the cache is handed over.         *)
FlagAtStart(t) == [needMerge EXCEPT ![t] = FALSE]

(* need_merge while the cache is being handed over                         *)
FlagDuring(t) == needMerge

(* Mutant: a full ring does not ask to be handed over.                     *)
AskedForNever(t) == FALSE

(* insert_cache has come round                                             *)
AskedFor(t) == position[t] + 1 >= LocalCapacity

-----------------------------------------------------------------------------
Init ==
  /\ strategy \in Strategies
  /\ hasDp \in BOOLEAN /\ hasShard \in BOOLEAN /\ (hasDp \/ hasShard)
  /\ pc = [t \in Threads |-> "idle"]
  /\ queries = 0 /\ counter = [t \in Threads |-> 0]
  /\ globalQueryCount = 0
  /\ needMerge = [t \in Threads |-> FALSE]
  /\ updateDp = [t \in Threads |-> FALSE] /\ updateShard = [t \in Threads |-> FALSE]
  /\ local = [t \in Threads |-> << >>]
  /\ ring = [t \in Threads |-> Emptied]
  /\ position = [t \in Threads |-> 0]
  /\ reads = [t \in Threads |-> << >>] /\ todo = [t \in Threads |-> {}]
  /\ dp \in IF hasDp THEN WarmedUp ELSE {<< >>}
  /\ globalMutex = None /\ taken = {}
  /\ due = [t \in Threads |-> {}]
  /\ lost = [t \in Threads |-> 0] /\ since = [t \in Threads |-> 0]

(* Counting a query.  With the frequency cache warmed and "single", the    *)
(* same counter counts it twice.                                           *)
StartQuery(t) ==
  LET once  == counter[t] + (IF hasDp THEN 1 ELSE 0)
      twice == once + (IF strategy = "single" THEN 1 ELSE 0)
      fires == strategy = "global" /\ IsMultiple(globalQueryCount + 1, BatchSize)
  IN
  /\ pc[t] = "idle" /\ queries < MaxQueries
  /\ queries' = queries + 1
  /\ counter' = Set(counter, t, twice)
  /\ updateDp' = Set(updateDp, t, updateDp[t] \/ (hasDp /\ IsMultiple(once, LocalMergeSize)))
  /\ updateShard' =
       Set(updateShard, t,
           updateShard[t] \/ (strategy = "single" /\ IsMultiple(twice, BatchSize)))
  /\ globalQueryCount' = globalQueryCount + (IF strategy = "global" THEN 1 ELSE 0)
  /\ needMerge' = IF fires THEN AllFlagged ELSE needMerge
  /\ due' = IF fires THEN [u \in Threads |-> IF pc[u] = "flush" THEN todo[u]
                                            ELSE ToSet(local[u])]
            ELSE due
  /\ since' = Set(since, t, since[t] + 1)
  /\ Goto(t, "search")
  /\ UNCHANGED <<setup, local, buffer, reads, todo, global>>

(* A candidate is found in the thread's own cache.                         *)
LocalHit(t) ==
  /\ pc[t] = "search" /\ strategy # "buffer" /\ local[t] # << >>
  /\ updateDp' = Set(updateDp, t, TRUE)
  /\ UNCHANGED <<setup, pc, counts, needMerge, updateShard, cache, buffer, reads, todo,
                 global>>

(* DiskVectorHolder_local::insert_cache: a FIFO, whatever is read again.   *)
(* A request of several vectors is, for a FIFO, as several requests.       *)
InsertLocal(t, id) ==
  /\ pc[t] = "search" /\ strategy # "buffer"
  /\ id \notin ToSet(local[t])
  /\ local' = Set(local, t, Pushed(local[t], id, LocalCapacity))
  /\ due' = Set(due, t, due[t] \cap ToSet(local'[t]))
  /\ UNCHANGED <<setup, pc, counts, needMerge, updateDp, updateShard, buffer, reads, todo,
                 global>>

(* cal_callback: a request brings vectors for the ring.                    *)
Completed(t, q) ==
  /\ pc[t] = "search" /\ strategy = "buffer" /\ q # << >>
  /\ reads' = Set(reads, t, q)
  /\ Goto(t, "insert")
  /\ UNCHANGED <<setup, counts, needMerge, updateDp, updateShard, cache, buffer, todo,
                 global>>

(* DiskVectorHolder_local_buffer::insert_cache; with check_dup it may find *)
(* the vector there and keep the ring as it is.                            *)
InsertRing(t) ==
  LET id == Head(reads[t]) IN
  /\ pc[t] = "insert" /\ reads[t] # << >>
  /\ reads' = Set(reads, t, Tail(reads[t]))
  /\ \/ /\ \E p \in Places : ring[t][p] = id
        /\ UNCHANGED <<buffer, needMerge>>
     \/ /\ ring' = [ring EXCEPT ![t][position[t]] = id]
        /\ lost' = Set(lost, t, IF ring[t][position[t]] = None THEN lost[t] ELSE lost[t] + 1)
        /\ position' = Set(position, t, (position[t] + 1) % LocalCapacity)
        /\ needMerge' = Set(needMerge, t, needMerge[t] \/ AskedFor(t))
  /\ UNCHANGED <<setup, pc, counts, updateDp, updateShard, cache, todo, global>>

(* insert_batch_buffer, when the request's vectors are inserted.           *)
Inserted(t) ==
  /\ pc[t] = "insert" /\ reads[t] = << >>
  /\ IF needMerge[t]
     THEN IF hasShard
          THEN /\ ring' = Set(ring, t, Emptied)
               /\ position' = Set(position, t, 0) /\ lost' = Set(lost, t, 0)
               /\ needMerge' = Set(needMerge, t, FALSE)
               /\ Goto(t, "search")
          ELSE Goto(t, "crashed") /\ UNCHANGED <<buffer, needMerge>>
     ELSE Goto(t, "search") /\ UNCHANGED <<buffer, needMerge>>
  /\ UNCHANGED <<setup, counts, updateDp, updateShard, cache, reads, todo, global>>

(* End of a round, first: insert_batch, if this thread's turn has come.    *)
BatchDue(t) ==
  /\ pc[t] = "search" /\ updateShard[t] /\ hasShard
  /\ todo' = Set(todo, t, ToSet(local[t]))
  /\ Goto(t, "batch")
  /\ UNCHANGED <<setup, counts, needMerge, updateDp, updateShard, cache, buffer, reads,
                 global>>

AtFlag(t) == pc[t] = "flagged" \/ (pc[t] = "search" /\ ~(updateShard[t] /\ hasShard))

Flagged(t) == strategy = "global" /\ needMerge[t]

(* Then: insert_batch, if need_merge is raised.  There may be no sharded   *)
(* cache to call it on.                                                    *)
FlagDue(t) ==
  /\ AtFlag(t) /\ Flagged(t)
  /\ todo' = Set(todo, t, ToSet(local[t]))
  /\ needMerge' = FlagDuring(t)
  /\ Goto(t, IF hasShard \/ local[t] = << >> THEN "flush" ELSE "crashed")
  /\ UNCHANGED <<setup, counts, updateDp, updateShard, cache, buffer, reads, global>>

(* It is not raised, and there may be something to merge.                  *)
NotFlagged(t) ==
  /\ AtFlag(t) /\ ~Flagged(t) /\ updateDp[t]
  /\ Goto(t, "merge")
  /\ UNCHANGED <<setup, counts, needMerge, updateDp, updateShard, cache, buffer, reads,
                 todo, global>>

(* insert_batch: all the vectors, in any order.  One step, since a trigger *)
(* between two of them finds fewer still to go than one before the first.  *)
HandOver(t) ==
  /\ pc[t] \in {"batch", "flush"} /\ todo[t] # {}
  /\ todo' = Set(todo, t, {}) /\ due' = Set(due, t, due[t] \ todo[t])
  /\ UNCHANGED <<setup, pc, counts, needMerge, updateDp, updateShard, local, buffer,
                 reads, global>>

HandedOver(t) ==
  /\ pc[t] \in {"batch", "flush"} /\ todo[t] = {}
  /\ IF pc[t] = "batch"
     THEN /\ updateShard' = Set(updateShard, t, FALSE)
          /\ since' = Set(since, t, 0)
          /\ Goto(t, "flagged") /\ UNCHANGED needMerge
     ELSE /\ needMerge' = Set(needMerge, t, FALSE)
          /\ Goto(t, "merge") /\ UNCHANGED <<updateShard, since>>
  /\ UNCHANGED <<setup, queries, counter, globalQueryCount, updateDp, cache, buffer,
                 reads, todo, global>>

(* Last: merge_from_local, through diskVectorHolder_dp, null or not.       *)
MergeDue(t) ==
  /\ pc[t] = "merge" /\ updateDp[t]
  /\ IF hasDp
     THEN /\ globalMutex = None /\ globalMutex' = t
          /\ todo' = Set(todo, t, ToSet(local[t])) /\ taken' = {}
          /\ Goto(t, "merging")
     ELSE Goto(t, "crashed") /\ UNCHANGED <<globalMutex, todo, taken>>
  /\ UNCHANGED <<setup, counts, needMerge, updateDp, updateShard, cache, buffer, reads,
                 dp>>

(* A vector of the frequency cache gains frequency; a new one is taken if  *)
(* its own frequency, left open here, reaches min_freq.                    *)
MergeOne(t, id) ==
  /\ pc[t] = "merging" /\ id \in todo[t]
  /\ todo' = Set(todo, t, todo[t] \ {id})
  /\ \/ dp' = ToHead(dp, id) /\ taken' = taken \cup {id}
     \/ id \notin ToSet(dp) /\ UNCHANGED <<dp, taken>>
  /\ UNCHANGED <<setup, pc, counts, needMerge, updateDp, updateShard, cache, buffer,
                 reads, globalMutex>>

(* The round is over: another one, or the query is answered.               *)
RoundOver(t) ==
  /\ \/ /\ pc[t] = "merge" \/ (AtFlag(t) /\ ~Flagged(t))
        /\ ~updateDp[t] /\ UNCHANGED <<globalMutex, updateDp>>
     \/ /\ pc[t] = "merging" /\ todo[t] = {}
        /\ globalMutex' = None /\ updateDp' = Set(updateDp, t, FALSE)
  /\ \E loc \in {"search", "idle"} : Goto(t, loc)
  /\ UNCHANGED <<setup, counts, needMerge, updateShard, cache, buffer, reads, todo, dp,
                 taken>>

(* All queries are answered, or a null pointer has ended the program.      *)
Stopped ==
  /\ \/ queries = MaxQueries /\ \A t \in Threads : pc[t] = "idle"
     \/ \E t \in Threads : pc[t] = "crashed"
  /\ UNCHANGED vars

Step(t) ==
  \/ StartQuery(t) \/ LocalHit(t)
  \/ \E id \in Ids : InsertLocal(t, id)
  \/ \E q \in BoundedSeq(Ids, MaxReads) : Completed(t, q)
  \/ InsertRing(t) \/ Inserted(t)
  \/ BatchDue(t) \/ FlagDue(t) \/ NotFlagged(t)
  \/ HandOver(t) \/ HandedOver(t) \/ MergeDue(t)
  \/ \E id \in Ids : MergeOne(t, id)
  \/ RoundOver(t)

Running == \A t \in Threads : pc[t] # "crashed"

Next == (Running /\ \E t \in Threads : Step(t)) \/ Stopped

Spec == Init /\ [][Next]_vars

-----------------------------------------------------------------------------
TypeOK ==
  /\ strategy \in Strategies /\ hasDp \in BOOLEAN /\ hasShard \in BOOLEAN
  /\ pc \in [Threads -> {"idle", "search", "insert", "batch", "flagged", "flush",
                         "merge", "merging", "crashed"}]
  /\ queries \in 0 .. MaxQueries /\ counter \in [Threads -> Nat]
  /\ globalQueryCount \in Nat
  /\ needMerge \in [Threads -> BOOLEAN]
  /\ updateDp \in [Threads -> BOOLEAN] /\ updateShard \in [Threads -> BOOLEAN]
  /\ local \in [Threads -> BoundedSeq(Ids, LocalCapacity)]
  /\ \A t \in Threads : IsInjective(local[t])
  /\ ring \in [Threads -> [Places -> Ids \cup {None}]]
  /\ position \in [Threads -> Places]
  /\ reads \in [Threads -> BoundedSeq(Ids, MaxReads)]
  /\ todo \in [Threads -> SUBSET Ids]
  /\ dp \in BoundedSeq(Ids, DpCapacity) /\ IsInjective(dp)
  /\ globalMutex \in Threads \cup {None} /\ taken \subseteq Ids
  /\ due \in [Threads -> SUBSET Ids]
  /\ lost \in [Threads -> Nat] /\ since \in [Threads -> Nat]

(***************************************************************************)
(* A trigger is not forgotten: whatever a thread had collected when        *)
(* need_merge was raised is handed over before the flag is down again,     *)
(* also when the trigger comes while the thread is handing over for the    *)
(* one before (its flag is then taken back once for both).                 *)
(***************************************************************************)
NothingForgotten == \A t \in Threads : due[t] # {} => needMerge[t]

(***************************************************************************)
(* "every 50 queries in a thread": with SINGLE_THREAD_UPDATE no thread     *)
(* answers more queries between two hand-overs, whether its counter counts *)
(* a query once or twice.                                                  *)
(***************************************************************************)
HandedOverInTime ==
  strategy = "single" /\ hasShard =>
    \A t \in Threads : pc[t] = "idle" => since[t] < BatchSize

(***************************************************************************)
(* need_merge of a full ring is looked at only when all the vectors of a   *)
(* request are inserted, so the last ones may overwrite the first.  No     *)
(* more than a request's, less the one that filled the ring, are lost.     *)
(***************************************************************************)
LossBound == \A t \in Threads : lost[t] <= MaxReads - 1

(***************************************************************************)
(* A merge does not undo itself: the vectors it has taken are at the head  *)
(* of the frequency cache, and it evicts one only when the whole cache is  *)
(* made of them.                                                           *)
(***************************************************************************)
MergedInFront ==
  globalMutex # None =>
    \/ \A i \in DOMAIN dp : dp[i] \in taken
    \/ /\ taken \subseteq ToSet(dp)
       /\ \A i, j \in DOMAIN dp : i < j /\ dp[j] \in taken => dp[i] \in taken

(***************************************************************************)
(* "Update cache in every single thread (every 50 queries in a thread)":   *)
(* the strategies that set_cache_strategy accepts work with the cache that *)
(* was warmed up.                                                          *)
(***************************************************************************)
CacheExists == (strategy = "single") => Running
=============================================================================
