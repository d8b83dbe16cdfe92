# TLA+ models of DiskV

This directory holds TLA+ specifications of the parts of this repository where
order, sharing and bookkeeping matter: the DiskV index (`IndexDiskV`, its vector
caches and its disk and object-store back ends), the on-disk inverted lists
it is built beside, and the worker threads that sharded indexes run on. TLC checks
the specifications on small instances; TLAPS proves the main theorems for every
value of the constants.

    tlc -config MCShardCache.cfg MCShardCache.tla     # one run
    tlapm ShardCacheProofs.tla                        # one module of proofs

`PROJECT.json` lists the components, the runs, which definition models which
source lines, a mutation for every checked property, and the hazards that the
properties are for.

Abbreviations below: `DV` = `src/faiss/IndexDiskV.cpp`, `HOLDER` =
`src/faiss/impl/DiskInvertedListHolder.{h,cpp}`, `IO` =
`src/faiss/impl/DiskIOProcessor.h`, `S3` = `src/faiss/impl/S3DiskIOProcessor.h`,
`OD` = `src/faiss/invlists/OnDiskInvertedLists.cpp`.

## 1. Inventory

### The system

An `IndexDiskV` is an IVF index whose vectors lie on disk, list by list, and
whose PQ codes lie in memory. A search estimates distances from the PQ codes,
reads from disk the vectors that may be among the nearest, and ranks them. A
vector may be stored in several lists (`assign_replicas`), so results repeat and
have to be told apart. Reads go through a *DiskIOProcessor*, one per thread:
Linux AIO on a local file, or range GETs on an object store. Vectors that come up
often are kept in memory by one of several caches.

| Component | State | Operations | Interaction | What is hard |
|---|---|---|---|---|
| Search pipeline, `search_o` (DV 2423-3381) | how far lists are decoded, de-duplicated and read; duplicate indicators; pending requests; result heap | a full stage, then rounds: prune, examine, submit | hands the I/O processor three callbacks (`pq_callback`, `cal_callback`, `dp_callback`) and is called back in the midst of `submit()` | decoding must stay ahead of reading; state that survives from one query to the next; rounds with nothing to read |
| I/O processors (IO, S3) | submitted, in-flight and reaped reads, an AIO context | `submit()` of full, partial and info batches | kernel AIO, or one `std::async` task a read; the callbacks above | partial submission, polls that time out or are interrupted, completions in any order, a full context |
| Sharded LRU cache, `DiskVectorHolder_shard` (HOLDER.h 510-676) | per shard a list, a map and a mutex; one relaxed counter for all | warm-up, insert, insert_batch, get, erase, clear | shared by all search threads | the counter is outside every mutex |
| Frequency cache and local caches (HOLDER, DV 814-979) | a shared map with LRU order; per thread a FIFO and a ring buffer; trigger flags | lookups, insertions, merges from the local caches into the global one | the N-th query flags a merge for every thread | locks taken by the merging thread and not by the owner; pointers returned after the lock is released |
| Lock of the on-disk lists, `LockLevels` (OD 32-125) | one mutex, three condition variables, holders, counters | lock_1 .. unlock_3 | every writer of a list | wake-ups, deadlock, exclusion while the file is remapped |
| Storage of the on-disk lists (OD 349-654) | lists, free slots, one file | add, update, resize, merge | under the lock above | slots split and joined; data moved; two units for a capacity |
| Prefetch (OD 130-245) | list ids, threads | prefetch_lists | level-1 locks | a hand-over without the mutex |
| Worker threads, `ThreadedIndex`, `IndexShards` (`utils/WorkerThread.cpp`, `impl/ThreadedIndex-inl.h`, `IndexShards.cpp`) | per worker a queue, a flag, a thread; sub-indexes, `ntotal` | add, stop; addIndex, removeIndex, add, search, reset, destruction | one task per worker and call, futures; a mutex and a condition variable | stopping with tasks queued, a flush without the mutex, tasks that throw |
| Page merging and requests (DV 2199-2303, 2640-2744, 3120-3262) | none beyond one list's search | segments of pages, requests, addresses in the buffer | between `search_o` and the I/O processor | vectors that straddle pages, the end of a list, unsigned differences |
| De-duplication of results (DV 1265-1400) | none | copy of the heap into the caller's arrays | after `search_o` | ties |
| Construction (DV 333-540, IO 280-1040) | lists in memory, the vector file and its renamed copy, centroids and their graph | batches of add_with_ids; in the last one clustering, reordering, renumbering, appended lists | file system; the layout is what searches read | a crash within the rewrite; four permutations that must agree |
| Serialization | files | read and write | file system | |

Everything else in the tree (other faiss index types, kernels, GPU code,
bindings, benchmarks) is upstream code without a part in the above.

### What makes each component correct

* **Pipeline**: a list is examined only when it is decoded; a vector is skipped
  only because it was seen; an id reaches the heap a bounded number of times; a
  query ends.
* **I/O processors**: every read is ranked once, after its data arrived and after
  the decoding; `submit()` does not return with a read under way; a batch ends.
* **Sharded cache**: a vector is there once; the counter is right but for changes in
  the middle; outside a shard being cleared the capacity
  is exceeded by a known amount at most.
* **Lock**: exclusion, no lost wake-up, the growing thread gets its turn.
* **Storage**: ranges are disjoint, data survives moves.
* **Local caches**: what a thread collected when a hand-over was triggered is
  handed over; a thread hands over as often as its strategy says; a merge does not
  undo itself; the caches a strategy uses are there.
* **Prefetch**: the list of tasks is written only while nobody can read it; what the
  last call asked for is read; a call returns.
* **Worker threads**: what a worker accepts it runs, in order, once; no future is
  left unset; a call of the index ends, with nothing of it still running.
* **Page requests**: a vector is ranked from its own bytes, once, and none that is
  wanted is missing; requests stay inside the list.
* **Construction**: file, lists in memory, appended lists and centroids number and
  order everything alike; a rewrite keeps the old vectors until it is done.

The full list of hazards, each at its line, is in `PROJECT.json`.

## 2. Modules

| Module | Models | Proofs |
|---|---|---|
| `ShardCache` | the sharded LRU cache | `ShardCacheProofs` |
| `SearchRounds` | `search_o` and what it sees of the I/O processor | `SearchRoundsProofs` |
| `ReadBatch` | abstract specification: what a caller of `submit()` may rely on | |
| `DiskSubmit` | `submit()` of both I/O processors; implements `ReadBatch` | `DiskSubmitProofs` |
| `LevelLock` | abstract specification: who may hold a list, the slots and the file | |
| `LockLevels` | the three-level lock and the order its callers use it in; implements `LevelLock` | `OnDiskListsProofs` |
| `Prefetch` | `OngoingPrefetch`, extending `LockLevels` with its threads and callers | `OnDiskListsProofs` |
| `OnDiskLists` | lists, slots and bytes of the file | `OnDiskListsProofs` |
| `LocalCaches` | the thread caches, their hand-over to the sharded cache and merge into the frequency cache | `LocalCachesProofs` |
| `PageRequests` | the reads of one list and the ranking of their buffers | `PageRequestsProofs` |
| `DiskLayout` | the building of the vector file, batch by batch | `DiskLayoutProofs` |
| `TaskQueue` | abstract specification: what a worker promises | |
| `WorkerThread` | the worker threads; implements `TaskQueue` | `WorkerThreadProofs` |
| `IndexShards` | `ThreadedIndex` and `IndexShards` over the workers | `WorkerThreadProofs` |

`MC*` modules instantiate them for TLC. An operator whose comment starts with
"Mutant" is a plausible mistake in the definition that follows it; nothing uses
it except the mutation that `PROJECT.json` lists.

### ShardCache

A shard's list and map change together under its mutex, so one sequence
(`lru[s]`) stands for both. The counter is under no mutex, so every operation is
cut where another shard's thread can come between the list and the counter:
`InsertPresent` (the vector is there: move to the front), `InsertNoEvict` /
`InsertEvict` (lock, look up, read the counter, perhaps pop the tail),
`CountEviction` (decrement), `Emplace`, `CountInsertion` (increment, unlock);
`Erase`, `CountErasure`; and for each shard that `clear()` visits, in the code's
order, `DiscountShard` (the counter goes down by the shard's content), `EmptyShard`.
`Get` changes no counter and is one step. The warm-up content (`Init`) is any set
that fits the capacity.

### SearchRounds

One thread over a slice of queries. `StartQuery` is the full stage up to
`submit()`, `ReapFull` / `EndFull` its callbacks; a round is `BeginRound`,
`PruneRound`, `ExamineList` for each list, `SubmitRound`, `ReapRound` for each
completion, `EndRound`. The counters of the code (`current_pqed_list`,
`working_list`, `pq_stage`, ...) keep their names. Distances are abstracted: which
vectors pass the estimate, which lists the centroid prunes, which candidates a
cache answers and which neighbours are on the fetched pages are nondeterministic.
`duplicate_indicators` outlives the query, as it does in the code. The back end,
whether caches may answer, and `submit_per_round` are chosen in `Init`.

### ReadBatch and DiskSubmit

`ReadBatch` is what `SearchRounds` assumes of a batch. `DiskSubmit` has the two
implementations: for `AIO`, `IoSubmit` (the kernel takes some of the reads),
`IoSubmitFails` (no room: exception), `Poll` (all that is missing, or what is
there after `AIOTimeout`), `Interrupted` (-1), and the handling of what a poll
reaped before the next poll; for `S3`, `Launch` and `JoinAll`. `Complete` is the
device. `done` is `totalDone` of the code, a signed count that an interrupted
wait of `submit_fully` decrements. Refinement mapping: `arrived` is what was
submitted and is not in flight, `status` is `pc` seen from outside; callbacks and
the batch are the same on both sides.

### LevelLock and LockLevels

One action for each stretch of code under `mutex1` between two waits; threads
sleep in `asleep[level]`, wake by a broadcast, a signal to any one sleeper, or
spuriously, and test again. `lock_3` returns with the mutex held, `unlock_3`
releases it. The callers are those of `resize_locked` and `allocate_slot`:
level 1, perhaps 2, perhaps 3, and back. `LevelLock` is what they may rely on:
pairs of a thread and its list, the holders of the slots and of the file, and the
threads stopped in `lock_2`; the file is given away only while every other holder of
a list is stopped. Refinement mapping: `Held`, `InFile` and `Stopped`, from the places
of the threads.

### Prefetch

`LockLevels` with two more kinds of threads. A call is `PrefetchLists` (take
`mutex`, empty `list_ids`), `Join`, `Fill` for each list number (the size of the
list is read without a lock: it is kept or not), `Create` for each thread, which
may run at once, and `Return`. A prefetching thread is `GetNextList` (under
`list_ids_mutex`, hence one step), `LockList`, which may sleep in `lock_1`, and
`UnlockList`. `Write` is a caller of `add_entries` or `resize`. `Destroy` is the
destructor, which joins without emptying `list_ids`.

### OnDiskLists

The file is the set of the items in it, each with its place, so that a copy that
does not happen, or a write over something else, is visible. An operation is one
step: `LockLevels` shows that it runs alone on its list and on the slots. Slots
are a sequence with the code's first-fit search, splitting and joining; the call
that passes entries where bytes are meant is modelled as it is. `CopiedWithin` is
`memcpy`: when the two places overlap nothing is known of what it leaves, and the
items are taken as lost.

### LocalCaches

The three strategies that collect vectors in a thread before they are shared.
`strategy`, `hasDp` and `hasShard` are chosen in `Init`: `set_cache_strategy`
followed by one or both warm-ups. A query is `StartQuery` (the counters and the
triggers), then rounds: `LocalHit`, `InsertLocal` or, for the ring buffer,
`Completed`, `InsertRing` for each vector and `Inserted`; then the end of the
round in the code's order: `BatchDue`, `FlagDue` / `NotFlagged`, `HandOver`,
`HandedOver`, `MergeDue`, `MergeOne` under `global_mutex`, `RoundOver`. The steps
are cut where another thread's trigger or merge can come between. A call through
a cache that was not warmed up leads to `"crashed"`. The frequencies are left
open: a merge takes a vector that is absent, or does not; the iteration order of
the maps is open too. `due`, `lost`, `since` and `taken` are history for the
properties and guard no step. The sharded cache is not a variable here, what it
does with the vectors is `ShardCache`.

### PageRequests

One list of one query. Positions are counted in elements from the list's first
page; page size, dimension, list size and the largest gap are chosen in `Init`, so
one run goes over every relative size. `StartMerge`, `JoinSegment`, `BridgeGap`,
`CutSegment` and `SubmitRequests` are the branches of `merge_pages_transpage`, and
`SegmentRequest` is the arithmetic that turns a segment into a request; the
subtraction `list_size - begin_idx` is unsigned in the code and an integer here,
so that `ReadsInside` can say that it never goes below zero. `RequestFull` is the
single request of the full stage. `RankFull` and `RankPartial` are the two
`cal_callback`s: they record, for each vector ranked, the element of the list from
which it was read, and which vectors have an entry in `id_dis_map`. A round ranks all
of its request (`BLOCK_BEAM_SEARCH`); the full stage compares each vector's estimate
with the worst of the heap at that moment and ranks those that pass, here any subset,
while the others get the entry only.

### DiskLayout

A vector is its number in the order of addition. The file is a sequence of cells,
`PageVectors` to a page; `saved` is the copy under the `.tmp` (or `.temp`) name. A
batch is `AddWithIds`, `StartRewrite` (the new layout, the rename), `FillBuffer` for
each list (the code does them in parallel; a round touches only its own list),
`WriteLists`, `RemoveSaved`; the last batch goes on with `OrderCentroids` and
`TrainGraph` if `reorganize_lists` is set, and `FinishBatch` renumbers the ids and
appends the lists. In the first batch the processor still holds the path
without `.clustered`, so `reorganize_lists` with a single batch ends in the
exception of the failed rename. Assignments, clusters and the order of the centroids are any:
they stand for distances. `home` and `id_of` are history.

### TaskQueue, WorkerThread and IndexShards

`WorkerThread` has one action for each critical section: `Add`, `Stop`, and of the
thread `Wait`, `Take`, `LeaveLoop`, then, without the mutex, `FlushNext` for each
task left, and `Exit`. `RunCallback` ends a task with `true` or an exception.
`TaskQueue` knows neither mutex nor wake-ups; the mapping gives it the part of the
queue that is not begun yet. `IndexShards` adds the one thread that calls the
index, cut where it waits: for the empty task of a new worker, for each future,
for each join. A task that throws leaves its sub-index as it was. A search with
`successive_ids`, the default, of an index without sub-indexes writes `translations[0]`
of an empty vector (IndexShards.cpp:210); that is undefined, and the call goes on
(`RunOnIndex`) or the program stops (`SearchNothing`). With `owner =
"others"` there is no index, and any threads add to, stop and replace the workers,
as the class allows: this is where a task is added after `stop()`.

## 3. Runs

| Run | Checks | Instance and why it is enough |
|---|---|---|
| `ShardCache` | `NoDuplicate`, `Accounting`, `SoftCapacity` | 2 threads, 2 shards, ids 0..3 (two a shard), capacity 2: evictions in one shard overlap insertions and both steps of a clear in the other, the counter is read at, below and above the capacity |
| `SearchRounds` | `DecodeAhead`, `IndicatorSizes`, `NoSilentLoss`, `HeapCopies`, `Answered` | 2 queries, 3 lists of 2, 3 and 1 ids in any order, 1 top list, rounds of 1 or 2, decode volumes 1/1/2, both back ends, caches on or off: rounds that are pruned, answered by a cache, or read; a rank is taken by lists of different lengths in turn; completions in any order |
| `DiskSubmit` | `Accepted`, `WaitsForReads`, `Implements`, `Ends` | 3 batches of 0..4 reads, a context of 3, 2 interruptions a batch: batches that fit and that do not, partial submissions, polls that get nothing, one, or all |
| `LockLevels` | `Exclusion`, `NoLostWakeUp`, `NeverStuck`, `Grows`, `LockImplements` | 3 threads, 3 lists: one in `lock_3`, one waiting in `lock_2`, one active or arriving |
| `Prefetch` | `QuietFill`, `AllRead`, `Returns` | 2 callers of one call each with no list, one list twice or two lists, 2 prefetching threads, 1 writer: the second call joins threads that work, wait in `lock_1` for each other or for the writer, or have returned |
| `OnDiskLists` | `Apart`, `Coalesced`, `CodesKept` | 2 lists of at most 10 one-byte codes, sizes 0, 1, 9, a file of 256 bytes, 4 slots: lists grow, shrink, move and return, slots are taken whole, split and appended, and lie on either side of lists. What `free_slot` gets is shorter than the list's range, so that slots never touch: its joining branches are taken only when merged lists are resized (`MCOnDiskListsMerged.cfg`) |
| `OnDiskListsIds` | `IdsKept` is violated | the same |
| `LocalCaches` | `NothingForgotten`, `HandedOverInTime`, `LossBound`, `MergedInFront` | 2 threads, 3 ids, caches of 2, triggers every 2 queries, 4 queries in all, any number of rounds: every cache is full and evicts, the second trigger comes while a thread hands over for the first, two merges meet at the mutex; threads and ids are symmetric (nothing orders or chooses among them) |
| `LocalCachesNull` | `CacheExists` is violated | the same |
| `PageRequests` | `OwnBytes`, `ReadsInside`, `RankedOnce`, `AllConsidered` | pages and vectors of 1 to 5 elements, lists of 1, 3 and 6 vectors, gaps of 1 to 3 pages, every set of wanted vectors: vectors that divide the page, straddle it, fill it and span several; segments that are joined, bridged and cut |
| `DiskLayout` | `DiskMatches`, `EntriesMatch`, `HomeLists`, `DataKept` | 4 lists, up to 3 vectors in batches of 1 or 2, each in up to 2 lists, 2 cells to a page, the last batch being the first, second or third: empty lists, lists that grow past a page, orders that are not their own inverse, and a batch after the last |
| `IndexShards` | `QuietCalls`, `EachOnce`, `QuietQueue`, `Implements`, `CallsEnd` | 2 sub-indexes and workers, 4 calls or 4 tasks, batches of 3 vectors: shards of unequal size, both tasks throw, or one; a sub-index is taken out and put back; a task is added before, during and after a flush |

Bounds named in the modules: `MaxReads`, `MaxBatches`, `MaxInterrupts`,
`MaxSize`, `MaxTotal`, `MaxSlots`, `NQueries`, `MaxQueries`, `MaxCalls`,
`MaxWrites`, `Arguments`, `BatchSizes`, `MaxVectors`. They cut off behaviours, never
change an action's effect.

`OnDiskLists` runs with `AddsToMerged = FALSE`: lists that `merge_from_multiple`
filled are only read. With `TRUE`, `Apart` fails for the reason section 5 gives
under `SlotsFree`, and everything that rests on it.

Three configurations belong to no run; each ends in the violation that section 5
describes: `MCLockLevelsDoc.cfg`, `MCOnDiskListsMerged.cfg`, `MCDiskLayoutIds.cfg`.

### Fairness

* `SearchRounds`: `WF(Next)`. One thread runs the pipeline; the only step that is
  not its own is a completion, and a device ends the reads it accepted.
* `DiskSubmit`: `WF(Thread)` for the calling thread and `WF(Complete(r))` for
  every read. Interruptions are not fair: they may or may not happen.
* `LockLevels`: weak fairness of each thread's acquisition and release steps. A
  thread that holds a lock releases it (its work in between is finite), and a
  thread that can take the mutex at last does. No strong fairness: `lock_1` and
  `lock_2` promise no thread its turn, and no such property is stated. `Grows`
  holds without it because a waiting `lock_3` keeps newcomers out of level 1.
* `Prefetch`: the fairness of `LockLevels`, and weak fairness of a caller's steps
  once it is inside a call. Nobody has to call, write or destroy. `Returns` needs no
  more, although `lock_1` promises nobody its turn: the threads of a call
  have finitely many lists to read, and writers finitely many writes.
* `IndexShards`: weak fairness of the calling thread inside a call, of each worker's
  loop and of the task it runs (a task ends). Spurious wake-ups and further calls
  are not fair. Deadlock is not checked: once the index is destroyed, or the calls
  are used up, nothing is left to do.
* `ShardCache`, `OnDiskLists`, `LocalCaches`, `PageRequests`, `DiskLayout`: only safety is checked, no fairness assumed.

## 4. Proofs

Each proof module defines an inductive invariant for each model (`IInv`, `PfInv`,
`StorageInv`, `DataInv`, ...), and proves that `Init` implies it, that every action
keeps it (one lemma an action), and from it the theorems named in `PROJECT.json`.
Every safety invariant that a passing run checks is stated by a theorem. Types are proved
(`TypeCorrect`, or as the first conjunct of an invariant) and not among the runs'
properties.

* **ShardCacheProofs**: any threads, shards, ids, capacity. The checked
  invariants do not suffice by themselves: `Ownership` says who can be inside an
  insertion (only the owner of the shard's mutex), which makes a step in one
  shard invisible to the others; `Budget` bounds what the cache holds plus what
  is committed to come, per occupied shard, which is what `SoftCapacity` needs
  when several shards insert at once. Every mutex owner adds what its shard's list and
  the counter disagree by; a shard being cleared is off the counter and left out of
  the first half of `SoftCapacity`, its content is bounded by the second.
* **SearchRoundsProofs**: any query, volumes and round size. `Pipeline` relates
  the counters at every place of the code (for instance that at the start of a
  round the next `submit_per_round` lists are decoded), `Sized` that the indicators
  of all decoded ranks have their list's length; both rest on the lemma that
  every decode volume is at least the lists of a round. Assumption: volumes and
  `submit_per_round` are at least 1 (the setters take any value; at 0 the
  pipeline would not advance). For `NoSilentLoss` the invariant says what every
  indicator in memory stands for: in the first query of a slice, a mark is set only
  where the id has been offered. `HeapCopies` needs an account: the times an id has
  been offered are at most the ranks settled and looked at that hold it, and a rank
  pays once. `SearchAdvances` orders the states by query, stage, lists taken,
  part of the round, list and reads left, and shows that every step goes up in that
  order: `working_list` advances in every round because a round is never empty
  (`Nonempty`).
* **OnDiskListsProofs**, `LockLevels`: any finite set of threads, any lists. `Marks` and `Counts`
  say that `level1_holders` and `n_level2` are those the threads' places imply;
  `Unique` that two holders have two lists; `Sleepers` where a sleeper can be;
  `Frozen` that what `lock_3` waited for stays true until `unlock_3`, which is
  where holding the mutex in between is needed. `NoDeadlock` takes the thread
  furthest in: who owns level 2 waits in `lock_3` only for holders that are not in
  `lock_2` (this is where the signal of `lock_2` is needed), and without an owner
  nobody has to sleep. `LockRefines` maps every step to one of `LevelLock` or to a
  stutter.
* **DiskSubmitProofs**: any number of reads, batches and interruptions, any
  context. `Places` says that a read handed over is in flight, completed, reaped
  or ranked, and only one of these; `Balance` that `totalDone`, the reads in the
  device and the interruptions add up to the reads submitted; `Stages` what holds
  at each place of the code. `PollsForReads` is the sum of `Balance` seen from
  `io_getevents`. `Implementation` then maps every step to a step of
  `ReadBatch` or to a stutter.
* **LocalCachesProofs**: any threads, ids, capacities, trigger sizes and request
  lengths (all at least 1). None of the checked properties is inductive.
  `Collected` adds that what a trigger found in a thread is still in its cache,
  and while it hands over, among what is still to go: this is why a second
  trigger may share the flag of the first. `Ring` relates the loss to what the
  request still brings, and says where a ring that does not ask is free.
  `Counted` recalls the counter at the last hand-over, a multiple of
  `BatchSize`, and that none of its values since was one; an idle thread with
  `BatchSize` queries since would have passed the next, at one or two counts a
  query. `InFront` is `MergedInFront` between the merges too. What `ToHead`
  returns is in lemmas of its own (`PushedType`, `MovedType`, `ToHeadInFront`).

* **WorkerThreadProofs**: any workers and tasks. `Places` says which flags and which
  part of the queue go with each place of the thread; with `NothingMissed` it is
  inductive. `QueueAtRest` follows: who is at the flush has been told to stop, and a
  stopped worker refuses tasks. `PromisesHeld` says that an unanswered task is
  queued or running. `QueueSteps` is the safety half of `Implements`; its fairness
  half is model-checked.
* **PageRequestsProofs**: any page size, dimension, list and gap (at least 1), any
  wanted vectors. The lemma `Align` (a page's start plus `Skip` is where
  `FirstWhole` begins) gives `OwnBytes`; `Segment` and `Span` say that what both
  kinds of request ask for lies in the list and covers what they were made for.
  `Merging` is the loop invariant of `merge_pages_transpage`: the segment in hand
  ends on `current_page`, on which either the next vector begins or the last one
  taken ends, and no request closed before reaches into it. `Requests` says that
  the requests are pairwise apart, hence share no vector; `Kept` that a wanted
  vector is always somewhere between the chosen set and the ranked ones (or, in the
  full stage, those compared with the heap).
* **OnDiskListsProofs**, `Prefetch`: any callers, threads and arguments, any number
  of calls and writes. `LockSteps` maps every step to one of `LockLevels`, whose
  `IInv` thus holds (`PrefetchLocks`). `OneCaller`, `Outside` and `Alone` say that
  while `list_ids` is filled no thread exists; `HandedOut` that the positions handed
  out are those read or being read; `Consumed` that a thread which returns leaves
  nothing. `ListsRead` assumes a thread to prefetch with: `prefetch_nthread = 0`
  reads nothing.
* **OnDiskListsProofs**, `OnDiskLists`: any lists, sizes, code size and bounds.
  `StorageInv` strengthens `Coalesced` to all pairs of slots (`Tidy`) and says which
  list is where (`Placed`, `OffSlots`). `FreeSlotKeeps`, `TakeKeeps`, `EnlargedKeeps`
  and `AllocateKeeps` are the lemmas about the slots: what was clear of them, and of
  a range released or handed out, stays so. That `free_slot` is given entries for
  bytes releases a part of the list's range, hence bytes nobody else has. `Doubling`
  shows that the two loops that double end with enough. For `CodesKept`, `CodePlace`
  and `IdPlace` say where the entries of a list are, `Elsewhere` and `SameList` that
  the writes of `Updated` and `Copied` are off the codes they do not replace. `NewPlace`
  shows that `resize_locked` never copies between overlapping places, although it
  releases the old slot before it looks for a new one: the byte before a list is in no
  free slot (part of `OffSlots`), so the new place is the old offset, where nothing is
  copied, or apart from the old range.
  Assumption: lists that `merge_from_multiple` filled are not resized
  (`~AddsToMerged`), since `SlotsFree` fails for them (section 5).
* **DiskLayoutProofs**: any batches, lists, replicas, page size and orders of the
  centroids. The invariant says, phase by phase, which of the two files holds which
  entries and in which numbering, and what ids, buffers and sizes are meanwhile.
  `FileMatches` and `NothingLost` assume that the caller passes no ids (`GivenIds =
  {}`), since with ids the file does not match the lists (section 5).
* **WorkerThreadProofs**, `IndexShards`: any sub-indexes, calls and batches. Every
  step of `IndexShards` is, on the workers' variables, one of `WorkerThread` or none
  (`WorkersWellUsed`), so that the invariant of the workers carries over. `OneTask`
  and `ThreadsOwned` add which workers a call can have posted to, and which have a
  thread at all; `QuietCalls` follows when all futures have been got.
* **WorkerThreadProofs**, `EachVectorOnce`: any sub-indexes, batches and calls. At
  rest, `Spread`: the shards hold the numbers below `added`, each once (`Kept`,
  `Single`, `Complete`), in order with `successive_ids`, and the last of
  `translations` is the total. Between the first task of an `add` and the last
  future there is a `before` that was spread (`Partway`): each sub-index
  has what it had before, or that and its slice, according to whether its task is
  done. When all are done, the slices, cut at `i * n / count`, join up to the batch
  (`Cuts`, `PieceOf`, `PiecesDisjoint`), and the shards are spread again.
  `Untasked` and `TakesTasks` say that a call's tasks are new and that no worker
  refuses them, so that none is missed. At the end the places are mapped
  one-to-one onto the numbers, which gives the count. The scope is that of
  `EachOnce`: until a task throws, or a shard that holds vectors is removed.

Recursive functions (the loops that double, the offsets and the file of
`merge_from_multiple`, the offsets of `DiskLayout`, `translations`) are unfolded by an induction over
an interval: the least number at which a fact fails has a predecessor at which it
holds, by the well-foundedness of `<` on `Nat` (`SmallestOf`, `Stepwise`). No module
that is proved about declares a RECURSIVE operator.

The safety half of liveness is proved where the code has one: that somebody can
always go on, and that what is waited for gets less.

| Liveness | Somebody can go on | The wait shrinks |
|---|---|---|
| `Grows` (a thread in `lock_3`) | `NoDeadlock` | `WaitShrinks`: no thread joins the holders it waits for |
| `Returns` (a call of `prefetch_lists`) | `PrefetchGoesOn` | `JoinWaitShrinks`: the threads take no further list |
| `CallsEnd` (a call of the index) | `CallsServed` | |
| `Answered` (a query) | `ReadsCome` | `SearchAdvances`: every step is nearer to the end |
| `Ends` (a batch of reads) | `PollsForReads`: a poll is for reads under way | |

TLC has also checked the properties of this table that are in no run (`OthersOnlyLeave`,
`CallsGoOn`, `JoinsShrink`, `CallerServed`, `StepsAdvance`, `ReadsComeIn`) on the
instances of section 3.

Only model-checked: the liveness properties (`Answered`, `Grows`, `Ends`, `Returns`,
`CallsEnd` and the fairness of `Implements` in `IndexShards`), since TLAPS proves no
liveness under fairness.

## 5. What the models show of the code

Two runs show a disagreement; `PROJECT.json` "findings" has the quotes.

1. `IdsKept`: `resize_locked` copies nothing when a list gets its own offset
   back with a smaller capacity; the ids depend on the capacity and are lost.
2. `CacheExists`: with `SINGLE_THREAD_UPDATE` and the sharded cache alone, a hit in
   a thread's own cache leads to a merge through the null `diskVectorHolder_dp`.

Disagreements with comments that no run of the list repeats:

* `ReplicasSuffice` (`SearchRounds`): the heap is `assign_replicas * k` long (DV 1265)
  because an id is expected once per replica, but with a vector cache a copy is
  offered once from the cache and again with a neighbour's page. `HeapCopies` is
  the bound that does hold.
* `NoOtherLevel1` (`LockLevels`): the comment at OD 37-38 is stricter than the code;
  the code's rule suffices (`Exclusion`).
* `SlotsFree` (`OnDiskLists`): `merge_from_multiple` leaves a free slot over the
  merged lists (OD 604), against `OnDiskInvertedLists.h:73`.
* `DiskMatches` with ids passed by the caller (`MCDiskLayoutIds.cfg`): `add_with_ids`
  takes any `xids` (`Index.h:165-173`), but the vectors of a list are found in the
  batch at `data[id * d]` (IO 638) or `data[(id - old_total) * d]` (IO 743).
* `FullLossless` (`PageRequests`): the full stage's request, under the macro
  `LOSSLESS_FULL_REDUCTION` (DV 2270), ends with the page on which the last wanted
  vector begins, and loses it if it goes on (`AllConsidered` exempts this vector).
* OnDiskInvertedLists.h:46 calls the list of empty slots "sorted by size".
  `free_slot` keeps it in the order of the offsets, which is what it needs to find the
  neighbours of a released range, and `allocate_slot` takes the first slot that is large
  enough, not the smallest. `Coalesced` states the order the code keeps.
* DV 3246 marks the loop that copies fetched vectors into the thread cache "BUG: this
  appears to misbehave". It does not say how. `OwnBytes` shows that its positions are
  right: each vector is copied from its own bytes, under its own id. What becomes of
  the copies is in `LocalCaches` (`LossBound` for one that loses some).

Not findings, since no comment or test states the contrary, but worth knowing:

* With the inner product the full stage reads `buffer + d * m` (DV 2732), where `m`
  counts from the start of the list and the buffer from the first page asked for:
  unless the request starts at the first page, it is another vector, or one past
  the buffer. `OwnBytes`, and `ReadsInside` as far as it is about where a vector is
  ranked, are stated for L2 and for the rounds.
* A search of `IndexShards` with `successive_ids` and without sub-indexes writes to an
  empty vector (`SearchNothing`); `CallsEnd` exempts it.
* `IndexShards`: when a task of an `add` throws, `ntotal` is not updated although
  other shards have grown; the next batch gives their labels again. `EachOnce` stops
  there. A shard that is removed with its vectors leaves numbers unused.
* `reorganize_lists` with a single batch fails on the rename of a file that does not
  exist under that name yet (IO 898; DV 483 appends `.clustered` afterwards).
* A batch added after the one numbered `add_batch_num` rewrites the file without the
  appended lists (`EntriesMatch` is stated for that batch).
* `NoSilentLoss` holds for a single query. With two, it fails:
  `duplicate_indicators` is declared outside the loop over the queries, and a
  batch of decoding that coincides with a round without reads is not followed by
  `dp_callback`, so marks of the previous query remain and a vector this query
  has not seen may be skipped.
* `Ends` exempts a full batch whose wait is interrupted: `submit_fully` adds -1
  to its counters and waits for one event more than there are reads. The partial
  batch tests for the error.
* A read that fails is ranked like one that succeeds: neither `io_event.res` nor
  the futures' results are looked at.
* A trigger that comes while a thread hands over is swallowed with the one before,
  without loss: the thread collects nothing in between (`NothingForgotten`).
* The ring buffer loses vectors when a request wraps it, up to the request's
  length less one (`LossBound`).
* With both caches and `SINGLE_THREAD_UPDATE` a query is counted twice, and the
  count is odd whenever it is compared with `local_merge_size` (100): the merge by
  count is never due, only hits cause merges.
* `set_cache_strategy` with the other collecting strategies also presumes a cache
  (`GLOBAL_CONTROL_UPDATE` and the ring buffer hand over to the sharded one); the
  model has those crashes, `CacheExists` is stated for the documented strategy.
* `global_capacity` of the sharded cache is soft: exceeded by up to one vector a
  shard, less one. During a `clear()` it is exceeded by more: the shard is taken off the
  counter before it is emptied, and the other shards fill the room meanwhile. In the
  run's instance (2 shards, capacity 2) four vectors are held for a moment, where the
  bound without a clear is three. `SoftCapacity` bounds the two parts separately.

## 6. Not modelled, and plan

Not modelled: distances and kernels, byte layout of the index files, argument
parsing, the object store's client, coarse quantization, upstream faiss. These
make up most of the lines of the tree: numerical code, without steps of several
actors or state that outlives a call, for which tests are the better instrument.
The copy of the heap into the results drops equal labels when they are neighbours
after sorting; whether they are depends on ties of distances, which are abstracted.

In order:

1. `LocalCaches`: strategies set a second time, whose flags add up; readers whose
   pointers outlive the cache's lock.
2. Refinements: `SearchRounds` composed with `ReadBatch`; `OnDiskLists` on top of
   `LevelLock`, with its operations cut where the lock is taken and given back.
