---------------------------- MODULE SearchRounds ----------------------------
(***************************************************************************)
(* search_o: the pipeline by which one thread answers a slice of queries.  *)
(*                                                                         *)
(* For a query, the NProbe lists nearest to it are ranked 0 .. NProbe-1.   *)
(* The first TopProbes are read at once ("full" stage).  The others are    *)
(* read in rounds of submit_per_round lists, and while the reads of a      *)
(* stage are in flight the thread decodes the PQ codes of lists that later *)
(* rounds examine (pq_callback) and, once they are done, marks in them the *)
(* vectors already seen in this query (dp_callback).  A vector may be      *)
(* stored in several lists; duplicate_indicators is there to read it once. *)
(*                                                                         *)
(* Distances are abstracted: which vectors pass an estimate, which lists   *)
(* the centroid distance prunes, which candidates a vector cache answers   *)
(* and which neighbours share the fetched pages are nondeterministic.      *)
(* The pages of one list count as one request.                             *)
(***************************************************************************)
EXTENDS Integers, Sequences, FiniteSets

CONSTANTS
  Ids,             (* vector ids                                            *)
  Lists,           (* inverted lists                                        *)
  ListIds,         (* invlists->get_ids: the ids a list stores, in order    *)
  NQueries,        (* n, the queries of this slice                          *)
  NProbe,          (* nprobe                                                *)
  Top,             (* top                                                   *)
  RoundSizes,      (* values of submit_per_round                            *)
  FullVolume,      (* full_decode_volume                                    *)
  OneVolume,       (* partial_one_decode_volume                             *)
  TwoVolume        (* partial_two_decode_volume                             *)

ASSUME ListIdsAssumption == ListIds \in [Lists -> Seq(Ids)]
ASSUME SizesAssumption ==
  /\ NQueries \in Nat /\ NProbe \in Nat \ {0} /\ Top \in Nat
  /\ RoundSizes \subseteq Nat \ {0}
ASSUME VolumesAssumption ==
  /\ FullVolume \in Nat \ {0} /\ OneVolume \in Nat \ {0} /\ TwoVolume \in Nat \ {0}

VARIABLES
  backend,               (* the DiskIOProcessor: local disk or object store *)
  with_caches,           (* whether a vector cache may answer candidates    *)
  submit_per_round,      (* lists of a round                                *)
  keys,                  (* per query, the ranked lists                     *)
  cur_q,
  pc,
  current_pqed_list,     (* ranks below it are PQ-decoded                   *)
  current_dped_list,     (* ranks below it are marked for duplicates        *)
  pq_stage,
  pq_todo,               (* lists to decode during this round's reads       *)
  working_list,          (* ranks below it have been read or skipped        *)
  actual_submit,         (* lists of this round                             *)
  examined,              (* how many of them have been looked at            *)
  duplicate_indicators,  (* per rank and position: 1 = still to be read;    *)
                         (* declared outside the loop over the queries      *)
  id_dis_map,            (* ids seen in this query                          *)
  requests,              (* reads not reaped yet                            *)
  issued,                (* whether this submit() had any read              *)
  heap_adds              (* how often the result heap was offered an id     *)

vars == <<backend, with_caches, submit_per_round, keys, cur_q, pc,
          current_pqed_list, current_dped_list, pq_stage, pq_todo, working_list,
          actual_submit, examined, duplicate_indicators, id_dis_map, requests,
          issued, heap_adds>>

setup    == <<backend, with_caches, submit_per_round, keys>>
query    == <<setup, cur_q>>
decoding == <<current_pqed_list, current_dped_list, pq_stage, duplicate_indicators>>
round    == <<pq_todo, working_list, actual_submit, examined>>

Least(a, b)    == IF a <= b THEN a ELSE b
Greatest(a, b) == IF a >= b THEN a ELSE b

Ranks == 0 .. NProbe - 1

(* A query's probes are distinct lists.                                    *)
Probes == {p \in [Ranks -> Lists] : \A r, s \in Ranks : p[r] = p[s] => r = s}

TopProbes == Least(NProbe, Top)

(* Lists decoded while the top ones are read: at least the first round's.  *)
DecodeBatch == Least(Greatest(TopProbes * FullVolume, submit_per_round), NProbe - TopProbes)

IdsAt(r) == ListIds[keys[cur_q][r]]

IdsOf(r, positions) == {IdsAt(r)[j] : j \in positions}

(* heap_handler->add for each of the positions                             *)
Offer(r, positions) ==
  [id \in Ids |-> heap_adds[id] + Cardinality({j \in positions : IdsAt(r)[j] = id})]

(* Mutant: resize(n), which fills with 0.                                  *)
ResizeWithZeros(v, n) == [j \in 1 .. n |-> IF j <= Len(v) THEN v[j] ELSE 0]

(* Mutant: indicators are sized only the first time a rank is decoded.     *)
ResizeOnce(v, n) == IF v = << >> THEN [j \in 1 .. n |-> 1] ELSE v

(* std::vector::resize(n, 1): what is already there stays                  *)
Resize(v, n) == [j \in 1 .. n |-> IF j <= Len(v) THEN v[j] ELSE 1]

(* pq_callback: size the indicators of the lists it decodes                *)
Decoded(first, count) ==
  [r \in Ranks |-> IF r \in first .. first + count - 1
                   THEN Resize(duplicate_indicators[r], Len(IdsAt(r)))
                   ELSE duplicate_indicators[r]]

(* dp_callback / dedp: mark, in the lists just decoded, what has been seen *)
Deduplicated(first, count) ==
  [r \in Ranks |-> IF r \in first .. first + count - 1
                   THEN [j \in DOMAIN IdsAt(r) |->
                           IF IdsAt(r)[j] \in id_dis_map THEN 0 ELSE 1]
                   ELSE duplicate_indicators[r]]

(* Mutant: decoding waits for a round that reads something.                *)
PqCallbackWithReads ==
  /\ duplicate_indicators' = IF requests = {} THEN duplicate_indicators
                             ELSE Decoded(current_dped_list, pq_todo)
  /\ current_pqed_list' = current_pqed_list + (IF requests = {} THEN 0 ELSE pq_todo)

(* pq_callback of a round                                                  *)
PqCallback ==
  /\ duplicate_indicators' = Decoded(current_dped_list, pq_todo)
  /\ current_pqed_list' = current_pqed_list + pq_todo

(* Lists a round decodes; pq_stage stays at 3 from the third round on.     *)
PqTodo ==
  LET left == NProbe - current_pqed_list
  IN  CASE pq_stage = 1 -> Least(submit_per_round * OneVolume, left)
        [] pq_stage = 2 -> Least(submit_per_round * TwoVolume, left)
        [] OTHER        -> Least(submit_per_round, left)

(* Mutant: a completion is handled again at the next poll.                 *)
UnreapedStill(req) == requests

(* A completion is handled once.                                           *)
Unreaped(req) == requests \ {req}

(* Mutant: a round without reads is repeated.                              *)
NextWorkingAfterReads == working_list + (IF issued THEN actual_submit ELSE 0)

NextWorking == working_list + actual_submit

(* Reads complete in any order on a local disk; the object-store backend   *)
(* waits for all of them and takes the results in the order of the lists.  *)
Reapable(req) ==
  /\ req \in requests
  /\ backend = "S3" => \A other \in requests : req.rank <= other.rank

-----------------------------------------------------------------------------
Init ==
  /\ backend \in {"AIO", "S3"} /\ with_caches \in BOOLEAN
  /\ submit_per_round \in RoundSizes
  /\ keys \in [1 .. NQueries -> Probes]
  /\ cur_q = 1
  /\ pc = "start"
  /\ current_pqed_list = 0 /\ current_dped_list = 0
  /\ pq_stage = 0 /\ pq_todo = 0
  /\ working_list = TopProbes /\ actual_submit = 0 /\ examined = 0
  /\ duplicate_indicators = [r \in Ranks |-> << >>]
  /\ id_dis_map = {}
  /\ requests = {} /\ issued = FALSE
  /\ heap_adds = [id \in Ids |-> 0]

(* The parts of the top lists to read: none of a list whose estimates are  *)
(* all too far, else one run of positions (optimizeDiskRead).              *)
FullReads ==
  LET runs(r) == {{}} \cup {b .. e : b, e \in DOMAIN IdsAt(r)}
  IN  {reads \in [0 .. TopProbes - 1 -> UNION {runs(r) : r \in 0 .. TopProbes - 1}] :
         \A r \in 0 .. TopProbes - 1 : reads[r] \in runs(r)}

(* Decode the top lists, build the full-stage requests, decode the lists   *)
(* of the first round (search_o calls this pq_callback itself) and submit. *)
StartQuery ==
  /\ pc = "start" /\ cur_q <= NQueries
  /\ \E reads \in FullReads :
       /\ requests' = {[rank |-> r, positions |-> reads[r]] :
                         r \in {s \in 0 .. TopProbes - 1 : reads[s] # {}}}
       /\ issued' = (requests' # {})
  /\ current_pqed_list' = TopProbes + DecodeBatch
  /\ current_dped_list' = TopProbes
  /\ pq_stage' = IF TopProbes < NProbe THEN 1 ELSE 0
  /\ duplicate_indicators' = Decoded(TopProbes, DecodeBatch)
  /\ id_dis_map' = {}
  /\ heap_adds' = [id \in Ids |-> 0]
  /\ pc' = "full"
  /\ UNCHANGED <<query, round>>

(* cal_callback of the full stage: every position read counts as seen,     *)
(* also those the estimate rejects.                                        *)
ReapFull ==
  /\ pc = "full"
  /\ \E req \in requests : \E pass \in SUBSET req.positions :
       /\ Reapable(req)
       /\ heap_adds' = Offer(req.rank, pass)
       /\ id_dis_map' = id_dis_map \cup IdsOf(req.rank, req.positions)
       /\ requests' = Unreaped(req)
  /\ UNCHANGED <<query, pc, decoding, round, issued>>

(* The full stage is over.  Without reads the local-disk submit_fully      *)
(* returns before dp_callback; the object-store one calls it all the same. *)
EndFull ==
  /\ pc = "full" /\ requests = {}
  /\ duplicate_indicators' = IF issued \/ backend = "S3"
                             THEN Deduplicated(current_dped_list, DecodeBatch)
                             ELSE duplicate_indicators
  /\ current_dped_list' = current_dped_list + DecodeBatch
  /\ working_list' = TopProbes
  /\ pc' = "round"
  /\ UNCHANGED <<query, current_pqed_list, pq_stage, pq_todo, actual_submit, examined,
                 id_dis_map, requests, issued, heap_adds>>

(* A round: how many lists to examine, and how many to decode meanwhile.   *)
BeginRound ==
  /\ pc = "round" /\ working_list < NProbe
  /\ actual_submit' = Least(submit_per_round, NProbe - working_list)
  /\ pq_todo' = PqTodo
  /\ pq_stage' = Least(pq_stage + 1, 3)
  /\ examined' = 0
  /\ requests' = {}
  /\ pc' = "examine"
  /\ UNCHANGED <<query, current_pqed_list, current_dped_list, working_list,
                 duplicate_indicators, id_dis_map, issued, heap_adds>>

(* The centroid is too far: no further list of this round is examined.     *)
PruneRound ==
  /\ pc = "examine" /\ examined < actual_submit
  /\ examined' = actual_submit
  /\ UNCHANGED <<query, pc, decoding, pq_todo, working_list, actual_submit,
                 id_dis_map, requests, issued, heap_adds>>

(* What the frequency, local and sharded caches can answer                 *)
CacheHits(candidates) == IF with_caches THEN SUBSET candidates ELSE {{}}

(* The pages of what is left, as one request; they bring their neighbours. *)
PageRequests(r, wanted) ==
  IF wanted = {} THEN {{}}
  ELSE {{[rank |-> r, positions |-> wanted \cup neighbours]} :
          neighbours \in SUBSET (DOMAIN IdsAt(r) \ wanted)}

(* The candidates of a list are its unmarked vectors that pass the         *)
(* estimate.  The caches answer some, the pages of the rest are requested. *)
ExamineList ==
  /\ pc = "examine" /\ examined < actual_submit
  /\ LET r == working_list + examined
         unmarked == {j \in DOMAIN IdsAt(r) : duplicate_indicators[r][j] = 1}
     IN  \E candidates \in SUBSET unmarked : \E hits \in CacheHits(candidates) :
         \E pages \in PageRequests(r, candidates \ hits) :
           /\ heap_adds' = Offer(r, hits)
           /\ id_dis_map' = id_dis_map \cup IdsOf(r, hits)
           /\ requests' = requests \cup pages
  /\ examined' = examined + 1
  /\ UNCHANGED <<query, pc, decoding, pq_todo, working_list, actual_submit, issued>>

(* submit(): pq_callback runs while the reads are in flight, or alone.     *)
SubmitRound ==
  /\ pc = "examine" /\ examined = actual_submit
  /\ PqCallback
  /\ issued' = (requests # {})
  /\ pc' = "reap"
  /\ UNCHANGED <<query, current_dped_list, pq_stage, round, id_dis_map, requests, heap_adds>>

(* cal_callback of a round: every vector of the pages is ranked.           *)
ReapRound ==
  /\ pc = "reap"
  /\ \E req \in requests :
       /\ Reapable(req)
       /\ heap_adds' = Offer(req.rank, req.positions)
       /\ id_dis_map' = id_dis_map \cup IdsOf(req.rank, req.positions)
       /\ requests' = Unreaped(req)
  /\ UNCHANGED <<query, pc, decoding, round, issued>>

(* Both backends skip dp_callback in a round without reads.                *)
EndRound ==
  /\ pc = "reap" /\ requests = {}
  /\ duplicate_indicators' = IF issued
                             THEN Deduplicated(current_dped_list, pq_todo)
                             ELSE duplicate_indicators
  /\ current_dped_list' = current_dped_list + pq_todo
  /\ working_list' = NextWorking
  /\ pc' = "round"
  /\ UNCHANGED <<query, current_pqed_list, pq_stage, pq_todo, actual_submit, examined,
                 id_dis_map, requests, issued, heap_adds>>

EndQuery ==
  /\ pc = "round" /\ working_list >= NProbe
  /\ cur_q' = cur_q + 1
  /\ pc' = "start"
  /\ UNCHANGED <<setup, decoding, round, id_dis_map, requests, issued, heap_adds>>

Returned == pc = "start" /\ cur_q > NQueries /\ UNCHANGED vars

Next ==
  \/ StartQuery \/ ReapFull \/ EndFull
  \/ BeginRound \/ PruneRound \/ ExamineList \/ SubmitRound \/ ReapRound \/ EndRound
  \/ EndQuery \/ Returned

(* The thread runs, and the device completes every read it accepted.       *)
Spec == Init /\ [][Next]_vars /\ WF_vars(Next)

-----------------------------------------------------------------------------
TypeOK ==
  /\ backend \in {"AIO", "S3"} /\ with_caches \in BOOLEAN
  /\ submit_per_round \in RoundSizes
  /\ keys \in [1 .. NQueries -> Probes]
  /\ cur_q \in 1 .. NQueries + 1
  /\ pc \in {"start", "full", "round", "examine", "reap"}
  /\ current_pqed_list \in 0 .. NProbe /\ current_dped_list \in 0 .. NProbe
  /\ pq_stage \in 0 .. 3 /\ pq_todo \in 0 .. NProbe
  /\ working_list \in 0 .. NProbe
  /\ actual_submit \in 0 .. NProbe /\ examined \in 0 .. actual_submit
  /\ duplicate_indicators \in [Ranks -> Seq({0, 1})]
  /\ id_dis_map \subseteq Ids
  /\ \A req \in requests :
       req.rank \in Ranks /\ req.positions \subseteq DOMAIN IdsAt(req.rank)
  /\ issued \in BOOLEAN
  /\ heap_adds \in [Ids -> Nat]

(***************************************************************************)
(* Whatever the volumes, a round examines only lists that an earlier stage *)
(* has decoded, and no stage decodes past the last list: pq_distances and  *)
(* duplicate_indicators are never read before they are filled.             *)
(***************************************************************************)
DecodeAhead ==
  /\ current_pqed_list <= NProbe
  /\ pc = "round" =>
       /\ current_dped_list = current_pqed_list
       /\ current_pqed_list >= Least(NProbe, working_list + submit_per_round)
  /\ pc = "examine" =>
       /\ current_dped_list = current_pqed_list
       /\ current_pqed_list >= working_list + actual_submit

(***************************************************************************)
(* The indicators of a list a round examines are as long as the list, also *)
(* when its rank was taken by a longer or a shorter list in the query      *)
(* before.  search_o prints a complaint when they are not.                 *)
(***************************************************************************)
IndicatorSizes ==
  pc \in {"round", "examine"} =>
    \A r \in working_list .. current_dped_list - 1 :
      Len(duplicate_indicators[r]) = Len(IdsAt(r))

(***************************************************************************)
(* A vector is skipped as a duplicate only if this query has seen it.      *)
(* (In the first query of a slice: a stage without reads is not followed   *)
(* by dp_callback, and the marks that an earlier query made stay.)         *)
(***************************************************************************)
NoSilentLoss ==
  pc \in {"round", "examine"} /\ cur_q = 1 =>
    \A r \in working_list .. current_dped_list - 1 : \A j \in DOMAIN IdsAt(r) :
      duplicate_indicators[r][j] = 0 => IdsAt(r)[j] \in id_dis_map

(***************************************************************************)
(* A query offers an id to its result heap at most once per stored copy,   *)
(* and, where caches are on, once more per copy: a cached vector can come  *)
(* again with the page of a neighbour.                                     *)
(***************************************************************************)
Copies(id) ==
  Cardinality({p \in UNION {{r} \X DOMAIN IdsAt(r) : r \in Ranks} : IdsAt(p[1])[p[2]] = id})

HeapCopies ==
  pc # "start" =>
    \A id \in Ids : heap_adds[id] <= (IF with_caches THEN 2 ELSE 1) * Copies(id)

(***************************************************************************)
(* search() makes the heap assign_replicas times as long as the result so  *)
(* that the copies of a vector cannot crowd others out: no id is offered   *)
(* more often than it is stored.                                           *)
(***************************************************************************)
ReplicasSuffice ==
  pc # "start" => \A id \in Ids : heap_adds[id] <= Copies(id)

(***************************************************************************)
(* Every query of the slice is answered.                                   *)
(***************************************************************************)
Answered == <>(cur_q > NQueries)

(***************************************************************************)
(* Every step brings the slice nearer to its end: to the next query, the   *)
(* next stage, the next lists of a stage, the next part of a round, the    *)
(* next list of it, or to fewer reads.  All of these are bounded, and a    *)
(* stage that waits for reads can take one.                                *)
(***************************************************************************)
Stage(where) == CASE where = "start" -> 0 [] where = "full" -> 1 [] OTHER -> 2
Part(where)  == CASE where = "examine" -> 1 [] where = "reap" -> 2 [] OTHER -> 0

Nearer ==
  \/ cur_q' > cur_q
  \/ cur_q' = cur_q /\ Stage(pc') > Stage(pc)
  \/ /\ cur_q' = cur_q /\ Stage(pc') = Stage(pc)
     /\ \/ working_list' > working_list
        \/ /\ working_list' = working_list
           /\ \/ Part(pc') > Part(pc)
              \/ pc' = pc /\ examined' > examined
              \/ pc' = pc /\ examined' = examined /\ Cardinality(requests') < Cardinality(requests)

StepsAdvance == [][Nearer]_vars

ReadsComeIn ==
  /\ IsFiniteSet(requests)
  /\ requests # {} /\ pc \in {"full", "reap"} => \E req \in requests : Reapable(req)
=============================================================================
