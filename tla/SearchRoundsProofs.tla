------------------------- MODULE SearchRoundsProofs -------------------------
(***************************************************************************)
(* Proofs about SearchRounds: its types, that the decoding pipeline stays  *)
(* ahead of the rounds, that a vector is skipped only if it was seen, and  *)
(* that it is offered to the heap no more often than its copies allow, for *)
(* every number of lists, volume and round size.                           *)
(***************************************************************************)
EXTENDS SearchRounds, FiniteSetTheorems, NaturalsInduction, WellFoundedInduction, TLAPS

(* The pipeline, stage by stage.                                           *)
Pipeline ==
  /\ pc # "start" => cur_q <= NQueries
  /\ pc \in {"start", "round"} => requests = {}
  /\ pc = "full" =>
       /\ current_dped_list = TopProbes
       /\ current_pqed_list = TopProbes + DecodeBatch
  /\ pc = "round" =>
       /\ current_dped_list = current_pqed_list
       /\ current_pqed_list >= Least(NProbe, working_list + submit_per_round)
  /\ pc = "examine" =>
       /\ current_dped_list = current_pqed_list
       /\ current_pqed_list >= working_list + actual_submit
       /\ current_pqed_list + pq_todo <= NProbe
       /\ current_pqed_list + pq_todo >= Least(NProbe, working_list + actual_submit + submit_per_round)
       /\ working_list + actual_submit <= NProbe
  /\ pc = "reap" =>
       /\ current_pqed_list = current_dped_list + pq_todo
       /\ current_pqed_list >= Least(NProbe, working_list + actual_submit + submit_per_round)
       /\ working_list + actual_submit <= NProbe
  /\ pc \in {"round", "examine", "reap"} => working_list >= TopProbes

(* The indicators of every decoded list have its size.                     *)
Sized ==
  pc # "start" =>
    \A r \in TopProbes .. current_pqed_list - 1 :
      Len(duplicate_indicators[r]) = Len(IdsAt(r))

IInv == TypeOK /\ Pipeline /\ Sized

-----------------------------------------------------------------------------
(* The numbers of the pipeline.                                            *)

LEMMA Product ==
  ASSUME NEW a \in Nat \ {0}, NEW b \in Nat \ {0}
  PROVE  a * b \in Nat /\ a * b >= a
OBVIOUS

LEMMA LeastMonotone ==
  ASSUME NEW n \in Nat, NEW a \in Nat, NEW b \in Nat, a <= b
  PROVE  Least(n, a) \in Nat /\ Least(n, b) \in Nat /\ Least(n, a) <= Least(n, b)
BY DEF Least

LEMMA TopBounds == NProbe \in Nat /\ TopProbes \in Nat /\ TopProbes <= NProbe
BY SizesAssumption DEF TopProbes, Least

LEMMA Numbers ==
  ASSUME TypeOK
  PROVE  /\ NProbe \in Nat /\ submit_per_round \in Nat /\ submit_per_round >= 1
         /\ TopProbes \in Nat /\ TopProbes <= NProbe
         /\ DecodeBatch \in Nat /\ TopProbes + DecodeBatch <= NProbe
         /\ TopProbes + DecodeBatch >= Least(NProbe, TopProbes + submit_per_round)
<1> submit_per_round \in Nat /\ submit_per_round >= 1
  BY SizesAssumption DEF TypeOK
<1>1. TopProbes \in Nat /\ TopProbes <= NProbe
  BY TopBounds
<1>2. TopProbes * FullVolume \in Nat
  BY <1>1, VolumesAssumption
<1> DEFINE p == TopProbes * FullVolume
<1>3. p \in Nat
  BY <1>2
<1> HIDE DEF p
<1>4. DecodeBatch = Least(Greatest(p, submit_per_round), NProbe - TopProbes)
  BY DEF DecodeBatch, p
<1> QED BY <1>1, <1>3, <1>4, SizesAssumption DEF Least, Greatest

(* What a round decodes is never more than what is left, and never less    *)
(* than the next round needs.                                              *)
LEMMA PqTodoBounds ==
  ASSUME TypeOK
  PROVE  /\ PqTodo \in Nat
         /\ current_pqed_list + PqTodo <= NProbe
         /\ current_pqed_list + PqTodo >= Least(NProbe, current_pqed_list + submit_per_round)
<1> DEFINE one == submit_per_round * OneVolume
           two == submit_per_round * TwoVolume
           left == NProbe - current_pqed_list
<1> current_pqed_list \in 0 .. NProbe /\ submit_per_round \in Nat \ {0}
  BY SizesAssumption DEF TypeOK
<1>1. one \in Nat /\ one >= submit_per_round
  BY Product, SizesAssumption, VolumesAssumption
<1>2. two \in Nat /\ two >= submit_per_round
  BY Product, SizesAssumption, VolumesAssumption
<1> HIDE DEF one, two
<1>3. \/ PqTodo = Least(one, left)
      \/ PqTodo = Least(two, left)
      \/ PqTodo = Least(submit_per_round, left)
  BY DEF PqTodo, one, two
<1> QED BY <1>1, <1>2, <1>3, Numbers DEF Least

-----------------------------------------------------------------------------
(* The data of the pipeline.                                               *)

LEMMA IdsAtType ==
  ASSUME TypeOK, cur_q <= NQueries, NEW r \in Ranks
  PROVE  IdsAt(r) \in Seq(Ids)
<1>1. keys[cur_q] \in [Ranks -> Lists]
  BY SizesAssumption DEF TypeOK, Probes
<1> QED BY <1>1, ListIdsAssumption DEF IdsAt

LEMMA CopiesCounted ==
  ASSUME TypeOK, cur_q <= NQueries, NEW r \in Ranks,
         NEW positions \in SUBSET DOMAIN IdsAt(r), NEW id
  PROVE  Cardinality({j \in positions : IdsAt(r)[j] = id}) \in Nat
<1>1. DOMAIN IdsAt(r) = 1 .. Len(IdsAt(r)) /\ Len(IdsAt(r)) \in Nat
  BY IdsAtType
<1>2. IsFiniteSet(DOMAIN IdsAt(r))
  BY <1>1, FS_Interval
<1>3. {j \in positions : IdsAt(r)[j] = id} \in SUBSET DOMAIN IdsAt(r)
  OBVIOUS
<1> QED BY <1>2, <1>3, FS_Subset, FS_CardinalityType

LEMMA OfferType ==
  ASSUME TypeOK, cur_q <= NQueries, NEW r \in Ranks,
         NEW positions \in SUBSET DOMAIN IdsAt(r)
  PROVE  Offer(r, positions) \in [Ids -> Nat]
<1>1. ASSUME NEW id \in Ids
      PROVE  heap_adds[id] + Cardinality({j \in positions : IdsAt(r)[j] = id}) \in Nat
  <2>1. Cardinality({j \in positions : IdsAt(r)[j] = id}) \in Nat
    BY CopiesCounted
  <2> QED BY <2>1 DEF TypeOK
<1> QED BY <1>1 DEF Offer

LEMMA IdsOfType ==
  ASSUME TypeOK, cur_q <= NQueries, NEW r \in Ranks,
         NEW positions \in SUBSET DOMAIN IdsAt(r)
  PROVE  IdsOf(r, positions) \subseteq Ids
BY IdsAtType DEF IdsOf

LEMMA DecodedType ==
  ASSUME TypeOK, cur_q <= NQueries, NEW first \in Nat, NEW count \in Nat
  PROVE  /\ Decoded(first, count) \in [Ranks -> Seq({0, 1})]
         /\ \A r \in Ranks : r \in first .. first + count - 1 =>
              Len(Decoded(first, count)[r]) = Len(IdsAt(r))
         /\ \A r \in Ranks : r \notin first .. first + count - 1 =>
              Decoded(first, count)[r] = duplicate_indicators[r]
<1>1. ASSUME NEW r \in Ranks
      PROVE  /\ Resize(duplicate_indicators[r], Len(IdsAt(r))) \in Seq({0, 1})
             /\ Len(Resize(duplicate_indicators[r], Len(IdsAt(r)))) = Len(IdsAt(r))
  <2> DEFINE v == duplicate_indicators[r]
             n == Len(IdsAt(r))
  <2>1. v \in Seq({0, 1}) /\ n \in Nat
    BY IdsAtType DEF TypeOK
  <2>2. Resize(v, n) \in [1 .. n -> {0, 1}]
    BY <2>1 DEF Resize
  <2> QED BY <2>1, <2>2
<1>2. \A r \in Ranks : duplicate_indicators[r] \in Seq({0, 1})
  BY DEF TypeOK
<1> QED BY <1>1, <1>2 DEF Decoded

LEMMA DeduplicatedType ==
  ASSUME TypeOK, cur_q <= NQueries, NEW first \in Nat, NEW count \in Nat
  PROVE  /\ Deduplicated(first, count) \in [Ranks -> Seq({0, 1})]
         /\ \A r \in Ranks : r \in first .. first + count - 1 =>
              Len(Deduplicated(first, count)[r]) = Len(IdsAt(r))
         /\ \A r \in Ranks : r \notin first .. first + count - 1 =>
              Deduplicated(first, count)[r] = duplicate_indicators[r]
<1>1. ASSUME NEW r \in Ranks
      PROVE  LET marks == [j \in DOMAIN IdsAt(r) |->
                             IF IdsAt(r)[j] \in id_dis_map THEN 0 ELSE 1]
             IN  marks \in Seq({0, 1}) /\ Len(marks) = Len(IdsAt(r))
  <2> DEFINE marks == [j \in DOMAIN IdsAt(r) |-> IF IdsAt(r)[j] \in id_dis_map THEN 0 ELSE 1]
             n == Len(IdsAt(r))
  <2>1. n \in Nat /\ DOMAIN IdsAt(r) = 1 .. n
    BY IdsAtType
  <2>2. marks \in [1 .. n -> {0, 1}]
    BY <2>1
  <2> QED BY <2>1, <2>2
<1>2. \A r \in Ranks : duplicate_indicators[r] \in Seq({0, 1})
  BY DEF TypeOK
<1> QED BY <1>1, <1>2 DEF Deduplicated

-----------------------------------------------------------------------------
(* Every action preserves the invariant.                                   *)

LEMMA InitInv == Init => IInv
<1> SUFFICES ASSUME Init PROVE IInv
  OBVIOUS
<1>1. TypeOK
  <2>1. << >> \in Seq({0, 1})
    OBVIOUS
  <2>2. duplicate_indicators \in [Ranks -> Seq({0, 1})]
    BY <2>1 DEF Init
  <2>3. heap_adds \in [Ids -> Nat]
    BY DEF Init
  <2>4. cur_q \in 1 .. NQueries + 1
    BY SizesAssumption DEF Init
  <2>5. /\ backend \in {"AIO", "S3"} /\ with_caches \in BOOLEAN
        /\ submit_per_round \in RoundSizes
        /\ keys \in [1 .. NQueries -> Probes] /\ pc = "start"
        /\ id_dis_map = {} /\ issued = FALSE /\ requests = {}
    BY DEF Init
  <2>6. /\ current_pqed_list = 0 /\ current_dped_list = 0 /\ pq_stage = 0 /\ pq_todo = 0
        /\ working_list = TopProbes /\ actual_submit = 0 /\ examined = 0
    BY DEF Init
  <2>7. /\ current_pqed_list \in 0 .. NProbe /\ current_dped_list \in 0 .. NProbe
        /\ pq_stage \in 0 .. 3 /\ pq_todo \in 0 .. NProbe /\ working_list \in 0 .. NProbe
        /\ actual_submit \in 0 .. NProbe /\ examined \in 0 .. actual_submit
    BY <2>6, TopBounds
  <2> QED BY <2>2, <2>3, <2>4, <2>5, <2>7 DEF TypeOK
<1>2. Pipeline /\ Sized
  BY DEF Init, Pipeline, Sized
<1> QED BY <1>1, <1>2 DEF IInv

LEMMA StartQueryStep ==
  ASSUME IInv, StartQuery
  PROVE  IInv'
<1> USE DEF IInv
<1>0. /\ NProbe \in Nat /\ submit_per_round \in Nat /\ submit_per_round >= 1
      /\ TopProbes \in Nat /\ TopProbes <= NProbe
      /\ DecodeBatch \in Nat /\ TopProbes + DecodeBatch <= NProbe
      /\ TopProbes + DecodeBatch >= Least(NProbe, TopProbes + submit_per_round)
  BY Numbers
<1>1. /\ pc = "start" /\ cur_q <= NQueries /\ pc' = "full"
      /\ UNCHANGED <<submit_per_round, backend, with_caches, keys, cur_q, pq_todo, working_list, actual_submit, examined>>
      /\ current_pqed_list' = TopProbes + DecodeBatch
      /\ current_dped_list' = TopProbes
      /\ pq_stage' = IF TopProbes < NProbe THEN 1 ELSE 0
      /\ duplicate_indicators' = Decoded(TopProbes, DecodeBatch)
      /\ id_dis_map' = {} /\ heap_adds' = [id \in Ids |-> 0]
  BY DEF StartQuery, query, setup, round
<1>2. \A r : IdsAt(r)' = IdsAt(r)
  BY <1>1 DEF IdsAt
<1>3. /\ issued' \in BOOLEAN
      /\ \A req \in requests' : req.rank \in Ranks /\ req.positions \subseteq DOMAIN IdsAt(req.rank)
  <2>1. PICK reads \in FullReads :
          /\ requests' = {[rank |-> r, positions |-> reads[r]] :
                            r \in {s \in 0 .. TopProbes - 1 : reads[s] # {}}}
          /\ issued' = (requests' # {})
    BY DEF StartQuery
  <2>2. ASSUME NEW r \in 0 .. TopProbes - 1
        PROVE  r \in Ranks /\ reads[r] \subseteq DOMAIN IdsAt(r)
    <3>1. r \in Ranks
      BY <1>0 DEF Ranks
    <3>2. \/ reads[r] = {}
          \/ \E b, e \in DOMAIN IdsAt(r) : reads[r] = b .. e
      BY <2>1 DEF FullReads
    <3>3. DOMAIN IdsAt(r) = 1 .. Len(IdsAt(r)) /\ Len(IdsAt(r)) \in Nat
      BY <3>1, <1>1, IdsAtType
    <3> QED BY <3>1, <3>2, <3>3
  <2> QED BY <2>1, <2>2
<1>4. TypeOK'
  <2>1. duplicate_indicators' \in [Ranks -> Seq({0, 1})]
    BY <1>1, DecodedType, <1>0
  <2> QED BY <2>1, <1>1, <1>2, <1>3, <1>0 DEF TypeOK
<1>5. Pipeline'
  <2>1. DecodeBatch' = DecodeBatch /\ TopProbes' = TopProbes
    BY <1>1 DEF DecodeBatch, TopProbes, Least, Greatest
  <2> QED BY <2>1, <1>1 DEF Pipeline
<1>6. Sized'
  <2> SUFFICES ASSUME NEW r \in TopProbes .. current_pqed_list' - 1
               PROVE  Len(duplicate_indicators'[r]) = Len(IdsAt(r)')
    BY DEF Sized
  <2>1. r \in Ranks /\ r \in TopProbes .. TopProbes + DecodeBatch - 1
    BY <1>1, <1>0 DEF Ranks
  <2> QED BY <2>1, <1>1, <1>2, DecodedType, <1>0
<1> QED BY <1>4, <1>5, <1>6

(* Reaping a read changes only the heap, the seen ids and the requests.    *)
LEMMA ReapStep ==
  ASSUME IInv, pc \in {"full", "reap"}, NEW req \in requests,
         NEW pass \in SUBSET req.positions,
         heap_adds' = Offer(req.rank, pass),
         id_dis_map' = id_dis_map \cup IdsOf(req.rank, req.positions),
         requests' = Unreaped(req),
         UNCHANGED <<query, pc, decoding, round, issued>>
  PROVE  IInv'
<1> USE DEF IInv
<1>1. cur_q <= NQueries
  BY DEF Pipeline
<1>2. req.rank \in Ranks /\ req.positions \subseteq DOMAIN IdsAt(req.rank)
  BY DEF TypeOK
<1>3. UNCHANGED <<submit_per_round, backend, with_caches, keys, cur_q, pc, current_pqed_list, current_dped_list, pq_stage,
                  duplicate_indicators, pq_todo, working_list, actual_submit, examined, issued>>
  BY DEF query, setup, decoding, round
<1>4. \A r : IdsAt(r)' = IdsAt(r)
  BY <1>3 DEF IdsAt
<1>5. heap_adds' \in [Ids -> Nat]
  BY <1>1, <1>2, OfferType
<1>6. id_dis_map' \subseteq Ids
  BY <1>1, <1>2, IdsOfType DEF TypeOK
<1>7. TypeOK'
  BY <1>3, <1>4, <1>5, <1>6 DEF TypeOK, Unreaped
<1>8. Pipeline'
  <2>1. DecodeBatch' = DecodeBatch /\ TopProbes' = TopProbes
    BY <1>3 DEF DecodeBatch, TopProbes, Least, Greatest
  <2> QED BY <2>1, <1>3 DEF Pipeline, Unreaped
<1>9. Sized'
  BY <1>3, <1>4 DEF Sized
<1> QED BY <1>7, <1>8, <1>9

LEMMA EndFullStep ==
  ASSUME IInv, EndFull
  PROVE  IInv'
<1> USE DEF IInv
<1>0. /\ NProbe \in Nat /\ submit_per_round \in Nat /\ submit_per_round >= 1
      /\ TopProbes \in Nat /\ TopProbes <= NProbe
      /\ DecodeBatch \in Nat /\ TopProbes + DecodeBatch <= NProbe
      /\ TopProbes + DecodeBatch >= Least(NProbe, TopProbes + submit_per_round)
  BY Numbers
<1>1. /\ pc = "full" /\ pc' = "round" /\ requests = {} /\ cur_q <= NQueries
      /\ current_dped_list = TopProbes /\ current_pqed_list = TopProbes + DecodeBatch
      /\ UNCHANGED <<submit_per_round, backend, with_caches, keys, cur_q, current_pqed_list, pq_stage, pq_todo, actual_submit,
                     examined, id_dis_map, requests, issued, heap_adds>>
      /\ current_dped_list' = current_dped_list + DecodeBatch
      /\ working_list' = TopProbes
  BY DEF EndFull, query, setup, Pipeline
<1>2. \A r : IdsAt(r)' = IdsAt(r)
  BY <1>1 DEF IdsAt
<1>3. \/ duplicate_indicators' = Deduplicated(TopProbes, DecodeBatch)
      \/ duplicate_indicators' = duplicate_indicators
  BY <1>1 DEF EndFull
<1>4. TypeOK'
  <2>1. duplicate_indicators' \in [Ranks -> Seq({0, 1})]
    BY <1>1, <1>3, DeduplicatedType, <1>0 DEF TypeOK
  <2> QED BY <2>1, <1>1, <1>2, <1>0 DEF TypeOK
<1>5. Pipeline'
  BY <1>1, <1>0 DEF Pipeline
<1>6. Sized'
  <2> SUFFICES ASSUME NEW r \in TopProbes .. current_pqed_list' - 1
               PROVE  Len(duplicate_indicators'[r]) = Len(IdsAt(r)')
    BY DEF Sized
  <2>1. r \in Ranks /\ r \in TopProbes .. TopProbes + DecodeBatch - 1
    BY <1>1, <1>0 DEF Ranks
  <2>2. Len(duplicate_indicators[r]) = Len(IdsAt(r))
    BY <2>1, <1>1 DEF Sized
  <2>3. Len(Deduplicated(TopProbes, DecodeBatch)[r]) = Len(IdsAt(r))
    BY <2>1, <1>1, DeduplicatedType, <1>0
  <2>4. duplicate_indicators'[r] = duplicate_indicators[r]
          \/ duplicate_indicators'[r] = Deduplicated(TopProbes, DecodeBatch)[r]
    BY <1>3
  <2> QED BY <2>2, <2>3, <2>4, <1>2
<1> QED BY <1>4, <1>5, <1>6

LEMMA BeginRoundStep ==
  ASSUME IInv, BeginRound
  PROVE  IInv'
<1> USE DEF IInv
<1>0. /\ NProbe \in Nat /\ submit_per_round \in Nat /\ submit_per_round >= 1
      /\ TopProbes \in Nat /\ TopProbes <= NProbe
      /\ DecodeBatch \in Nat /\ TopProbes + DecodeBatch <= NProbe
      /\ TopProbes + DecodeBatch >= Least(NProbe, TopProbes + submit_per_round)
  BY Numbers
<1>1. /\ pc = "round" /\ pc' = "examine" /\ working_list < NProbe
      /\ UNCHANGED <<submit_per_round, backend, with_caches, keys, cur_q, current_pqed_list, current_dped_list, working_list,
                     duplicate_indicators, id_dis_map, issued, heap_adds>>
      /\ actual_submit' = Least(submit_per_round, NProbe - working_list)
      /\ pq_todo' = PqTodo /\ pq_stage' = Least(pq_stage + 1, 3)
      /\ examined' = 0 /\ requests' = {}
  BY DEF BeginRound, query, setup
<1>2. \A r : IdsAt(r)' = IdsAt(r)
  BY <1>1 DEF IdsAt
<1>3. current_pqed_list \in 0 .. NProbe /\ working_list \in 0 .. NProbe
  BY DEF TypeOK
<1>4. /\ PqTodo \in Nat /\ current_pqed_list + PqTodo <= NProbe
      /\ current_pqed_list + PqTodo >= Least(NProbe, current_pqed_list + submit_per_round)
  BY <1>3, PqTodoBounds
<1> DEFINE size == Least(submit_per_round, NProbe - working_list)
           next == working_list + size
<1>5. size \in 0 .. NProbe /\ next = Least(NProbe, working_list + submit_per_round) /\ next \in Nat
  BY <1>1, <1>3, <1>0 DEF Least
<1>6. TypeOK'
  BY <1>1, <1>2, <1>3, <1>4, <1>5, <1>0 DEF TypeOK, Least
<1>7. Pipeline'
  <2>1. next <= current_pqed_list /\ next <= NProbe
    BY <1>1, <1>3, <1>5, <1>0 DEF Pipeline, Least
  <2>2. current_pqed_list + PqTodo >= Least(NProbe, next + submit_per_round)
    <3> HIDE DEF next
    <3>1. /\ next + submit_per_round \in Nat /\ current_pqed_list + submit_per_round \in Nat
          /\ next + submit_per_round <= current_pqed_list + submit_per_round
      BY <1>3, <1>5, <2>1, <1>0
    <3>2. /\ Least(NProbe, next + submit_per_round) \in Nat
          /\ Least(NProbe, current_pqed_list + submit_per_round) \in Nat
          /\ Least(NProbe, next + submit_per_round) <= Least(NProbe, current_pqed_list + submit_per_round)
      BY <3>1, <1>0, LeastMonotone
    <3>3. current_pqed_list + PqTodo \in Nat
      BY <1>3, <1>4
    <3> QED BY <3>2, <3>3, <1>4
  <2>3. working_list' + actual_submit' = next
    BY <1>1
  <2> HIDE DEF next, size
  <2> QED BY <2>1, <2>2, <2>3, <1>1, <1>4 DEF Pipeline
<1>8. Sized'
  BY <1>1, <1>2 DEF Sized
<1> QED BY <1>6, <1>7, <1>8

LEMMA PruneRoundStep ==
  ASSUME IInv, PruneRound
  PROVE  IInv'
<1> USE DEF IInv
<1>1. /\ pc = "examine"
      /\ UNCHANGED <<submit_per_round, backend, with_caches, keys, cur_q, pc, current_pqed_list, current_dped_list, pq_stage,
                     duplicate_indicators, pq_todo, working_list, actual_submit,
                     id_dis_map, requests, issued, heap_adds>>
      /\ examined' = actual_submit
  BY DEF PruneRound, query, setup, decoding
<1>2. \A r : IdsAt(r)' = IdsAt(r)
  BY <1>1 DEF IdsAt
<1> QED BY <1>1, <1>2 DEF TypeOK, Pipeline, Sized

LEMMA ExamineListStep ==
  ASSUME IInv, ExamineList
  PROVE  IInv'
<1> USE DEF IInv
<1>0. /\ NProbe \in Nat /\ submit_per_round \in Nat /\ submit_per_round >= 1
      /\ TopProbes \in Nat /\ TopProbes <= NProbe
      /\ DecodeBatch \in Nat /\ TopProbes + DecodeBatch <= NProbe
      /\ TopProbes + DecodeBatch >= Least(NProbe, TopProbes + submit_per_round)
  BY Numbers
<1> DEFINE r == working_list + examined
<1>1. /\ pc = "examine" /\ examined < actual_submit /\ cur_q <= NQueries
      /\ UNCHANGED <<submit_per_round, backend, with_caches, keys, cur_q, pc, current_pqed_list, current_dped_list, pq_stage,
                     duplicate_indicators, pq_todo, working_list, actual_submit, issued>>
      /\ examined' = examined + 1
  BY DEF ExamineList, query, setup, decoding, Pipeline
<1>2. \A q : IdsAt(q)' = IdsAt(q)
  BY <1>1 DEF IdsAt
<1>3. r \in Ranks
  BY <1>1, <1>0 DEF TypeOK, Pipeline, Ranks
<1>4. PICK candidates \in SUBSET DOMAIN IdsAt(r) : \E hits \in CacheHits(candidates) :
        \E pages \in PageRequests(r, candidates \ hits) :
          /\ heap_adds' = Offer(r, hits)
          /\ id_dis_map' = id_dis_map \cup IdsOf(r, hits)
          /\ requests' = requests \cup pages
  BY DEF ExamineList
<1>5. PICK hits \in SUBSET DOMAIN IdsAt(r) :
        /\ heap_adds' = Offer(r, hits)
        /\ id_dis_map' = id_dis_map \cup IdsOf(r, hits)
        /\ \/ requests' = requests
           \/ \E read \in SUBSET DOMAIN IdsAt(r) :
                requests' = requests \cup {[rank |-> r, positions |-> read]}
  <2>1. PICK hits \in CacheHits(candidates) : \E pages \in PageRequests(r, candidates \ hits) :
          /\ heap_adds' = Offer(r, hits)
          /\ id_dis_map' = id_dis_map \cup IdsOf(r, hits)
          /\ requests' = requests \cup pages
    BY <1>4
  <2>2. hits \subseteq candidates
    BY <2>1 DEF CacheHits
  <2>3. PICK pages \in PageRequests(r, candidates \ hits) : requests' = requests \cup pages
    BY <2>1
  <2>4. pages = {} \/ \E read \in SUBSET DOMAIN IdsAt(r) :
                         pages = {[rank |-> r, positions |-> read]}
    BY <2>3, <2>2 DEF PageRequests
  <2> QED BY <2>1, <2>2, <2>3, <2>4
<1>6. heap_adds' \in [Ids -> Nat] /\ id_dis_map' \subseteq Ids
  BY <1>1, <1>3, <1>5, OfferType, IdsOfType DEF TypeOK
<1>7. \A req \in requests' : req.rank \in Ranks /\ req.positions \subseteq DOMAIN IdsAt(req.rank)
  BY <1>3, <1>5 DEF TypeOK
<1>8. TypeOK'
  BY <1>1, <1>2, <1>6, <1>7 DEF TypeOK
<1>9. Pipeline'
  BY <1>1 DEF Pipeline
<1>10. Sized'
  BY <1>1, <1>2 DEF Sized
<1> QED BY <1>8, <1>9, <1>10

LEMMA SubmitRoundStep ==
  ASSUME IInv, SubmitRound
  PROVE  IInv'
<1> USE DEF IInv
<1>0. /\ NProbe \in Nat /\ submit_per_round \in Nat /\ submit_per_round >= 1
      /\ TopProbes \in Nat /\ TopProbes <= NProbe
      /\ DecodeBatch \in Nat /\ TopProbes + DecodeBatch <= NProbe
      /\ TopProbes + DecodeBatch >= Least(NProbe, TopProbes + submit_per_round)
  BY Numbers
<1>1. /\ pc = "examine" /\ pc' = "reap" /\ cur_q <= NQueries
      /\ UNCHANGED <<submit_per_round, backend, with_caches, keys, cur_q, current_dped_list, pq_stage, pq_todo, working_list,
                     actual_submit, examined, id_dis_map, requests, heap_adds>>
      /\ duplicate_indicators' = Decoded(current_dped_list, pq_todo)
      /\ current_pqed_list' = current_pqed_list + pq_todo
      /\ issued' = (requests # {})
  BY DEF SubmitRound, PqCallback, query, setup, round, Pipeline
<1>2. \A r : IdsAt(r)' = IdsAt(r)
  BY <1>1 DEF IdsAt
<1>3. /\ current_dped_list = current_pqed_list /\ current_dped_list \in Nat
      /\ pq_todo \in Nat /\ current_pqed_list + pq_todo <= NProbe
  BY <1>1 DEF Pipeline, TypeOK
<1>4. TypeOK'
  <2>1. duplicate_indicators' \in [Ranks -> Seq({0, 1})]
    BY <1>1, <1>3, DecodedType
  <2> QED BY <2>1, <1>1, <1>2, <1>3, <1>0 DEF TypeOK
<1>5. Pipeline'
  BY <1>1, <1>3 DEF Pipeline
<1>6. Sized'
  <2> SUFFICES ASSUME NEW r \in TopProbes .. current_pqed_list' - 1
               PROVE  Len(duplicate_indicators'[r]) = Len(IdsAt(r)')
    BY DEF Sized
  <2>1. r \in Ranks
    BY <1>1, <1>3, <1>0 DEF Ranks
  <2>2. CASE r \in current_dped_list .. current_dped_list + pq_todo - 1
    BY <2>1, <2>2, <1>1, <1>2, <1>3, DecodedType
  <2>3. CASE r \notin current_dped_list .. current_dped_list + pq_todo - 1
    <3>1. r \in TopProbes .. current_pqed_list - 1
      BY <2>3, <1>1, <1>3, <1>0
    <3> QED BY <3>1, <2>1, <2>3, <1>1, <1>2, <1>3, DecodedType DEF Sized
  <2> QED BY <2>2, <2>3
<1> QED BY <1>4, <1>5, <1>6

LEMMA EndRoundStep ==
  ASSUME IInv, EndRound
  PROVE  IInv'
<1> USE DEF IInv
<1>0. /\ NProbe \in Nat /\ submit_per_round \in Nat /\ submit_per_round >= 1
      /\ TopProbes \in Nat /\ TopProbes <= NProbe
      /\ DecodeBatch \in Nat /\ TopProbes + DecodeBatch <= NProbe
      /\ TopProbes + DecodeBatch >= Least(NProbe, TopProbes + submit_per_round)
  BY Numbers
<1>1. /\ pc = "reap" /\ pc' = "round" /\ requests = {} /\ cur_q <= NQueries
      /\ UNCHANGED <<submit_per_round, backend, with_caches, keys, cur_q, current_pqed_list, pq_stage, pq_todo, actual_submit,
                     examined, id_dis_map, requests, issued, heap_adds>>
      /\ current_dped_list' = current_dped_list + pq_todo
      /\ working_list' = working_list + actual_submit
  BY DEF EndRound, NextWorking, query, setup, Pipeline
<1>2. \A r : IdsAt(r)' = IdsAt(r)
  BY <1>1 DEF IdsAt
<1>3. \/ duplicate_indicators' = Deduplicated(current_dped_list, pq_todo)
      \/ duplicate_indicators' = duplicate_indicators
  BY DEF EndRound
<1>4. current_dped_list \in Nat /\ pq_todo \in Nat
  BY DEF TypeOK
<1>5. TypeOK'
  <2>1. duplicate_indicators' \in [Ranks -> Seq({0, 1})]
    BY <1>1, <1>3, <1>4, DeduplicatedType DEF TypeOK
  <2> QED BY <2>1, <1>1, <1>2, <1>0 DEF TypeOK, Pipeline
<1>6. Pipeline'
  BY <1>1, <1>0 DEF Pipeline, TypeOK
<1>7. Sized'
  <2> SUFFICES ASSUME NEW r \in TopProbes .. current_pqed_list' - 1
               PROVE  Len(duplicate_indicators'[r]) = Len(IdsAt(r)')
    BY DEF Sized
  <2>1. r \in Ranks /\ Len(duplicate_indicators[r]) = Len(IdsAt(r))
    <3>1. r \in TopProbes .. current_pqed_list - 1 /\ current_pqed_list \in 0 .. NProbe
      BY <1>1 DEF TypeOK
    <3>2. r \in Ranks
      BY <3>1, <1>0 DEF Ranks
    <3> QED BY <3>1, <3>2, <1>1 DEF Sized
  <2> DEFINE marked == Deduplicated(current_dped_list, pq_todo)
  <2>2. Len(marked[r]) = Len(IdsAt(r))
    <3>1. CASE r \in current_dped_list .. current_dped_list + pq_todo - 1
      BY <3>1, <2>1, <1>1, <1>4, DeduplicatedType
    <3>2. CASE r \notin current_dped_list .. current_dped_list + pq_todo - 1
      <4>1. marked[r] = duplicate_indicators[r]
        BY <3>2, <2>1, <1>1, <1>4, DeduplicatedType
      <4> QED BY <4>1, <2>1
    <3> QED BY <3>1, <3>2
  <2>3. duplicate_indicators'[r] = duplicate_indicators[r]
          \/ duplicate_indicators'[r] = marked[r]
    BY <1>3
  <2> HIDE DEF marked
  <2> QED BY <2>1, <2>2, <2>3, <1>2
<1> QED BY <1>5, <1>6, <1>7

LEMMA EndQueryStep ==
  ASSUME IInv, EndQuery
  PROVE  IInv'
<1> USE DEF IInv
<1>1. /\ pc = "round" /\ pc' = "start" /\ requests = {} /\ cur_q <= NQueries
      /\ UNCHANGED <<submit_per_round, backend, with_caches, keys, current_pqed_list, current_dped_list, pq_stage,
                     duplicate_indicators, pq_todo, working_list, actual_submit, examined,
                     id_dis_map, requests, issued, heap_adds>>
      /\ cur_q' = cur_q + 1
  BY DEF EndQuery, setup, decoding, round, Pipeline
<1>2. TypeOK'
  BY <1>1, SizesAssumption DEF TypeOK
<1> QED BY <1>1, <1>2 DEF Pipeline, Sized

LEMMA NextInv == IInv /\ [Next]_vars => IInv'
<1> SUFFICES ASSUME IInv, [Next]_vars PROVE IInv'
  OBVIOUS
<1>1. CASE StartQuery
  BY <1>1, StartQueryStep
<1>2. CASE ReapFull
  BY <1>2, ReapStep DEF ReapFull
<1>3. CASE EndFull
  BY <1>3, EndFullStep
<1>4. CASE BeginRound
  BY <1>4, BeginRoundStep
<1>5. CASE PruneRound
  BY <1>5, PruneRoundStep
<1>6. CASE ExamineList
  BY <1>6, ExamineListStep
<1>7. CASE SubmitRound
  BY <1>7, SubmitRoundStep
<1>8. CASE ReapRound
  <2>1. PICK req \in requests :
          /\ heap_adds' = Offer(req.rank, req.positions)
          /\ id_dis_map' = id_dis_map \cup IdsOf(req.rank, req.positions)
          /\ requests' = Unreaped(req)
    BY <1>8 DEF ReapRound
  <2>2. pc = "reap" /\ UNCHANGED <<query, pc, decoding, round, issued>>
    BY <1>8 DEF ReapRound
  <2>3. req.positions \in SUBSET req.positions
    OBVIOUS
  <2> QED BY <2>1, <2>2, <2>3, ReapStep
<1>9. CASE EndRound
  BY <1>9, EndRoundStep
<1>10. CASE EndQuery
  BY <1>10, EndQueryStep
<1>11. CASE Returned \/ UNCHANGED vars
  <2>1. UNCHANGED vars
    BY <1>11 DEF Returned
  <2>2. \A r : IdsAt(r)' = IdsAt(r)
    BY <2>1 DEF vars, IdsAt
  <2>3. DecodeBatch' = DecodeBatch /\ TopProbes' = TopProbes
    BY <2>1 DEF vars, DecodeBatch, TopProbes, Least, Greatest
  <2>4. TypeOK'
    BY <2>1, <2>2 DEF vars, IInv, TypeOK
  <2>5. Pipeline' /\ Sized'
    BY <2>1, <2>2, <2>3 DEF vars, IInv, Pipeline, Sized
  <2> QED BY <2>4, <2>5 DEF IInv
<1> QED
  BY <1>1, <1>2, <1>3, <1>4, <1>5, <1>6, <1>7, <1>8, <1>9, <1>10, <1>11 DEF Next

-----------------------------------------------------------------------------
(* The invariant holds of every behaviour of search_o.                     *)
THEOREM Invariant == Spec => []IInv
BY InitInv, NextInv, PTL DEF Spec

(* The state keeps its types: no counter of the pipeline passes the number *)
(* of lists.                                                               *)
THEOREM TypeCorrect == Spec => []TypeOK
<1>1. IInv => TypeOK
  BY DEF IInv
<1> QED BY <1>1, Invariant, PTL

(* A round examines only decoded lists, for all volumes and round sizes.   *)
THEOREM DecodedInTime == Spec => []DecodeAhead
<1>1. IInv => DecodeAhead
  BY Numbers DEF IInv, TypeOK, Pipeline, DecodeAhead
<1> QED BY <1>1, Invariant, PTL

(* The indicators of the lists a round examines have the lists' sizes,     *)
(* whatever the queries before left behind.                                *)
THEOREM IndicatorsSized == Spec => []IndicatorSizes
<1>1. IInv => IndicatorSizes
  <2> SUFFICES ASSUME IInv, pc \in {"round", "examine"},
                      NEW r \in working_list .. current_dped_list - 1
               PROVE  Len(duplicate_indicators[r]) = Len(IdsAt(r))
    BY DEF IndicatorSizes
  <2>1. r \in TopProbes .. current_pqed_list - 1
    <3>1. /\ current_dped_list = current_pqed_list /\ working_list >= TopProbes
          /\ working_list \in Nat /\ current_pqed_list \in Nat
      BY DEF IInv, Pipeline, TypeOK
    <3>2. TopProbes \in Nat
      BY Numbers DEF IInv
    <3> QED BY <3>1, <3>2
  <2> QED BY <2>1 DEF IInv, Sized
<1> QED BY <1>1, Invariant, PTL

-----------------------------------------------------------------------------
(***************************************************************************)
(* What becomes of a vector: it is skipped only if it was seen, and not    *)
(* offered more often than its copies allow.                               *)
(***************************************************************************)

(* In the first query every indicator still unsized has never been filled, *)
(* and a mark is that of a vector seen.                                    *)
Marks ==
  cur_q = 1 =>
    /\ \A r \in Ranks : pc = "start" \/ r >= current_pqed_list =>
         duplicate_indicators[r] = << >>
    /\ pc # "start" =>
         \A r \in Ranks : \A j \in DOMAIN duplicate_indicators[r] :
           duplicate_indicators[r][j] = 0 => IdsAt(r)[j] \in id_dis_map

(* The ranks below it have been looked at in this query.                   *)
Frontier ==
  CASE pc = "full"  -> TopProbes
    [] pc = "round" -> working_list
    [] OTHER        -> working_list + examined

Looked == {r \in Ranks : r < Frontier}

(* Of those, the ranks for which no read is outstanding.                   *)
Settled == {r \in Looked : \A req \in requests : req.rank # r}

(* The copies of an id in the lists of some ranks                          *)
Cells(R, id) ==
  {p \in UNION {{r} \X DOMAIN IdsAt(r) : r \in R} : IdsAt(p[1])[p[2]] = id}

(* A rank has one read at most, a copy is offered with the pages of its    *)
(* rank and, where caches are on, when its list is looked at.              *)
Offered ==
  pc # "start" =>
    /\ pc = "reap" => examined = actual_submit
    /\ \A req \in requests : req.rank \in Looked
    /\ \A a, b \in requests : a.rank = b.rank => a = b
    /\ \A id \in Ids :
         heap_adds[id] <= Cardinality(Cells(Settled, id))
                            + (IF with_caches THEN Cardinality(Cells(Looked, id)) ELSE 0)

-----------------------------------------------------------------------------
(* The marks.                                                              *)

(* What is sized for the first time says that everything is to be read.    *)
LEMMA FreshMarks ==
  ASSUME TypeOK, cur_q <= NQueries, NEW first \in Nat, NEW count \in Nat,
         \A r \in Ranks : r \in first .. first + count - 1 => duplicate_indicators[r] = << >>,
         NEW r \in Ranks
  PROVE  \/ Decoded(first, count)[r] = duplicate_indicators[r]
         \/ \A j \in DOMAIN Decoded(first, count)[r] : Decoded(first, count)[r][j] = 1
<1>1. CASE r \notin first .. first + count - 1
  BY <1>1, DecodedType
<1>2. CASE r \in first .. first + count - 1
  <2>1. Decoded(first, count)[r] = Resize(<< >>, Len(IdsAt(r)))
    BY <1>2 DEF Decoded
  <2>2. Len(IdsAt(r)) \in Nat
    BY IdsAtType
  <2>3. Resize(<< >>, Len(IdsAt(r))) = [j \in 1 .. Len(IdsAt(r)) |-> 1]
    BY <2>2 DEF Resize
  <2> QED BY <2>1, <2>3
<1> QED BY <1>1, <1>2

LEMMA TrueMarks ==
  ASSUME TypeOK, cur_q <= NQueries, NEW first \in Nat, NEW count \in Nat, NEW r \in Ranks
  PROVE  \/ Deduplicated(first, count)[r] = duplicate_indicators[r]
         \/ \A j \in DOMAIN Deduplicated(first, count)[r] :
              Deduplicated(first, count)[r][j] = 0 => IdsAt(r)[j] \in id_dis_map
<1>1. CASE r \notin first .. first + count - 1
  BY <1>1, DeduplicatedType
<1>2. CASE r \in first .. first + count - 1
  <2>1. Deduplicated(first, count)[r] =
          [j \in DOMAIN IdsAt(r) |-> IF IdsAt(r)[j] \in id_dis_map THEN 0 ELSE 1]
    BY <1>2 DEF Deduplicated
  <2> QED BY <2>1
<1> QED BY <1>1, <1>2

LEMMA InitMarks == Init => Marks
BY DEF Init, Marks

LEMMA MarksStep ==
  ASSUME IInv, Marks, Next
  PROVE  Marks'
<1> SUFFICES ASSUME cur_q' = 1 PROVE Marks'
  BY DEF Marks
<1> USE DEF IInv
<1>0. cur_q \in Nat /\ cur_q >= 1
  BY SizesAssumption DEF TypeOK
<1>1. CASE StartQuery
  <2>1. /\ pc = "start" /\ pc' = "full" /\ cur_q <= NQueries /\ cur_q = 1 /\ keys' = keys
        /\ duplicate_indicators' = Decoded(TopProbes, DecodeBatch)
        /\ current_pqed_list' = TopProbes + DecodeBatch
        /\ \A r : IdsAt(r)' = IdsAt(r)
    BY <1>1 DEF StartQuery, query, setup, IdsAt
  <2>2. /\ TopProbes \in Nat /\ DecodeBatch \in Nat
        /\ \A r \in Ranks : duplicate_indicators[r] = << >>
    BY <2>1, Numbers DEF Marks
  <2>3. ASSUME NEW r \in Ranks
        PROVE  \A j \in DOMAIN duplicate_indicators'[r] : duplicate_indicators'[r][j] # 0
    <3>1. \/ duplicate_indicators'[r] = duplicate_indicators[r]
          \/ \A j \in DOMAIN duplicate_indicators'[r] : duplicate_indicators'[r][j] = 1
      BY <2>1, <2>2, FreshMarks
    <3>2. DOMAIN << >> = {}
      OBVIOUS
    <3> QED BY <2>2, <3>1, <3>2
  <2>4. ASSUME NEW r \in Ranks, r >= current_pqed_list'
        PROVE  duplicate_indicators'[r] = << >>
    <3>1. r \notin TopProbes .. TopProbes + DecodeBatch - 1
      BY <2>1, <2>2, <2>4 DEF Ranks
    <3> QED BY <2>1, <2>2, <3>1, DecodedType
  <2> QED BY <2>1, <2>3, <2>4 DEF Marks
<1>2. CASE ReapFull \/ ReapRound \/ ExamineList \/ PruneRound \/ BeginRound
  <2>1. /\ cur_q' = cur_q /\ keys' = keys /\ pc # "start" /\ pc' # "start"
        /\ id_dis_map \subseteq id_dis_map'
        /\ duplicate_indicators' = duplicate_indicators
        /\ current_pqed_list' = current_pqed_list
        /\ \A r : IdsAt(r)' = IdsAt(r)
    BY <1>2 DEF ReapFull, ReapRound, ExamineList, PruneRound, BeginRound, query, setup,
       decoding, IdsAt
  <2> QED BY <2>1 DEF Marks
<1>3. CASE EndFull \/ EndRound
  <2>1. /\ cur_q' = cur_q /\ keys' = keys /\ pc # "start" /\ pc' = "round"
        /\ id_dis_map' = id_dis_map
        /\ current_pqed_list' = current_pqed_list
        /\ \A r : IdsAt(r)' = IdsAt(r)
        /\ cur_q <= NQueries
    BY <1>3 DEF EndFull, EndRound, query, setup, IdsAt, Pipeline
  <2>2. PICK count \in Nat :
          /\ current_pqed_list = current_dped_list + count
          /\ \/ duplicate_indicators' = duplicate_indicators
             \/ duplicate_indicators' = Deduplicated(current_dped_list, count)
    <3>1. CASE EndFull
      BY <3>1, Numbers DEF EndFull, Pipeline
    <3>2. CASE EndRound
      BY <3>2 DEF EndRound, Pipeline, TypeOK
    <3> QED BY <1>3, <3>1, <3>2
  <2>3. current_dped_list \in Nat
    BY DEF TypeOK
  <2>4. ASSUME NEW r \in Ranks, NEW j \in DOMAIN duplicate_indicators'[r],
               duplicate_indicators'[r][j] = 0
        PROVE  IdsAt(r)[j] \in id_dis_map
    BY <2>1, <2>2, <2>3, <2>4, TrueMarks DEF Marks
  <2>5. ASSUME NEW r \in Ranks, r >= current_pqed_list
        PROVE  duplicate_indicators'[r] = << >>
    <3>1. r \notin current_dped_list .. current_dped_list + count - 1
      BY <2>2, <2>3, <2>5 DEF Ranks
    <3>2. Deduplicated(current_dped_list, count)[r] = duplicate_indicators[r]
      BY <2>1, <2>3, <3>1, DeduplicatedType
    <3>3. duplicate_indicators[r] = << >>
      BY <2>1, <2>5 DEF Marks
    <3> QED BY <2>2, <3>2, <3>3
  <2> QED BY <2>1, <2>4, <2>5 DEF Marks
<1>4. CASE SubmitRound
  <2>1. /\ cur_q' = cur_q /\ keys' = keys /\ pc = "examine" /\ pc' = "reap"
        /\ id_dis_map' = id_dis_map
        /\ duplicate_indicators' = Decoded(current_dped_list, pq_todo)
        /\ current_pqed_list' = current_pqed_list + pq_todo
        /\ current_dped_list = current_pqed_list
        /\ \A r : IdsAt(r)' = IdsAt(r)
        /\ cur_q <= NQueries
    BY <1>4 DEF SubmitRound, PqCallback, query, setup, IdsAt, Pipeline
  <2>2. current_dped_list \in Nat /\ pq_todo \in Nat
    BY DEF TypeOK
  <2>3. \A r \in Ranks : r \in current_dped_list .. current_dped_list + pq_todo - 1 =>
          duplicate_indicators[r] = << >>
    BY <2>1, <2>2 DEF Marks, Ranks
  <2>4. ASSUME NEW r \in Ranks, NEW j \in DOMAIN duplicate_indicators'[r],
               duplicate_indicators'[r][j] = 0
        PROVE  IdsAt(r)[j] \in id_dis_map
    BY <2>1, <2>2, <2>3, <2>4, FreshMarks DEF Marks
  <2>5. ASSUME NEW r \in Ranks, r >= current_pqed_list'
        PROVE  duplicate_indicators'[r] = << >>
    <3>1. r \notin current_dped_list .. current_dped_list + pq_todo - 1 /\ r >= current_pqed_list
      BY <2>1, <2>2, <2>5 DEF Ranks
    <3>2. duplicate_indicators[r] = << >>
      BY <2>1, <3>1 DEF Marks
    <3>3. Decoded(current_dped_list, pq_todo)[r] = duplicate_indicators[r]
      BY <2>1, <2>2, <3>1, DecodedType, Zenon
    <3> QED BY <2>1, <3>2, <3>3
  <2> QED BY <2>1, <2>4, <2>5 DEF Marks
<1>5. CASE EndQuery
  BY <1>0, <1>5 DEF EndQuery
<1>6. CASE Returned
  BY <1>6 DEF Returned, vars, Marks, IdsAt
<1> QED BY <1>1, <1>2, <1>3, <1>4, <1>5, <1>6 DEF Next

-----------------------------------------------------------------------------
(* The copies of an id, counted.                                           *)

LEMMA RanksFinite == IsFiniteSet(Ranks)
BY SizesAssumption, FS_Interval DEF Ranks

LEMMA CellsFinite ==
  ASSUME TypeOK, cur_q <= NQueries, NEW R \in SUBSET Ranks, NEW id
  PROVE  IsFiniteSet(Cells(R, id)) /\ Cardinality(Cells(R, id)) \in Nat
<1> DEFINE places(r) == {r} \X DOMAIN IdsAt(r)
           f == [r \in R |-> places(r)]
           T == {places(r) : r \in R}
<1>1. ASSUME NEW r \in R PROVE IsFiniteSet(places(r))
  <2>1. DOMAIN IdsAt(r) = 1 .. Len(IdsAt(r)) /\ Len(IdsAt(r)) \in Nat
    BY IdsAtType
  <2>2. IsFiniteSet(DOMAIN IdsAt(r))
    BY <2>1, FS_Interval
  <2>3. IsFiniteSet({r})
    BY FS_Singleton
  <2> QED BY <2>2, <2>3, FS_Product
<1>2. IsFiniteSet(T)
  <2>1. f \in Surjection(R, T)
    BY DEF Surjection
  <2>2. IsFiniteSet(R)
    BY RanksFinite, FS_Subset
  <2> HIDE DEF f, T
  <2> QED BY <2>1, <2>2, FS_Surjection
<1>3. IsFiniteSet(UNION T)
  BY <1>1, <1>2, FS_UNION
<1>4. Cells(R, id) \subseteq UNION T
  BY DEF Cells
<1> HIDE DEF T
<1>5. IsFiniteSet(Cells(R, id))
  BY <1>3, <1>4, FS_Subset
<1> QED BY <1>5, FS_CardinalityType

LEMMA CellsGrow ==
  ASSUME TypeOK, cur_q <= NQueries, NEW R \in SUBSET Ranks, NEW Q \in SUBSET Ranks,
         R \subseteq Q, NEW id
  PROVE  Cardinality(Cells(R, id)) <= Cardinality(Cells(Q, id))
<1>1. Cells(R, id) \subseteq Cells(Q, id)
  BY DEF Cells
<1> QED BY <1>1, CellsFinite, FS_Subset

(* One more rank brings at most the copies among its positions that are    *)
(* offered.                                                                *)
LEMMA CellsAdd ==
  ASSUME TypeOK, cur_q <= NQueries, NEW R \in SUBSET Ranks, NEW r \in Ranks, r \notin R,
         NEW id, NEW positions \in SUBSET DOMAIN IdsAt(r)
  PROVE  Cardinality(Cells(R, id)) + Cardinality({j \in positions : IdsAt(r)[j] = id})
           <= Cardinality(Cells(R \cup {r}, id))
<1> DEFINE P == {j \in positions : IdsAt(r)[j] = id}
           one == {r} \X P
           f == [j \in P |-> <<r, j>>]
<1>1. f \in Injection(P, one)
  BY DEF Injection, IsInjective
<1>2. IsFiniteSet(P)
  <2>1. DOMAIN IdsAt(r) = 1 .. Len(IdsAt(r)) /\ Len(IdsAt(r)) \in Nat
    BY IdsAtType
  <2>2. IsFiniteSet(DOMAIN IdsAt(r))
    BY <2>1, FS_Interval
  <2>3. P \in SUBSET DOMAIN IdsAt(r)
    OBVIOUS
  <2> HIDE DEF P
  <2> QED BY <2>2, <2>3, FS_Subset
<1>3. one \subseteq Cells(R \cup {r}, id) /\ Cells(R, id) \subseteq Cells(R \cup {r}, id)
  BY DEF Cells
<1>4. Cells(R, id) \cap one = {}
  BY DEF Cells
<1> HIDE DEF P, f
<1>5. IsFiniteSet(one) /\ Cardinality(P) <= Cardinality(one)
  <2>1. IsFiniteSet({r}) /\ IsFiniteSet(one)
    BY <1>2, FS_Singleton, FS_Product
  <2> HIDE DEF one
  <2> QED BY <1>1, <2>1, FS_Injection
<1> HIDE DEF one
<1>6. IsFiniteSet(Cells(R, id)) /\ IsFiniteSet(Cells(R \cup {r}, id))
  BY CellsFinite
<1>7. Cardinality(Cells(R, id) \cup one) = Cardinality(Cells(R, id)) + Cardinality(one)
  <2>1. Cardinality(Cells(R, id) \cup one) =
          Cardinality(Cells(R, id)) + Cardinality(one) - Cardinality(Cells(R, id) \cap one)
    BY <1>5, <1>6, FS_Union
  <2>2. Cardinality(Cells(R, id) \cap one) = 0
    BY <1>4, FS_EmptySet
  <2>3. Cardinality(Cells(R, id)) \in Nat /\ Cardinality(one) \in Nat
    BY <1>5, <1>6, FS_CardinalityType
  <2> QED BY <2>1, <2>2, <2>3
<1>8. Cardinality(Cells(R, id) \cup one) <= Cardinality(Cells(R \cup {r}, id))
  BY <1>3, <1>6, FS_Subset
<1>9. /\ Cardinality(Cells(R, id)) \in Nat /\ Cardinality(one) \in Nat
      /\ Cardinality(P) \in Nat /\ Cardinality(Cells(R \cup {r}, id)) \in Nat
  BY <1>2, <1>5, <1>6, FS_CardinalityType
<1>10. Cardinality(Cells(R, id)) + Cardinality(P) <= Cardinality(Cells(R \cup {r}, id))
  BY <1>5, <1>7, <1>8, <1>9
<1> QED BY <1>10 DEF P

LEMMA CellsAll == \A id : Copies(id) = Cardinality(Cells(Ranks, id))
BY DEF Copies, Cells

-----------------------------------------------------------------------------
(* Every step keeps the account of what was offered.                       *)

(* What HeapCopies allows, of the ranks settled and looked at              *)
Account(settled, looked, id) ==
  Cardinality(Cells(settled, id)) + (IF with_caches THEN Cardinality(Cells(looked, id)) ELSE 0)

LEMMA AccountGrows ==
  ASSUME TypeOK, cur_q <= NQueries, NEW id,
         NEW s \in SUBSET Ranks, NEW l \in SUBSET Ranks,
         NEW t \in SUBSET Ranks, NEW m \in SUBSET Ranks, s \subseteq t, l \subseteq m
  PROVE  Account(s, l, id) \in Nat /\ Account(s, l, id) <= Account(t, m, id)
<1>1. /\ Cardinality(Cells(s, id)) \in Nat /\ Cardinality(Cells(t, id)) \in Nat
      /\ Cardinality(Cells(l, id)) \in Nat /\ Cardinality(Cells(m, id)) \in Nat
  BY CellsFinite
<1>2. /\ Cardinality(Cells(s, id)) <= Cardinality(Cells(t, id))
      /\ Cardinality(Cells(l, id)) <= Cardinality(Cells(m, id))
  BY CellsGrow
<1> QED BY <1>1, <1>2 DEF Account

(* Where nothing is offered and the two sets of ranks only grow.           *)
LEMMA NothingOffered ==
  ASSUME TypeOK, cur_q <= NQueries, Offered, pc # "start",
         heap_adds' = heap_adds,
         NEW s \in SUBSET Ranks, NEW l \in SUBSET Ranks,
         Settled \subseteq s, Looked \subseteq l, NEW id \in Ids
  PROVE  heap_adds'[id] <= Account(s, l, id)
<1>1. heap_adds[id] <= Account(Settled, Looked, id) /\ heap_adds[id] \in Nat
  BY DEF Offered, Account, TypeOK
<1>2. Settled \in SUBSET Ranks /\ Looked \in SUBSET Ranks
  BY DEF Settled, Looked
<1>3. /\ Account(Settled, Looked, id) \in Nat
      /\ Account(Settled, Looked, id) <= Account(s, l, id)
  BY <1>2, AccountGrows
<1>4. Account(s, l, id) \in Nat
  BY AccountGrows
<1> QED BY <1>1, <1>3, <1>4

(* The pages of a read are ranked: its rank is settled.                    *)
LEMMA ReadOffered ==
  ASSUME TypeOK, cur_q <= NQueries, Offered, pc # "start",
         NEW r \in Ranks, NEW positions \in SUBSET DOMAIN IdsAt(r),
         heap_adds' = Offer(r, positions),
         r \notin Settled, NEW id \in Ids
  PROVE  heap_adds'[id] <= Account(Settled \cup {r}, Looked, id)
<1> DEFINE k == Cardinality({j \in positions : IdsAt(r)[j] = id})
           a == Cardinality(Cells(Settled, id))
           b == Cardinality(Cells(Looked, id))
           c == Cardinality(Cells(Settled \cup {r}, id))
<1>1. Settled \in SUBSET Ranks /\ Looked \in SUBSET Ranks
  BY DEF Settled, Looked
<1>2. a \in Nat /\ b \in Nat /\ c \in Nat
  <2>1. Settled \cup {r} \in SUBSET Ranks
    BY <1>1
  <2> QED BY <1>1, <2>1, CellsFinite
<1>3. a + k <= c
  BY <1>1, CellsAdd
<1>4. heap_adds'[id] = heap_adds[id] + k
  BY DEF Offer
<1>5. heap_adds[id] \in Nat /\ heap_adds'[id] \in Nat
  BY OfferType DEF TypeOK
<1>6. heap_adds[id] <= a + (IF with_caches THEN b ELSE 0)
  BY DEF Offered
<1>7. k \in Int
  <2>1. k \in Nat
    BY CopiesCounted, Zenon
  <2> HIDE DEF k
  <2> QED BY <2>1
<1> HIDE DEF k, a, b, c
<1>8. heap_adds'[id] <= c + (IF with_caches THEN b ELSE 0)
  BY <1>2, <1>3, <1>4, <1>5, <1>6, <1>7
<1> QED BY <1>8 DEF Account, b, c

(* The caches answer candidates of a list: it has been looked at.          *)
LEMMA HitsOffered ==
  ASSUME TypeOK, cur_q <= NQueries, Offered, pc # "start",
         NEW r \in Ranks, NEW hits \in SUBSET DOMAIN IdsAt(r),
         hits # {} => with_caches,
         heap_adds' = Offer(r, hits), r \notin Looked,
         NEW s \in SUBSET Ranks, Settled \subseteq s, NEW id \in Ids
  PROVE  heap_adds'[id] <= Account(s, Looked \cup {r}, id)
<1> DEFINE k == Cardinality({j \in hits : IdsAt(r)[j] = id})
           a == Cardinality(Cells(Settled, id))
           b == Cardinality(Cells(Looked, id))
           c == Cardinality(Cells(s, id))
           d == Cardinality(Cells(Looked \cup {r}, id))
<1>1. Settled \in SUBSET Ranks /\ Looked \in SUBSET Ranks
  BY DEF Settled, Looked
<1>2. a \in Nat /\ b \in Nat /\ c \in Nat /\ d \in Nat
  <2>1. Looked \cup {r} \in SUBSET Ranks
    BY <1>1
  <2>2. a \in Nat /\ b \in Nat
    BY <1>1, CellsFinite
  <2>3. c \in Nat /\ d \in Nat
    BY <2>1, CellsFinite
  <2> QED BY <2>2, <2>3
<1>3. b + k <= d /\ a <= c
  BY <1>1, CellsAdd, CellsGrow
<1>4. heap_adds'[id] = heap_adds[id] + k
  BY DEF Offer
<1>5. heap_adds[id] \in Nat /\ k \in Nat
  <2>1. k \in Nat
    BY CopiesCounted, Zenon
  <2>2. heap_adds[id] \in Nat
    BY DEF TypeOK
  <2> HIDE DEF k
  <2> QED BY <2>1, <2>2
<1>6. heap_adds[id] <= a + (IF with_caches THEN b ELSE 0)
  BY DEF Offered
<1>7. ~with_caches => k = 0
  <2>1. hits = {} => {j \in hits : IdsAt(r)[j] = id} = {}
    OBVIOUS
  <2> QED BY <2>1, FS_EmptySet
<1> HIDE DEF k, a, b, c, d
<1>8. heap_adds'[id] <= c + (IF with_caches THEN d ELSE 0)
  BY <1>2, <1>3, <1>4, <1>5, <1>6, <1>7
<1> QED BY <1>8 DEF Account, c, d

(* The account after a step, of a query that goes on                       *)
LEMMA OfferedIs ==
  ASSUME UNCHANGED <<keys, cur_q, with_caches>>,
         pc' # "start" =>
           /\ pc' = "reap" => examined' = actual_submit'
           /\ \A req \in requests' : req.rank \in Looked'
           /\ \A a, b \in requests' : a.rank = b.rank => a = b
           /\ \A id \in Ids : heap_adds'[id] <= Account(Settled', Looked', id)
  PROVE  Offered'
<1>1. \A id : Account(Settled', Looked', id) =
                Cardinality(Cells(Settled, id)')
                  + (IF with_caches' THEN Cardinality(Cells(Looked, id)') ELSE 0)
  BY DEF Account, Cells, IdsAt
<1> QED BY <1>1 DEF Offered

LEMMA InitOffered == Init => Offered
BY DEF Init, Offered

LEMMA OfferedStart ==
  ASSUME IInv, StartQuery
  PROVE  Offered'
<1> USE DEF IInv
<1>1. /\ cur_q <= NQueries /\ pc' = "full" /\ heap_adds' = [id \in Ids |-> 0]
      /\ UNCHANGED <<keys, cur_q, with_caches>>
  BY DEF StartQuery, query, setup
<1>2. PICK reads \in FullReads :
        requests' = {[rank |-> r, positions |-> reads[r]] :
                       r \in {s \in 0 .. TopProbes - 1 : reads[s] # {}}}
  BY DEF StartQuery
<1>3. Looked' = 0 .. TopProbes - 1
  BY <1>1, TopBounds DEF Looked, Frontier, Ranks
<1>4. /\ \A req \in requests' : req.rank \in Looked'
      /\ \A a, b \in requests' : a.rank = b.rank => a = b
  BY <1>2, <1>3
<1>5. ASSUME NEW id \in Ids PROVE heap_adds'[id] <= Account(Settled', Looked', id)
  <2>1. PICK s \in SUBSET Ranks, l \in SUBSET Ranks : s = Settled' /\ l = Looked'
    BY DEF Settled, Looked
  <2>2. Account(s, l, id) \in Nat
    BY <1>1, AccountGrows
  <2> QED BY <1>1, <2>1, <2>2
<1> QED BY <1>1, <1>4, <1>5, OfferedIs

LEMMA OfferedReap ==
  ASSUME IInv, Offered, pc \in {"full", "reap"}, NEW req \in requests,
         NEW pass \in SUBSET req.positions,
         heap_adds' = Offer(req.rank, pass), requests' = Unreaped(req),
         UNCHANGED <<query, pc, round>>
  PROVE  Offered'
<1> USE DEF IInv
<1>1. /\ cur_q <= NQueries /\ req.rank \in Ranks /\ req.positions \subseteq DOMAIN IdsAt(req.rank)
      /\ UNCHANGED <<keys, cur_q, with_caches, pc, working_list, examined, actual_submit>>
  BY DEF Pipeline, TypeOK, query, setup, round
<1>2. Looked' = Looked /\ req.rank \in Looked
  BY <1>1 DEF Looked, Frontier, Offered
<1>3. Settled' = Settled \cup {req.rank} /\ req.rank \notin Settled
  BY <1>2 DEF Settled, Unreaped, Offered
<1>4. ASSUME NEW id \in Ids PROVE heap_adds'[id] <= Account(Settled', Looked', id)
  BY <1>1, <1>2, <1>3, ReadOffered
<1>5. /\ pc' = "reap" => examined' = actual_submit'
      /\ \A other \in requests' : other.rank \in Looked'
      /\ \A a, b \in requests' : a.rank = b.rank => a = b
  BY <1>1, <1>2 DEF Offered, Unreaped
<1> QED BY <1>1, <1>4, <1>5, OfferedIs

(* A step that offers nothing and makes no request                         *)
LEMMA OfferedOn ==
  ASSUME IInv, Offered, pc # "start", cur_q <= NQueries,
         UNCHANGED <<keys, cur_q, with_caches, heap_adds>>,
         requests' \subseteq requests, Looked \subseteq Looked',
         pc' = "reap" => examined' = actual_submit'
  PROVE  Offered'
<1>1. Settled \subseteq Settled'
  BY DEF Settled
<1>2. PICK s \in SUBSET Ranks, l \in SUBSET Ranks : s = Settled' /\ l = Looked'
  BY DEF Settled, Looked
<1>3. \A id \in Ids : heap_adds'[id] <= Account(s, l, id)
  BY <1>1, <1>2, NothingOffered DEF IInv
<1>4. /\ \A req \in requests' : req.rank \in Looked'
      /\ \A a, b \in requests' : a.rank = b.rank => a = b
  BY DEF Offered
<1> QED BY <1>2, <1>3, <1>4, OfferedIs

LEMMA OfferedExamine ==
  ASSUME IInv, Offered, ExamineList
  PROVE  Offered'
<1> USE DEF IInv
<1>0. PICK r : r = working_list + examined
  OBVIOUS
<1>1. /\ pc = "examine" /\ pc' = "examine" /\ examined < actual_submit /\ cur_q <= NQueries
      /\ examined' = examined + 1
      /\ UNCHANGED <<keys, cur_q, with_caches, working_list>>
  BY DEF ExamineList, query, setup, Pipeline
<1>2. r \in Ranks /\ working_list \in Nat /\ examined \in Nat /\ actual_submit \in Nat
  <2>1. /\ working_list \in Nat /\ examined \in Nat /\ actual_submit \in Nat
        /\ current_pqed_list \in Nat /\ pq_todo \in Nat
    BY <1>1 DEF TypeOK
  <2>2. /\ current_pqed_list >= working_list + actual_submit
        /\ current_pqed_list + pq_todo <= NProbe
    BY <1>1 DEF Pipeline
  <2>3. NProbe \in Nat
    BY Numbers
  <2> HIDE DEF IInv
  <2> QED BY <1>0, <1>1, <2>1, <2>2, <2>3 DEF Ranks
<1>3. PICK hits \in SUBSET DOMAIN IdsAt(r) :
        /\ hits # {} => with_caches
        /\ heap_adds' = Offer(r, hits)
        /\ \/ requests' = requests
           \/ \E read : requests' = requests \cup {[rank |-> r, positions |-> read]}
  <2>1. PICK candidates \in SUBSET DOMAIN IdsAt(r) : \E hits \in CacheHits(candidates) :
          \E pages \in PageRequests(r, candidates \ hits) :
            heap_adds' = Offer(r, hits) /\ requests' = requests \cup pages
    BY <1>0 DEF ExamineList
  <2>2. PICK hits \in CacheHits(candidates) :
          \E pages \in PageRequests(r, candidates \ hits) :
            heap_adds' = Offer(r, hits) /\ requests' = requests \cup pages
    BY <2>1
  <2>3. hits \subseteq candidates /\ (hits # {} => with_caches)
    BY <2>2 DEF CacheHits
  <2>4. PICK pages \in PageRequests(r, candidates \ hits) : requests' = requests \cup pages
    BY <2>2
  <2>5. pages = {} \/ \E read : pages = {[rank |-> r, positions |-> read]}
    BY <2>4 DEF PageRequests
  <2> QED BY <2>2, <2>3, <2>4, <2>5
<1>4. Looked' = Looked \cup {r} /\ r \notin Looked
  BY <1>0, <1>1, <1>2 DEF Looked, Frontier, Ranks
<1>5. \A req \in requests : req.rank \in Looked
  BY <1>1 DEF Offered
<1>6. /\ \A req \in requests' : req.rank \in Looked'
      /\ \A a, b \in requests' : a.rank = b.rank => a = b
  BY <1>1, <1>3, <1>4, <1>5 DEF Offered
<1>7. Settled \subseteq Settled'
  BY <1>3, <1>4 DEF Settled
<1>8. PICK s \in SUBSET Ranks : s = Settled'
  BY DEF Settled, Looked
<1>9. \A id \in Ids : heap_adds'[id] <= Account(s, Looked \cup {r}, id)
  BY <1>1, <1>2, <1>3, <1>4, <1>7, <1>8, HitsOffered
<1> QED BY <1>1, <1>4, <1>6, <1>8, <1>9, OfferedIs

LEMMA OfferedStep ==
  ASSUME IInv, IInv', Offered, Next
  PROVE  Offered'
<1> USE DEF IInv
<1>1. CASE ReapFull \/ ReapRound
  <2>1. PICK req \in requests : \E pass \in SUBSET req.positions :
          heap_adds' = Offer(req.rank, pass) /\ requests' = Unreaped(req)
    BY <1>1 DEF ReapFull, ReapRound
  <2>2. pc \in {"full", "reap"} /\ UNCHANGED <<query, pc, round>>
    BY <1>1 DEF ReapFull, ReapRound
  <2> QED BY <2>1, <2>2, OfferedReap
<1>2. CASE EndFull \/ BeginRound \/ PruneRound \/ SubmitRound \/ EndRound
  <2>1. /\ pc # "start" /\ cur_q <= NQueries
        /\ UNCHANGED <<keys, cur_q, with_caches, heap_adds>>
    BY <1>2 DEF EndFull, BeginRound, PruneRound, SubmitRound, EndRound, query, setup, Pipeline
  <2>2. requests' \subseteq requests
    BY <1>2 DEF EndFull, BeginRound, PruneRound, SubmitRound, EndRound
  <2>3. pc' = "reap" => examined' = actual_submit'
    BY <1>2 DEF EndFull, BeginRound, PruneRound, SubmitRound, EndRound, round
  <2>4. working_list \in Nat /\ examined \in Nat /\ actual_submit \in Nat /\ examined <= actual_submit
    BY DEF TypeOK
  <2>5. Looked \subseteq Looked'
    <3>1. CASE EndFull
      BY <3>1 DEF EndFull, Looked, Frontier
    <3>2. CASE BeginRound
      BY <3>2, <2>4 DEF BeginRound, Looked, Frontier
    <3>3. CASE PruneRound
      BY <3>3, <2>4 DEF PruneRound, Looked, Frontier, Ranks
    <3>4. CASE SubmitRound
      BY <3>4 DEF SubmitRound, round, Looked, Frontier
    <3>5. CASE EndRound
      BY <3>5, <2>4 DEF EndRound, NextWorking, Looked, Frontier, Offered
    <3> QED BY <1>2, <3>1, <3>2, <3>3, <3>4, <3>5
  <2> QED BY <2>1, <2>2, <2>3, <2>5, OfferedOn
<1>3. CASE EndQuery
  BY <1>3 DEF EndQuery, Offered
<1>4. CASE Returned
  BY <1>4 DEF Returned, vars, Offered, Cells, IdsAt, Settled, Looked, Frontier
<1> QED BY <1>1, <1>2, <1>3, <1>4, OfferedStart, OfferedExamine DEF Next

-----------------------------------------------------------------------------
LEMMA FateStep == IInv /\ Marks /\ Offered /\ [Next]_vars => Marks' /\ Offered'
<1> SUFFICES ASSUME IInv, Marks, Offered, [Next]_vars PROVE Marks' /\ Offered'
  OBVIOUS
<1>1. CASE Next
  <2>1. IInv'
    BY NextInv
  <2> QED BY <1>1, <2>1, MarksStep, OfferedStep
<1>2. CASE UNCHANGED vars
  BY <1>2 DEF vars, Marks, Offered, Cells, IdsAt, Settled, Looked, Frontier
<1> QED BY <1>1, <1>2

LEMMA Fate == Spec => [](Marks /\ Offered)
<1>1. Init => Marks /\ Offered
  BY InitMarks, InitOffered
<1> QED BY <1>1, FateStep, Invariant, PTL DEF Spec

(* In the first query of a slice no vector is skipped as a duplicate that  *)
(* the query has not seen, for all lists, volumes and round sizes.         *)
THEOREM NothingSkippedUnseen == Spec => []NoSilentLoss
<1>1. IInv /\ Marks => NoSilentLoss
  <2> SUFFICES ASSUME IInv, Marks, pc \in {"round", "examine"}, cur_q = 1,
                      NEW r \in working_list .. current_dped_list - 1,
                      NEW j \in DOMAIN IdsAt(r), duplicate_indicators[r][j] = 0
               PROVE  IdsAt(r)[j] \in id_dis_map
    BY DEF NoSilentLoss
  <2>0. /\ current_dped_list = current_pqed_list /\ working_list >= TopProbes
        /\ current_pqed_list \in 0 .. NProbe /\ working_list \in 0 .. NProbe
        /\ TopProbes \in Nat /\ NProbe \in Nat
    BY Numbers DEF IInv, Pipeline, TypeOK
  <2>1. r \in Ranks /\ r \in TopProbes .. current_pqed_list - 1
    BY <2>0 DEF Ranks
  <2>2. Len(duplicate_indicators[r]) = Len(IdsAt(r)) /\ cur_q <= NQueries
    BY <2>1 DEF IInv, Sized, Pipeline
  <2>3. duplicate_indicators[r] \in Seq({0, 1}) /\ IdsAt(r) \in Seq(Ids)
    BY <2>1, <2>2, IdsAtType DEF IInv, TypeOK
  <2>4. j \in DOMAIN duplicate_indicators[r]
    BY <2>2, <2>3
  <2> QED BY <2>1, <2>4 DEF Marks
<1> QED BY <1>1, Fate, Invariant, PTL

(* An id is offered to the heap once per copy, and once more where caches  *)
(* are on, whatever order reads complete in and whatever pages they bring. *)
THEOREM OffersBounded == Spec => []HeapCopies
<1>1. IInv /\ Offered => HeapCopies
  <2> SUFFICES ASSUME IInv, Offered, pc # "start", NEW id \in Ids
               PROVE  heap_adds[id] <= (IF with_caches THEN 2 ELSE 1) * Copies(id)
    BY DEF HeapCopies
  <2>1. cur_q <= NQueries /\ TypeOK /\ heap_adds[id] \in Nat
    BY DEF IInv, Pipeline, TypeOK
  <2>2. Settled \in SUBSET Ranks /\ Looked \in SUBSET Ranks
    BY DEF Settled, Looked
  <2>3. /\ Cardinality(Cells(Settled, id)) \in Nat /\ Cardinality(Cells(Looked, id)) \in Nat
        /\ Copies(id) \in Nat
    BY <2>1, <2>2, CellsFinite, CellsAll
  <2>4. /\ Cardinality(Cells(Settled, id)) <= Copies(id)
        /\ Cardinality(Cells(Looked, id)) <= Copies(id)
    BY <2>1, <2>2, CellsGrow, CellsAll
  <2>5. heap_adds[id] <= Cardinality(Cells(Settled, id))
                           + (IF with_caches THEN Cardinality(Cells(Looked, id)) ELSE 0)
    BY DEF Offered
  <2> QED BY <2>1, <2>3, <2>4, <2>5
<1> QED BY <1>1, Fate, Invariant, PTL

-----------------------------------------------------------------------------
(***************************************************************************)
(* The slice comes to its end: the safety half of Answered.                *)
(***************************************************************************)

(* A nonempty set of numbers has a least one.                              *)
LEMMA FirstOf ==
  ASSUME NEW S \in SUBSET Nat, S # {}
  PROVE  \E k \in S : \A i \in S : k <= i
<1>1. ASSUME NEW i \in Nat, NEW k \in Nat, i < k PROVE <<i, k>> \in OpToRel(<, Nat)
  BY <1>1 DEF OpToRel
<1>2. PICK k \in S : \A i \in S : ~(<<i, k>> \in OpToRel(<, Nat))
  BY NatLessThanWellFounded, WFMin
<1>3. ASSUME NEW i \in S PROVE k <= i
  <2>1. ~(i < k)
    BY <1>1, <1>2
  <2> QED BY <2>1
<1> QED BY <1>3

(* Also in the order of the lists, one of the reads comes first.           *)
LEMMA SomeReapable ==
  ASSUME TypeOK, requests # {}
  PROVE  \E req \in requests : Reapable(req)
<1> DEFINE ranks == {req.rank : req \in requests}
<1>1. ranks \in SUBSET Nat /\ ranks # {}
  <2>1. \A req \in requests : req.rank \in Ranks
    BY DEF TypeOK
  <2>2. Ranks \subseteq Nat
    BY TopBounds DEF Ranks
  <2> QED BY <2>1, <2>2
<1>2. PICK k \in ranks : \A i \in ranks : k <= i
  BY <1>1, FirstOf
<1>3. PICK req \in requests : req.rank = k
  OBVIOUS
<1> QED BY <1>2, <1>3 DEF Reapable

(* A round has lists, and the reads of a stage are finitely many.          *)
Nonempty ==
  /\ IsFiniteSet(requests)
  /\ pc \in {"examine", "reap"} => actual_submit >= 1

LEMMA StartAdvances ==
  ASSUME IInv, Nonempty, StartQuery
  PROVE  Nonempty' /\ Nearer
<1>1. pc = "start" /\ pc' = "full" /\ cur_q' = cur_q
  BY DEF StartQuery, query
<1>2. IsFiniteSet(requests')
  <2>1. PICK reads \in FullReads :
          requests' = {[rank |-> r, positions |-> reads[r]] :
                         r \in {s \in 0 .. TopProbes - 1 : reads[s] # {}}}
    BY DEF StartQuery
  <2> DEFINE those == {s \in 0 .. TopProbes - 1 : reads[s] # {}}
             read == [r \in those |-> [rank |-> r, positions |-> reads[r]]]
  <2>2. IsFiniteSet(0 .. TopProbes - 1)
    BY TopBounds, FS_Interval
  <2>3. IsFiniteSet(those)
    BY <2>2, FS_Subset
  <2>4. read \in Surjection(those, requests')
    BY <2>1 DEF Surjection
  <2> HIDE DEF read, those
  <2> QED BY <2>3, <2>4, FS_Surjection
<1> QED BY <1>1, <1>2 DEF Nonempty, Nearer, Stage

LEMMA ReapAdvances ==
  ASSUME IInv, Nonempty, ReapFull \/ ReapRound
  PROVE  Nonempty' /\ Nearer
<1>1. PICK req \in requests : requests' = Unreaped(req)
  BY DEF ReapFull, ReapRound
<1>2. UNCHANGED <<cur_q, pc, working_list, examined, actual_submit>>
  BY DEF ReapFull, ReapRound, query, round
<1>3. requests' = requests \ {req}
  BY <1>1 DEF Unreaped
<1>4. IsFiniteSet(requests') /\ Cardinality(requests') = Cardinality(requests) - 1
  BY <1>3, FS_RemoveElement DEF Nonempty
<1>5. Cardinality(requests) \in Nat
  BY FS_CardinalityType DEF Nonempty
<1>6. Cardinality(requests') < Cardinality(requests)
  BY <1>4, <1>5
<1> QED BY <1>2, <1>4, <1>6 DEF Nonempty, Nearer

LEMMA ExamineAdvances ==
  ASSUME IInv, Nonempty, PruneRound \/ ExamineList \/ SubmitRound
  PROVE  Nonempty' /\ Nearer
<1>1. pc = "examine" /\ UNCHANGED <<cur_q, working_list, actual_submit>>
  BY DEF PruneRound, ExamineList, SubmitRound, query, round
<1>2. examined \in Nat /\ actual_submit \in Nat
  BY SizesAssumption DEF IInv, TypeOK
<1>3. CASE PruneRound
  <2>1. pc' = pc /\ examined' > examined /\ requests' = requests
    BY <1>2, <1>3 DEF PruneRound
  <2> QED BY <1>1, <2>1 DEF Nonempty, Nearer
<1>4. CASE ExamineList
  <2>1. pc' = pc /\ examined' > examined
    BY <1>2, <1>4 DEF ExamineList
  <2>2. \/ requests' = requests \cup {}
        \/ \E one : requests' = requests \cup {one}
    BY <1>4 DEF ExamineList, PageRequests
  <2>3. IsFiniteSet(requests')
    BY <2>2, FS_AddElement DEF Nonempty
  <2> QED BY <1>1, <2>1, <2>3 DEF Nonempty, Nearer
<1>5. CASE SubmitRound
  <2>1. pc' = "reap" /\ requests' = requests
    BY <1>5 DEF SubmitRound
  <2> QED BY <1>1, <2>1 DEF Nonempty, Nearer, Part, Stage
<1> QED BY <1>3, <1>4, <1>5

LEMMA TurnAdvances ==
  ASSUME IInv, Nonempty, EndFull \/ BeginRound \/ EndRound \/ EndQuery
  PROVE  Nonempty' /\ Nearer
<1>1. /\ working_list \in Nat /\ actual_submit \in Nat /\ cur_q \in Nat
      /\ submit_per_round \in Nat /\ submit_per_round >= 1 /\ NProbe \in Nat
  BY SizesAssumption, Numbers DEF IInv, TypeOK
<1>2. CASE EndFull
  <2>1. pc = "full" /\ pc' = "round" /\ cur_q' = cur_q /\ requests' = requests
    BY <1>2 DEF EndFull, query
  <2> QED BY <2>1 DEF Nonempty, Nearer, Stage
<1>3. CASE BeginRound
  <2>1. /\ pc = "round" /\ pc' = "examine" /\ cur_q' = cur_q /\ requests' = {}
        /\ working_list' = working_list /\ working_list < NProbe
        /\ actual_submit' = Least(submit_per_round, NProbe - working_list)
    BY <1>3 DEF BeginRound, query
  <2>2. actual_submit' >= 1
    BY <1>1, <2>1 DEF Least
  <2> QED BY <2>1, <2>2, FS_EmptySet DEF Nonempty, Nearer, Stage, Part
<1>4. CASE EndRound
  <2>1. /\ pc = "reap" /\ pc' = "round" /\ cur_q' = cur_q /\ requests' = requests
        /\ working_list' = working_list + actual_submit
    BY <1>4 DEF EndRound, query, NextWorking
  <2>2. working_list' > working_list
    BY <1>1, <2>1 DEF Nonempty
  <2> QED BY <2>1, <2>2 DEF Nonempty, Nearer, Stage
<1>5. CASE EndQuery
  <2>1. pc' = "start" /\ cur_q' = cur_q + 1 /\ requests' = requests
    BY <1>5 DEF EndQuery
  <2> QED BY <1>1, <2>1 DEF Nonempty, Nearer
<1> QED BY <1>2, <1>3, <1>4, <1>5

LEMMA NextAdvances == IInv /\ Nonempty /\ [Next]_vars => Nonempty' /\ [Nearer]_vars
<1> SUFFICES ASSUME IInv, Nonempty, [Next]_vars PROVE Nonempty' /\ (Nearer \/ UNCHANGED vars)
  OBVIOUS
<1>1. CASE Returned \/ UNCHANGED vars
  BY <1>1 DEF Returned, vars, Nonempty
<1> QED BY <1>1, StartAdvances, ReapAdvances, ExamineAdvances, TurnAdvances DEF Next

LEMMA AlwaysNonempty == Spec => []Nonempty
<1>1. Init => Nonempty
  BY FS_EmptySet DEF Init, Nonempty
<1> QED BY <1>1, NextAdvances, Invariant, PTL DEF Spec

(* search_o never loops in place: with the bounds that TypeCorrect gives,  *)
(* a slice is answered in a bounded number of steps, for any lists, round  *)
(* sizes and volumes.                                                      *)
THEOREM SearchAdvances == Spec => StepsAdvance
BY NextAdvances, AlwaysNonempty, Invariant, PTL DEF Spec, StepsAdvance

(* A stage that waits for reads has one that it may take, in the order of  *)
(* either back end.                                                        *)
THEOREM ReadsCome == Spec => []ReadsComeIn
<1>1. IInv /\ Nonempty => ReadsComeIn
  BY SomeReapable DEF IInv, Nonempty, ReadsComeIn
<1> QED BY <1>1, AlwaysNonempty, Invariant, PTL
=============================================================================
