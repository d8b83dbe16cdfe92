---------------------------- MODULE PageRequests ----------------------------
(***************************************************************************)
(* The reads that search_o issues for one inverted list, and what it does  *)
(* with them: which pages it asks for, which vectors it ranks out of the   *)
(* buffer, and where in the buffer it looks for each of them.              *)
(*                                                                         *)
(* A list is stored from a page boundary on, list_size vectors of d        *)
(* elements one after the other, per_page_element elements to a page, so   *)
(* that vectors lie across page boundaries whenever d does not divide      *)
(* per_page_element.  All positions are counted in elements from the first *)
(* page of the list.                                                       *)
(*                                                                         *)
(*   "partial"  a round: the pages of the wanted vectors are merged into   *)
(*              segments (merge_pages_transpage), one request per segment  *)
(*   "full"     the full stage: one request that is meant to span the      *)
(*              wanted vectors (optimizeDiskRead)                          *)
(*                                                                         *)
(* Which vectors are wanted is decided by distances, here by any set; so   *)
(* is which vectors of the full stage's buffer beat the heap's worst.      *)
(***************************************************************************)
EXTENDS Integers

CONSTANTS
  PageElements,   (* values of per_page_element                            *)
  Dims,           (* values of d                                           *)
  ListSizes,      (* values of list_size                                   *)
  PageGaps        (* values of max_continous_pages                         *)

ASSUME GeometryAssumption ==
  PageElements \cup Dims \cup ListSizes \cup PageGaps \subseteq Nat \ {0}

VARIABLES
  stage, metric,
  per_page_element, d, list_size, max_pages,
  wanted,         (* vector_to_submit: positions whose estimate passes     *)
  phase,          (* "chosen", "merging" or "reading"                      *)
  todo,           (* wanted positions merge_pages_transpage has not seen   *)
  record_begin_page, current_page, page_count,
  in_buffer,      (* [id, offset]: wanted positions of the segment being   *)
                  (* built and where they will be in its buffer            *)
  pending,        (* requests whose buffer has not been ranked             *)
  ranked,         (* [at, from, by]: position, the element it was read at, *)
                  (* the first page of the request                         *)
  inserted,       (* the same for insertions into the vector caches        *)
  id_dis_map      (* positions of the vectors that have an entry in it      *)

geometry == <<stage, metric, per_page_element, d, list_size, max_pages, wanted>>
merge    == <<todo, record_begin_page, current_page, page_count, in_buffer>>
results  == <<ranked, inserted, id_dis_map>>
vars     == <<geometry, phase, merge, pending, results>>

-----------------------------------------------------------------------------
(* process_page_transpage *)
FirstPage(v) == (v * d) \div per_page_element
LastPage(v)  == (v * d + d - 1) \div per_page_element

(* page_count of a list in align_cluster_page *)
ListPages == (list_size * d + per_page_element - 1) \div per_page_element

(* Mutant: how far into a vector the page begins.                          *)
SkipBegun(page) == (page * per_page_element) % d

(* iobuffer_offset: what is left, at the start of a page, of a vector that *)
(* began before it.                                                        *)
Skip(page) == (d - ((page * per_page_element) % d)) % d

(* begin_idx: the first vector that begins at or after the page.           *)
FirstWhole(page) == (page * per_page_element + d - 1) \div d

(* Mutant: the end of the list is not looked at.                           *)
SegmentRequestUncut(page, pages, wants) ==
  [start |-> page, pages |-> pages, skip |-> Skip(page), first |-> FirstWhole(page),
   vectors |-> (pages * per_page_element - Skip(page)) \div d, wants |-> wants]

(* The request of a segment: as many vectors as lie whole in its pages,    *)
(* cut at the end of the list.                                             *)
SegmentRequest(page, pages, wants) ==
  LET total == (pages * per_page_element - Skip(page)) \div d
      first == FirstWhole(page)
  IN  [start |-> page, pages |-> pages, skip |-> Skip(page), first |-> first,
       vectors |-> IF first + total > list_size THEN list_size - first ELSE total,
       wants |-> wants]

IsLeast(v, S) == v \in S /\ \A w \in S : v <= w
InBufferIds == {x.id : x \in in_buffer}

IsLast(v, S)  == v \in S /\ \A w \in S : w <= v

(* optimizeDiskRead for the first and the last wanted position: end_page   *)
(* is the page on which the last one begins.                               *)
SpanRequest(min, max) ==
  LET start == FirstPage(min)
      end   == FirstPage(max)
      bytes == IF (end + 1) * per_page_element <= list_size * d
               THEN (end + 1) * per_page_element ELSE list_size * d
  IN  [start |-> start, pages |-> end - start + 1, skip |-> Skip(start),
       first |-> FirstWhole(start), vectors |-> (bytes \div d) - FirstWhole(start),
       wants |-> {}]

-----------------------------------------------------------------------------
Init ==
  /\ stage \in {"full", "partial"} /\ metric \in {"L2", "IP"}
  /\ per_page_element \in PageElements /\ d \in Dims
  /\ list_size \in ListSizes /\ max_pages \in PageGaps
  /\ wanted \in (SUBSET (0 .. list_size - 1)) \ {{}}
  /\ phase = "chosen"
  /\ todo = wanted /\ in_buffer = {}
  /\ record_begin_page = 0 /\ current_page = 0 /\ page_count = 0
  /\ pending = {} /\ ranked = {} /\ inserted = {} /\ id_dis_map = {}

(* The full stage asks once, from the first to the last wanted position.   *)
RequestFull ==
  /\ phase = "chosen" /\ stage = "full"
  /\ \E min, max \in wanted :
       /\ IsLeast(min, wanted) /\ IsLast(max, wanted)
       /\ pending' = {SpanRequest(min, max)}
  /\ phase' = "reading"
  /\ UNCHANGED <<geometry, merge, results>>

(* merge_pages_transpage: the first segment starts at the first wanted     *)
(* vector's page.                                                          *)
StartMerge ==
  /\ phase = "chosen" /\ stage = "partial"
  /\ \E v \in todo :
       /\ IsLeast(v, todo)
       /\ record_begin_page' = FirstPage(v)
       /\ current_page' = FirstPage(v)
  /\ page_count' = 1
  /\ phase' = "merging"
  /\ UNCHANGED <<geometry, todo, in_buffer, pending, results>>

(* Mutant: the first page of the vector is counted again.                  *)
JoinSegmentAgain ==
  /\ phase = "merging"
  /\ \E v \in todo :
       /\ IsLeast(v, todo) /\ FirstPage(v) = current_page
       /\ todo' = todo \ {v}
       /\ in_buffer' = in_buffer \cup
            {[id |-> v, offset |-> v * d - per_page_element * record_begin_page]}
       /\ page_count' = page_count + (LastPage(v) - FirstPage(v)) + 1
       /\ current_page' = LastPage(v)
  /\ UNCHANGED <<geometry, phase, record_begin_page, pending, results>>

(* The next wanted vector begins on the segment's last page: it joins the  *)
(* segment with the pages it reaches into.                                 *)
JoinSegment ==
  /\ phase = "merging"
  /\ \E v \in todo :
       /\ IsLeast(v, todo) /\ FirstPage(v) = current_page
       /\ todo' = todo \ {v}
       /\ in_buffer' = in_buffer \cup
            {[id |-> v, offset |-> v * d - per_page_element * record_begin_page]}
       /\ page_count' = page_count + (LastPage(v) - FirstPage(v))
       /\ current_page' = LastPage(v)
  /\ UNCHANGED <<geometry, phase, record_begin_page, pending, results>>

(* Mutant: the pages between are not counted.                              *)
BridgeGapOnly ==
  /\ phase = "merging"
  /\ \E v \in todo, u \in InBufferIds :
       /\ IsLeast(v, todo) /\ FirstPage(v) # current_page
       /\ IsLast(u, InBufferIds)
       /\ FirstPage(v) - current_page < max_pages
       /\ page_count' = page_count + 1
       /\ current_page' = FirstPage(v)
  /\ UNCHANGED <<geometry, phase, todo, record_begin_page, in_buffer,
                 pending, results>>

(* It begins a few pages further: the pages between are read as well.      *)
BridgeGap ==
  /\ phase = "merging"
  /\ \E v \in todo, u \in InBufferIds :
       /\ IsLeast(v, todo) /\ FirstPage(v) # current_page
       /\ IsLast(u, InBufferIds)
       /\ FirstPage(v) - current_page < max_pages
       /\ page_count' = page_count + (FirstPage(v) - LastPage(u))
       /\ current_page' = FirstPage(v)
  /\ UNCHANGED <<geometry, phase, todo, record_begin_page, in_buffer,
                 pending, results>>

(* It begins too far away: the segment is closed and a new one opened.     *)
CutSegment ==
  /\ phase = "merging"
  /\ \E v \in todo :
       /\ IsLeast(v, todo) /\ FirstPage(v) # current_page
       /\ FirstPage(v) - current_page >= max_pages
       /\ record_begin_page' = FirstPage(v)
       /\ current_page' = FirstPage(v)
  /\ pending' = pending \cup
       {SegmentRequest(record_begin_page, page_count, in_buffer)}
  /\ page_count' = 1 /\ in_buffer' = {}
  /\ UNCHANGED <<geometry, phase, todo, results>>

(* No wanted vector is left: the last segment is closed and all is         *)
(* submitted.                                                              *)
SubmitRequests ==
  /\ phase = "merging" /\ todo = {}
  /\ pending' = pending \cup
       {SegmentRequest(record_begin_page, page_count, in_buffer)}
  /\ phase' = "reading"
  /\ UNCHANGED <<geometry, merge, results>>

(* Where cal_callback looks for the m-th vector of a request.  With the    *)
(* inner product the full stage counts from the start of the list instead  *)
(* of from begin_idx.                                                      *)
ElementOf(r, m) ==
  IF stage = "full" /\ metric = "IP"
  THEN r.start * per_page_element + (r.first + m) * d
  ELSE r.start * per_page_element + r.skip + m * d

(* The vectors of a request at indices ms, each with where it is read.     *)
Places(r, ms) ==
  {[at |-> r.first + m, from |-> ElementOf(r, m), by |-> r.start] : m \in ms}

Indices(r)   == 0 .. r.vectors - 1
Positions(r) == {r.first + m : m \in Indices(r)}

(* cal_callback of the full stage.  Every vector of the request is compared *)
(* with the worst of the heap at that moment; only those whose estimate    *)
(* passes are ranked, but the others get an entry in id_dis_map as well.   *)
RankFull(r, passing) ==
  /\ phase = "reading" /\ stage = "full" /\ r \in pending
  /\ pending' = pending \ {r}
  /\ ranked' = ranked \cup Places(r, passing)
  /\ id_dis_map' = id_dis_map \cup Positions(r)
  /\ UNCHANGED <<geometry, phase, merge, inserted>>

(* cal_callback of a round, in the order of the completions: every vector  *)
(* of the request is ranked (BLOCK_BEAM_SEARCH), wanted or not; the wanted *)
(* ones are also inserted into the caches, from in_buffer_offsets.         *)
RankPartial(r) ==
  /\ phase = "reading" /\ stage = "partial" /\ r \in pending
  /\ pending' = pending \ {r}
  /\ ranked' = ranked \cup Places(r, Indices(r))
  /\ id_dis_map' = id_dis_map \cup Positions(r)
  /\ inserted' = inserted \cup
       {[at |-> x.id, by |-> r.start,
         from |-> r.start * per_page_element + x.offset] : x \in r.wants}
  /\ UNCHANGED <<geometry, phase, merge>>

Ranked == phase = "reading" /\ pending = {}

Next ==
  \/ RequestFull \/ StartMerge \/ JoinSegment \/ BridgeGap \/ CutSegment
  \/ SubmitRequests
  \/ \E r \in pending :
       \/ \E passing \in SUBSET Indices(r) : RankFull(r, passing)
       \/ RankPartial(r)
  \/ Ranked /\ UNCHANGED vars

Spec == Init /\ [][Next]_vars

-----------------------------------------------------------------------------
(* Types: every counter stays a natural number, so no unsigned subtraction *)
(* of the request arithmetic (list_size - begin_idx above all) wraps.      *)
Request == [start : Nat, pages : Nat, skip : Nat, first : Nat, vectors : Nat,
            wants : SUBSET [id : Nat, offset : Nat]]

TypeOK ==
  /\ phase \in {"chosen", "merging", "reading"}
  /\ wanted \subseteq 0 .. list_size - 1 /\ todo \subseteq wanted
  /\ record_begin_page \in Nat /\ current_page \in Nat /\ page_count \in Nat
  /\ in_buffer \subseteq [id : wanted, offset : Nat]
  /\ \A r \in pending : r \in Request
  /\ ranked \cup inserted \subseteq [at : 0 .. list_size - 1, from : Nat, by : Nat]
  /\ id_dis_map \subseteq 0 .. list_size - 1

(* Exempt below: the full stage with the inner product, which counts from  *)
(* the start of the list (DV 2732) and so reads other elements, and past   *)
(* the pages it has read, unless the request starts on the first page.     *)
FromRightBuffer == stage = "partial" \/ metric = "L2"

(* In the rounds, and in the full stage with L2, a vector is ranked from   *)
(* its own bytes, and whatever is copied into a cache is copied from its   *)
(* own bytes: the page, the offset in the buffer and the index in the list *)
(* agree however vectors and pages are aligned.  The source marks the loop *)
(* that copies (DV 3246) "BUG: this appears to misbehave"; the positions   *)
(* it copies from are right.                                               *)
OwnBytes ==
  /\ FromRightBuffer => \A x \in ranked : x.from = x.at * d
  /\ \A x \in inserted : x.from = x.at * d

(* The d elements from e on lie in the pages request r reads.              *)
InPages(r, e) ==
  /\ r.start * per_page_element <= e
  /\ e + d <= (r.start + r.pages) * per_page_element

(* A request stays within the pages of its list and covers vectors of the  *)
(* list only, the unsigned list_size - begin_idx does not wrap, and every  *)
(* vector inserted out of its buffer, and in the rounds and with L2 every  *)
(* vector ranked, is read inside the pages that were read.                 *)
ReadsInside ==
  \A r \in pending :
     /\ r.pages > 0 /\ r.start + r.pages <= ListPages
     /\ r.vectors >= 0 /\ r.first + r.vectors <= list_size
     /\ FromRightBuffer => \A m \in Indices(r) : InPages(r, ElementOf(r, m))
     /\ \A x \in r.wants : InPages(r, r.start * per_page_element + x.offset)

(* No vector is ranked twice: the segments of a list share no vector, also *)
(* where one ends on the page before another begins.                       *)
RankedOnce == \A x, y \in ranked : x.at = y.at => x = y

(* When all buffers have been gone through, no wanted vector was missed:   *)
(* in a round each is ranked; in the full stage each was compared with the *)
(* heap and has its entry in id_dis_map, but for the last one if it        *)
(* reaches into another page.                                              *)
AllConsidered ==
  Ranked =>
    \A v \in wanted :
      \/ v \in id_dis_map /\ (stage = "partial" => \E x \in ranked : x.at = v)
      \/ stage = "full" /\ IsLast(v, wanted) /\ LastPage(v) > FirstPage(v)

(* The reduction of the full stage's read is called lossless.              *)
FullLossless == Ranked /\ stage = "full" => wanted \subseteq id_dis_map
=============================================================================
