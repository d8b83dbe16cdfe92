----------------------------- MODULE DiskLayout -----------------------------
(***************************************************************************)
(* How IndexDiskV builds the file its searches read: batches of vectors    *)
(* are added to the inverted lists in memory (ids and PQ codes) and, in    *)
(* the same order, to the lists' pages in the file.                        *)
(*                                                                         *)
(*   - the first batch writes a new file, disk_path with ".clustered"; a   *)
(*     later one renames it to .tmp, reads the old vectors of each list    *)
(*     out of it, writes the file again and removes .tmp                   *)
(*   - the batch numbered add_batch_num also sorts every list by clusters  *)
(*     of its own (in_list_clustering), permutes the lists together with   *)
(*     their centroids (reorganize_lists), turns the ids into those of one *)
(*     part of a partitioned index (use_multi_ivf), and appends ids and    *)
(*     codes of the lists to the file (select_lists)                       *)
(*                                                                         *)
(* A vector is its number in the order of addition; so are its bytes and   *)
(* its PQ code.  Distances are not modelled: a vector may be assigned to   *)
(* any lists, the vectors of a list may fall into any clusters.            *)
(***************************************************************************)
EXTENDS Integers, SequencesExt

CONSTANTS
  nlist,
  PageVectors,    (* vectors, and entries of a list, that fit on a page    *)
  IN_LIST_CLUSTER_RATIO,
  assign_replicas,
  partition_num, order,   (* 1 and 0 without use_multi_ivf                 *)
  BatchNums,      (* values of add_batch_num                               *)
  BatchSizes,     (* bound: the sizes of a batch                           *)
  MaxVectors,     (* bound: vectors in all                                 *)
  GivenIds,       (* {}: the ids are the numbers; else the xids passed     *)
  Absent          (* content of a file that does not exist                 *)

ASSUME LayoutAssumption ==
  /\ nlist \in Nat \ {0} /\ PageVectors \in Nat \ {0}
  /\ IN_LIST_CLUSTER_RATIO \in Nat \ {0} /\ assign_replicas \in Nat \ {0}
  /\ partition_num \in Nat \ {0} /\ order \in Nat
  /\ BatchNums \cup BatchSizes \subseteq Nat \ {0} /\ MaxVectors \in Nat
  /\ GivenIds \subseteq Nat

Lists == 1 .. nlist

VARIABLES
  add_batch_num, in_list_clustering, reorganize_lists,
  phase,
  n,                     (* vectors of the batch being added               *)
  ntotal, actual_batch_num,
  ids, codes,            (* ClusteredArrayInvertedLists                    *)
  len, page_start, total_page,
  old_len, old_start,    (* of the previous batch                          *)
  inv_start,             (* aligned_inv_info, <<>> before there is one     *)
  quantizer, graph,      (* the centroid each list number stands for       *)
  home, id_of,           (* history: centroids and id given to a vector    *)
  file, saved,           (* the clustered file and its renamed copy        *)
  buffers                (* all_list_buffers                               *)

options == <<add_batch_num, in_list_clustering, reorganize_lists>>
lists   == <<ids, codes>>
added   == <<n, ntotal, actual_batch_num, home, id_of>>
info    == <<len, page_start, total_page, old_len, old_start>>
vars == <<options, phase, lists, added, info, inv_start, quantizer, graph,
          file, saved, buffers>>

-----------------------------------------------------------------------------
(* What a cell of the file holds.                                          *)
Vector(v)    == [kind |-> "vector", vector |-> v]
Entry(i, c)  == [kind |-> "entry", id |-> i, vector |-> c]
Blank        == [kind |-> "padding"]
Outside      == [kind |-> "outside"]   (* read past the end of the batch   *)
Cells == [kind : {"vector"}, vector : Nat] \cup {Blank, Outside}
         \cup [kind : {"entry"}, id : Nat, vector : Nat]

ASSUME AbsentAssumption == Absent \notin Seq(Cells)

IsFirst == actual_batch_num = 1
IsLast  == actual_batch_num = add_batch_num

(* data[x * d], of the batch being added                                   *)
DataAt(x) == IF x \in 0 .. n - 1 THEN Vector(ntotal - n + x) ELSE Outside

PageCount(size) == (size + PageVectors - 1) \div PageVectors

(* Mutant: the appended lists are laid out from the start of the file.     *)
AlignedFromZero(size, first) ==
  LET start[l \in 1 .. nlist + 1] ==
        IF l = 1 THEN 0 ELSE start[l - 1] + PageCount(size[l - 1])
  IN  start

(* align_cluster_page and align_list_page: the lists, in the order of      *)
(* their numbers, from page first on, each on pages of its own.            *)
Aligned(size, first) ==
  LET start[l \in 1 .. nlist + 1] ==
        IF l = 1 THEN first ELSE start[l - 1] + PageCount(size[l - 1])
  IN  start

Padded(s) ==
  s \o [k \in 1 .. PageCount(Len(s)) * PageVectors - Len(s) |-> Blank]

(* The pages of a list, of so many cells, in a file.                       *)
CellsAt(f, page, count) ==
  [j \in 1 .. count |-> f[page * PageVectors + j]]

(* in_list_map_reassign: positions sorted by cluster, stably; the result   *)
(* gives the old position of each new one.                                 *)
SortedBy(cluster) ==
  LET before(i, j) ==
            \/ cluster[i] < cluster[j]
            \/ cluster[i] = cluster[j] /\ i <= j
      place == [i \in DOMAIN cluster |->
                  Cardinality({j \in DOMAIN cluster : before(j, i)})]
  IN  Inverse(place, DOMAIN cluster, DOMAIN cluster)

(* Mutant: the map is taken to give the new position of each old one.      *)
ReassignBackwards(s, map) ==
  [j \in DOMAIN s |-> s[Inverse(map, DOMAIN map, DOMAIN map)[j]]]

(* in_list_pq_ids_reassign, of the ids or of the codes of a list           *)
Reassign(s, map) == [j \in DOMAIN s |-> s[map[j]]]

(* The centroid orders of in_list_centroid_reassign: a walk from node 0.   *)
Orders == {map \in [Lists -> Lists] :
             map[1] = 1 /\ \A i, j \in Lists : map[i] = map[j] => i = j}

-----------------------------------------------------------------------------
Init ==
  /\ add_batch_num \in BatchNums
  /\ in_list_clustering \in BOOLEAN
  /\ reorganize_lists \in {FALSE, in_list_clustering}
  /\ phase = "idle" /\ n = 0 /\ ntotal = 0 /\ actual_batch_num = 0
  /\ ids = [l \in Lists |-> <<>>] /\ codes = ids
  /\ len = [l \in Lists |-> 0] /\ page_start = len /\ total_page = 0
  /\ old_len = len /\ old_start = len /\ inv_start = <<>>
  /\ quantizer = [l \in Lists |-> l] /\ graph = quantizer
  /\ home = <<>> /\ id_of = <<>>
  /\ file = Absent /\ saved = Absent /\ buffers = <<>>

(* The loop of add_core_o over a batch of count vectors: those of them that  *)
(* go to list l, in their order.                                           *)
Joining(l, lists_of, count) ==
  LET joined[k \in 0 .. count] ==
        IF k = 0 THEN <<>>
        ELSE IF l \in lists_of[ntotal + k - 1] THEN Append(joined[k - 1], ntotal + k - 1)
             ELSE joined[k - 1]
  IN  joined[count]

(* add_with_ids: the lists of each vector are found by the quantizer or,   *)
(* for large batches, by the centroid graph; add_core_o appends id and     *)
(* code to each of them.                                                   *)
AddWithIds ==
  /\ phase = "idle"
  /\ \E count \in BatchSizes :
     LET new == ntotal .. ntotal + count - 1
     IN  /\ ntotal + count <= MaxVectors
         /\ n' = count
         /\ \E lists_of \in [new -> {S \in SUBSET Lists :
                                       S # {} /\ Cardinality(S) <= assign_replicas}],
               xids \in IF GivenIds = {} THEN {[v \in new |-> v]}
                       ELSE {x \in [new -> GivenIds \ Range(id_of)] : IsInjective(x)},
               by \in {quantizer, graph} :
              LET in(l) == Joining(l, lists_of, count)
              IN  /\ codes' = [l \in Lists |-> codes[l] \o in(l)]
                  /\ ids' = [l \in Lists |->
                               ids[l] \o [k \in 1 .. Len(in(l)) |-> xids[in(l)[k]]]]
                  /\ home' = [v \in DOMAIN home \cup new |->
                                IF v \in new THEN {by[l] : l \in lists_of[v]} ELSE home[v]]
                  /\ id_of' = [v \in DOMAIN id_of \cup new |->
                                 IF v \in new THEN xids[v] ELSE id_of[v]]
                  /\ ntotal' = ntotal + count
  /\ actual_batch_num' = actual_batch_num + 1
  /\ phase' = "added"
  /\ UNCHANGED <<options, info, inv_start, quantizer, graph, file, saved, buffers>>

(* clusters, len and aligned_cluster_info for lists of these sizes         *)
LayOut(size) ==
  LET start == Aligned(size, 0)
  IN  /\ len' = size
      /\ page_start' = [l \in Lists |-> start[l]]
      /\ total_page' = start[nlist + 1]

(* Mutant: the file is opened for writing without being renamed.           *)
SetAsideNothing == file' = Absent /\ UNCHANGED saved

(* The file is renamed before it is opened for writing.                    *)
SetAside == saved' = file /\ file' = Absent

(* initial_location and the start of reorganize_vectors_2: the new layout, *)
(* and the old file out of the way.                                        *)
StartRewrite ==
  /\ phase = "added"
  /\ old_len' = len /\ old_start' = page_start
  /\ LayOut([l \in Lists |-> Len(ids[l])])
  /\ IF IsFirst THEN UNCHANGED <<file, saved>> ELSE SetAside
  /\ phase' = "filling" /\ buffers' = <<>>
  /\ UNCHANGED <<options, lists, added, inv_start, quantizer, graph>>

(* One round of the parallel loop: the vectors of list l, the old ones     *)
(* from the saved file, the new ones out of the batch by their ids.  In    *)
(* the last batch a list of two clusters or more is sorted by them, its    *)
(* ids and codes with it (in_list_pq_ids_reassign).  A round touches       *)
(* nothing of another list, so one order stands for all of them.           *)
FillBuffer(l) ==
  /\ phase = "filling" /\ Len(buffers) = l - 1
  /\ LET old_count == IF IsFirst THEN 0 ELSE old_len[l]
         old_total == IF IsFirst THEN 0 ELSE ntotal - n
         all == CellsAt(saved, old_start[l], old_count) \o
                [j \in 1 .. len[l] - old_count |->
                   DataAt(ids[l][old_count + j] - old_total)]
         clusters == len[l] \div IN_LIST_CLUSTER_RATIO
         Fill(map) ==
           /\ buffers' = Append(buffers, Padded([j \in 1 .. len[l] |-> all[map[j]]]))
           /\ ids' = [ids EXCEPT ![l] = Reassign(@, map)]
           /\ codes' = [codes EXCEPT ![l] = Reassign(@, map)]
     IN  IF IsLast /\ in_list_clustering /\ clusters > 1
         THEN \E cluster \in [1 .. len[l] -> 1 .. clusters] : Fill(SortedBy(cluster))
         ELSE Fill([j \in 1 .. len[l] |-> j])
  /\ UNCHANGED <<options, phase, added, info, inv_start, quantizer, graph,
                 file, saved>>

(* The lists are written one after the other; then the copy is removed.    *)
WriteLists ==
  /\ phase = "filling" /\ Len(buffers) = nlist
  /\ file' = FlattenSeq(buffers)
  /\ phase' = "written"
  /\ UNCHANGED <<options, lists, added, info, inv_start, quantizer, graph,
                 saved, buffers>>

RemoveSaved ==
  /\ phase = "written"
  /\ saved' = Absent /\ buffers' = <<>>
  /\ phase' = IF reorganize_lists /\ IsLast THEN "ordering" ELSE "finishing"
  /\ UNCHANGED <<options, lists, added, info, inv_start, quantizer, graph, file>>

(* ArrayInvertedLists::permute_invlists: list l becomes that of map[l].    *)
PermuteInvlists(map) ==
  /\ ids' = [l \in Lists |-> ids[map[l]]]
  /\ codes' = [l \in Lists |-> codes[map[l]]]

(* reorganize_list, on the path the batch began with: that of the first    *)
(* batch has no ".clustered" yet, and there is no such file to rename.     *)
OrderCentroids ==
  /\ phase = "ordering"
  /\ \E map \in Orders :
       /\ quantizer' = [l \in Lists |-> quantizer[map[l]]]
       /\ IF IsFirst
          THEN phase' = "failed" /\ UNCHANGED <<lists, info, file, saved>>
          ELSE /\ saved' = file
               /\ file' = FlattenSeq([l \in Lists |->
                    CellsAt(file, page_start[map[l]],
                            PageCount(len[map[l]]) * PageVectors)])
               /\ PermuteInvlists(map)
               /\ LayOut([l \in Lists |-> Len(ids'[l])])
               /\ phase' = "ordered"
               /\ UNCHANGED <<old_len, old_start>>
  /\ UNCHANGED <<options, added, inv_start, graph, buffers>>

(* Mutant: the graph is not built again.                                   *)
TrainNoGraph ==
  /\ phase = "ordered"
  /\ saved' = Absent /\ phase' = "finishing"
  /\ UNCHANGED <<options, lists, added, info, inv_start, quantizer, graph, file,
                 buffers>>

(* reorganize_list removes its copy, and train_graph builds the graph from *)
(* the centroids in their new order.                                       *)
TrainGraph ==
  /\ phase = "ordered"
  /\ saved' = Absent /\ graph' = quantizer /\ phase' = "finishing"
  /\ UNCHANGED <<options, lists, added, info, inv_start, quantizer, file, buffers>>

(* multi_ivf_modify_id and organize_select_list, in the last batch.        *)
FinishBatch ==
  /\ phase = "finishing"
  /\ IF IsLast
     THEN LET start == Aligned(len, total_page)
          IN  /\ ids' = [l \in Lists |->
                           [j \in DOMAIN ids[l] |-> ids[l][j] * partition_num + order]]
              /\ inv_start' = [l \in Lists |-> start[l]]
              /\ file' = file \o FlattenSeq([l \in Lists |->
                   Padded([j \in DOMAIN ids[l] |-> Entry(ids'[l][j], codes[l][j])])])
     ELSE UNCHANGED <<ids, inv_start, file>>
  /\ phase' = "idle"
  /\ UNCHANGED <<options, codes, added, info, quantizer, graph, saved, buffers>>

(* All batches are in, or initial_location has thrown.                     *)
Stopped ==
  \/ phase = "failed"
  \/ phase = "idle" /\ \A count \in BatchSizes : ntotal + count > MaxVectors

Next ==
  \/ AddWithIds \/ StartRewrite \/ (\E l \in Lists : FillBuffer(l))
  \/ WriteLists \/ RemoveSaved \/ OrderCentroids \/ TrainGraph \/ FinishBatch
  \/ Stopped /\ UNCHANGED vars

Spec == Init /\ [][Next]_vars

-----------------------------------------------------------------------------
(* Types; no list of a batch is shorter than it was before, so that the    *)
(* count of its new vectors (len - old_len, unsigned) does not wrap.       *)
TypeOK ==
  /\ phase \in {"idle", "added", "filling", "written", "ordering", "ordered",
                "finishing", "failed"}
  /\ ids \in [Lists -> Seq(Nat)] /\ codes \in [Lists -> Seq(0 .. ntotal - 1)]
  /\ \A l \in Lists : Len(ids[l]) = Len(codes[l])
  /\ phase = "filling" => \A l \in Lists : old_len[l] <= len[l]
  /\ \A l \in Lists : quantizer[l] \in Lists /\ graph[l] \in Lists

(* Between batches the file and the lists agree: at the place of the j-th  *)
(* entry of a list, which is where a search reads it, lies the vector      *)
(* whose code that entry is.                                               *)
DiskMatches ==
  phase = "idle" /\ actual_batch_num > 0 =>
    \A l \in Lists : /\ len[l] = Len(codes[l])
                     /\ CellsAt(file, page_start[l], len[l]) =
                        [j \in 1 .. len[l] |-> Vector(codes[l][j])]

(* When the batch numbered add_batch_num is in, each entry has its         *)
(* vector's id, renumbered once, in memory and in the appended lists.      *)
EntriesMatch ==
  phase = "idle" /\ actual_batch_num = add_batch_num =>
    \A l \in Lists :
      LET entries == [j \in 1 .. len[l] |->
            Entry(id_of[codes[l][j]] * partition_num + order, codes[l][j])]
      IN  /\ CellsAt(file, inv_start[l], len[l]) = entries
          /\ \A j \in 1 .. len[l] : ids[l][j] = entries[j].id

(* Quantizer, graph and lists number the centroids alike: the lists that   *)
(* hold a vector are those of the centroids it was assigned to.            *)
HomeLists ==
  phase = "idle" =>
    /\ graph = quantizer
    /\ \A l \in Lists, v \in 0 .. ntotal - 1 :
         quantizer[l] \in home[v] <=> \E j \in DOMAIN codes[l] : codes[l][j] = v

(* At no step of a rewrite, if the program stopped there, would a vector   *)
(* of an earlier batch be in neither file.                                 *)
Holds(f, v) == f # Absent /\ \E k \in DOMAIN f : f[k] = Vector(v)

DataKept ==
  \A v \in 0 .. ntotal - (IF phase \in {"added", "filling"} THEN n ELSE 0) - 1 :
     Holds(file, v) \/ Holds(saved, v)
=============================================================================
