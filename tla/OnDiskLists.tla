----------------------------- MODULE OnDiskLists -----------------------------
(***************************************************************************)
(* The storage of OnDiskInvertedLists: inverted lists inside one mmapped   *)
(* file, and the free slots between them.                                  *)
(*                                                                         *)
(* A list of capacity c at offset o is the bytes                           *)
(*      o              ..  codes[c], CodeSize bytes each                   *)
(*      o + c*CodeSize ..  ids[c], sizeof(idx_t) bytes each                *)
(* resize_locked moves a list to another slot when its new size does not   *)
(* fit, or fits too loosely.                                               *)
(*                                                                         *)
(* An operation is one step here: it holds the list's level-1 lock all     *)
(* along and changes the slots under lock_2; LockLevels is the module      *)
(* about these locks.  The file's content is the set of the items stored   *)
(* in it, with their places; the j-th entry of list l is always the same   *)
(* code and id, named by l and j.                                          *)
(***************************************************************************)
EXTENDS Integers, Sequences, SequencesExt

CONSTANTS
  NLists,      (* nlist                                                     *)
  CodeSize,    (* code_size                                                 *)
  Sizes,       (* sizes resize() is called with, and numbers of entries     *)
               (* add_entries() is called with                              *)
  MaxSize,     (* bound: entries of a list                                  *)
  MaxTotal,    (* bound: bytes of the file                                  *)
  MaxSlots,    (* bound: free slots                                         *)
  AddsToMerged (* whether lists that merge_from_multiple filled are resized *)

ASSUME NListsAssumption   == NLists \in Nat \ {0}
ASSUME CodeSizeAssumption == CodeSize \in Nat \ {0}
ASSUME SizesAssumption    == Sizes \subseteq Nat
ASSUME BoundsAssumption   == MaxSize \in Nat /\ MaxTotal \in Nat

VARIABLES
  lists,    (* List: size and capacity in entries, offset in bytes          *)
  slots,    (* the list of free slots                                       *)
  totsize,  (* bytes of the file                                            *)
  items,    (* what the file holds                                          *)
  written,  (* history: the positions of a list its users have filled       *)
  merged    (* merge_from_multiple has run                                  *)

storage == <<lists, slots, totsize, items, written, merged>>

ListNos == 0 .. NLists - 1

IdSize == 8
EntrySize == IdSize + CodeSize

INVALID_OFFSET == -1
EmptyList == [size |-> 0, capacity |-> 0, offset |-> INVALID_OFFSET]

(* while (x < least) x *= 2                                                *)
Doubled(x, least) ==
  LET loop[n \in Nat] == IF n < least THEN loop[2 * n] ELSE n IN loop[x]

Smallest(S) == CHOOSE x \in S : \A y \in S : x <= y

-----------------------------------------------------------------------------
(* The items of entry j of list no, at the place a list header gives them. *)
CodeItem(no, L, j) ==
  [val |-> <<"code", no, j>>, at |-> L.offset + (j-1) * CodeSize, len |-> CodeSize]

IdItem(no, L, j) ==
  [val |-> <<"id", no, j>>, at |-> L.offset + L.capacity * CodeSize + (j-1) * IdSize,
   len |-> IdSize]

Overlap(a, m, b, n) == a < b + n /\ b < a + m

(* memcpy to the file: what it overlaps is gone.                           *)
Memcpy(file, new) ==
  new \cup {c \in file : \A d \in new : ~Overlap(c.at, c.len, d.at, d.len)}

(* Bytes outside the lists are never read: they are forgotten.             *)
Live(file, ls) ==
  {c \in file : \E no \in DOMAIN ls :
                  Overlap(c.at, c.len, ls[no].offset, ls[no].capacity * EntrySize)}

-----------------------------------------------------------------------------
(* Mutant: released ranges go to the back of the list.                     *)
SlotAfterAll(q, o) == Len(q) + 1

(* free_slot's scan: the first slot after offset o.                        *)
SlotAfter(q, o) == Smallest({k \in 1 .. Len(q) : q[k].offset > o} \cup {Len(q) + 1})

JoinNext(q, i, o, c) == i <= Len(q) /\ o + c = q[i].offset

JoinPrev(q, i, o) == i > 1 /\ q[i-1].offset + q[i-1].capacity = o

(* free_slot                                                               *)
FreeSlot(q, o, c) ==
  LET i == SlotAfter(q, o)
      slot(offset, capacity) == [offset |-> offset, capacity |-> capacity]
  IN  IF c = 0 THEN q
      ELSE CASE JoinPrev(q, i, o) /\ JoinNext(q, i, o, c) ->
                  RemoveAt(ReplaceAt(q, i-1, slot(q[i-1].offset,
                                                  q[i-1].capacity + c + q[i].capacity)), i)
             [] JoinPrev(q, i, o) /\ ~JoinNext(q, i, o, c) ->
                  ReplaceAt(q, i-1, slot(q[i-1].offset, q[i-1].capacity + c))
             [] ~JoinPrev(q, i, o) /\ JoinNext(q, i, o, c) ->
                  ReplaceAt(q, i, slot(q[i].offset - c, q[i].capacity + c))
             [] OTHER -> InsertAt(q, i, slot(o, c))

(* update_totsize: the new bytes extend the last slot or are a new one.    *)
Enlarged(q, tot, new) ==
  IF q # << >> /\ Last(q).offset + Last(q).capacity = tot
  THEN ReplaceAt(q, Len(q), [Last(q) EXCEPT !.capacity = @ + new - tot])
  ELSE Append(q, [offset |-> tot, capacity |-> new - tot])

Fitting(q, c) == {k \in 1 .. Len(q) : q[k].capacity >= c}

(* The size allocate_slot grows the file to.                               *)
NewTotsize(tot, c) ==
  Doubled(IF tot = 0 THEN 32 ELSE tot * 2, tot + c)

(* Mutant: the rest of the slot keeps the old offset.                      *)
TakeFromEnd(q, i, c) ==
  IF q[i].capacity = c THEN RemoveAt(q, i)
  ELSE ReplaceAt(q, i, [q[i] EXCEPT !.capacity = @ - c])

(* Take c bytes from the beginning of slot i.                              *)
Take(q, i, c) ==
  IF q[i].capacity = c THEN RemoveAt(q, i)
  ELSE ReplaceAt(q, i, [offset |-> q[i].offset + c, capacity |-> q[i].capacity - c])

(* allocate_slot: first fit, after growing the file if nothing fits.       *)
AllocateSlot(q, tot, c) ==
  LET tot2 == IF Fitting(q, c) = {} THEN NewTotsize(tot, c) ELSE tot
      q2   == IF Fitting(q, c) = {} THEN Enlarged(q, tot, tot2) ELSE q
      i    == Smallest(Fitting(q2, c))
  IN  [offset |-> q2[i].offset, slots |-> Take(q2, i, c), totsize |-> tot2]

-----------------------------------------------------------------------------
(* Mutant: off by one.                                                     *)
FitsOneMore(L, n) == n <= L.capacity + 1 /\ n > L.capacity \div 2

(* resize_locked keeps the slot when the new size fits, not too loosely.   *)
Fits(L, n) == n <= L.capacity /\ n > L.capacity \div 2

(* The power of two the capacity is rounded up to.                         *)
CapacityFor(n) == Doubled(1, n)

(* memcpy of m bytes from a to b.  Nothing is known of what it leaves at b *)
(* when the two places overlap: that is undefined.                         *)
CopiedWithin(file, a, b, m, new) ==
  {c \in file : ~Overlap(c.at, c.len, b, m)} \cup (IF Overlap(a, m, b, m) THEN {} ELSE new)

(* The copy to the new place: codes, then ids, of the entries both sizes   *)
(* have.  Nothing is copied when the list gets the slot it had.            *)
Copied(file, no, L, newL) ==
  LET n      == Smallest({L.size, newL.size})
      ids(K) == K.offset + K.capacity * CodeSize
      file2  == CopiedWithin(file, L.offset, newL.offset, n * CodeSize,
                  {CodeItem(no, newL, j) : j \in {j \in 1 .. n : CodeItem(no, L, j) \in file}})
  IN  IF L.offset = newL.offset \/ n = 0 THEN file
      ELSE CopiedWithin(file2, ids(L), ids(newL), n * IdSize,
             {IdItem(no, newL, j) : j \in {j \in 1 .. n : IdItem(no, L, j) \in file2}})

(* resize_locked.  The old slot is released first, and free_slot is given  *)
(* its capacity in entries.                                                *)
Resized(no, n) ==
  LET L     == lists[no]
      freed == FreeSlot(slots, L.offset, L.capacity)
      a     == AllocateSlot(freed, totsize, CapacityFor(n) * EntrySize)
      newL  == [size |-> n, capacity |-> CapacityFor(n), offset |-> a.offset]
      state(L2, q, tot, file) ==
        [lists |-> [lists EXCEPT ![no] = L2], slots |-> q, totsize |-> tot, items |-> file]
  IN  CASE Fits(L, n)            -> state([L EXCEPT !.size = n], slots, totsize, items)
        [] ~Fits(L, n) /\ n = 0  -> state(EmptyList, freed, totsize, items)
        [] OTHER                 -> state(newL, a.slots, a.totsize, Copied(items, no, L, newL))

(* update_entries writes the ids, then the codes, of positions J.          *)
Updated(file, no, L, J) ==
  Memcpy(Memcpy(file, {IdItem(no, L, j) : j \in J}), {CodeItem(no, L, j) : j \in J})

InBounds(r) == r.totsize <= MaxTotal /\ Len(r.slots) <= MaxSlots

MayResize == merged => AddsToMerged

-----------------------------------------------------------------------------
StorageInit ==
  /\ lists = [no \in ListNos |-> EmptyList]
  /\ slots = << >> /\ totsize = 0 /\ items = {}
  /\ written = [no \in ListNos |-> {}]
  /\ merged = FALSE

AddEntries(no, n) ==
  LET o == lists[no].size
      r == Resized(no, o + n)
  IN  /\ MayResize
      /\ o + n <= MaxSize /\ InBounds(r)
      /\ lists' = r.lists /\ slots' = r.slots /\ totsize' = r.totsize
      /\ items' = Live(Updated(r.items, no, r.lists[no], o+1 .. o+n), r.lists)
      /\ written' = [written EXCEPT ![no] = @ \cup (o+1 .. o+n)]
      /\ UNCHANGED merged

Resize(no, n) ==
  LET r == Resized(no, n)
  IN  /\ MayResize
      /\ n <= MaxSize /\ InBounds(r)
      /\ lists' = r.lists /\ slots' = r.slots /\ totsize' = r.totsize
      /\ items' = Live(r.items, r.lists)
      /\ written' = [written EXCEPT ![no] = @ \cap (1 .. n)]
      /\ UNCHANGED merged

(* update_entries of n entries from position o on                          *)
UpdateEntries(no, o, n) ==
  /\ n > 0 /\ o + n <= lists[no].size
  /\ items' = Updated(items, no, lists[no], o+1 .. o+n)
  /\ written' = [written EXCEPT ![no] = @ \cup (o+1 .. o+n)]
  /\ UNCHANGED <<lists, slots, totsize, merged>>

(* merge_from_multiple: lists of the given sizes, one after the other.     *)
MergeFromMultiple(sizes) ==
  LET offset[no \in 0 .. NLists] ==
        IF no = 0 THEN 0 ELSE offset[no-1] + sizes[no-1] * EntrySize
      file[no \in 0 .. NLists] ==
        IF no = 0 THEN items
        ELSE Updated(file[no-1], no-1, lists'[no-1], 1 .. sizes[no-1])
  IN  /\ totsize = 0 /\ \A no \in ListNos : sizes[no] <= MaxSize
      /\ offset[NLists] \in 1 .. MaxTotal
      /\ lists' = [no \in ListNos |->
                     [size |-> sizes[no], capacity |-> sizes[no], offset |-> offset[no]]]
      /\ totsize' = offset[NLists]
      /\ slots' = Enlarged(slots, totsize, offset[NLists])
      /\ items' = file[NLists]
      /\ written' = [no \in ListNos |-> 1 .. sizes[no]]
      /\ merged' = TRUE

StorageNext ==
  \/ \E no \in ListNos : \E n \in Sizes : AddEntries(no, n) \/ Resize(no, n)
  \/ \E no \in ListNos : \E o, n \in Sizes : UpdateEntries(no, o, n)
  \/ \E sizes \in [ListNos -> Sizes] : MergeFromMultiple(sizes)

StorageSpec == StorageInit /\ [][StorageNext]_storage

-----------------------------------------------------------------------------
StorageTypeOK ==
  /\ \A no \in ListNos :
       /\ lists[no].size \in 0 .. MaxSize
       /\ lists[no].capacity \in Nat /\ lists[no].size <= lists[no].capacity
       /\ lists[no].offset \in Nat \cup {INVALID_OFFSET}
       /\ written[no] \subseteq 1 .. lists[no].size
  /\ \A i \in DOMAIN slots : slots[i].offset \in Nat /\ slots[i].capacity \in Nat \ {0}
  /\ totsize \in 0 .. MaxTotal
  /\ merged \in BOOLEAN

Bytes(no) == lists[no].capacity * EntrySize

(***************************************************************************)
(* The slots are "whatever space remains": a free slot has no byte of a    *)
(* list.  It is what free_slot asserts of the range it is given, and what  *)
(* merge_from_multiple, "without allocating slots", leaves behind.         *)
(***************************************************************************)
SlotsFree ==
  \A no \in ListNos : \A i \in DOMAIN slots :
    ~Overlap(lists[no].offset, Bytes(no), slots[i].offset, slots[i].capacity)

(***************************************************************************)
(* No byte belongs to two lists, nor, as long as the lists were not filled *)
(* by merge_from_multiple, to a list and a free slot; and nothing lies     *)
(* beyond the end of the file.                                             *)
(***************************************************************************)
Apart ==
  /\ \A no, mo \in ListNos :
       no # mo => ~Overlap(lists[no].offset, Bytes(no), lists[mo].offset, Bytes(mo))
  /\ \A no \in ListNos : lists[no].offset + Bytes(no) <= totsize
  /\ \A i \in DOMAIN slots : slots[i].offset + slots[i].capacity <= totsize
  /\ ~merged => SlotsFree

(***************************************************************************)
(* The free slots are in the order of their offsets and no two touch: the  *)
(* first-fit search sees every free range at its full length.  free_slot   *)
(* keeps this order and needs it; OnDiskInvertedLists.h:46 says that the   *)
(* list is "sorted by size", which it is not.  (That free_slot is given    *)
(* entries for bytes does not break the order: it leaves gaps, so that     *)
(* slots never come to touch.)                                             *)
(***************************************************************************)
Coalesced ==
  \A i \in 1 .. Len(slots) - 1 :
    slots[i].offset + slots[i].capacity < slots[i+1].offset

(***************************************************************************)
(* Whatever is resized, grown, shrunk or moved, a list gives back the      *)
(* codes that were put into it: no other list's bytes are written, and     *)
(* resize_locked, which releases the old place before it looks for a new   *)
(* one, never copies between places that overlap.                          *)
(***************************************************************************)
CodesKept ==
  \A no \in ListNos : \A j \in written[no] : CodeItem(no, lists[no], j) \in items

(***************************************************************************)
(* The same for the ids: resize_locked is to "copy common data".           *)
(***************************************************************************)
IdsKept ==
  \A no \in ListNos : \A j \in written[no] : IdItem(no, lists[no], j) \in items
=============================================================================
