-------------------------- MODULE DiskLayoutProofs --------------------------
(***************************************************************************)
(* Proofs about DiskLayout, for any number of lists, replicas, batches,    *)
(* vectors, any page size and any order of vectors and centroids: what the *)
(* file holds where, and how ids, codes and centroids go together.         *)
(*                                                                         *)
(* The model computes places, blocks and joined lists by recursion.  The   *)
(* first lemmas are about that: induction and recursion over an interval   *)
(* of the natural numbers, and what Aligned, FlattenSeq, Joining and       *)
(* SortedBy return.                                                        *)
(***************************************************************************)
EXTENDS DiskLayout, FiniteSetTheorems, SequenceTheorems, WellFoundedInduction, TLAPS

-----------------------------------------------------------------------------
(* Induction and recursion over an interval, from the well-foundedness of  *)
(* the natural numbers.                                                    *)

LEMMA Least ==
  ASSUME NEW S \in SUBSET Nat, NEW m \in S
  PROVE  \E k \in S : \A i \in S : k <= i
<1>1. ASSUME NEW i \in Nat, NEW k \in Nat, i < k PROVE <<i, k>> \in OpToRel(<, Nat)
  BY <1>1 DEF OpToRel
<1>2. PICK k \in S : \A i \in S : ~(<<i, k>> \in OpToRel(<, Nat))
  BY NatLessThanWellFounded, WFMin
<1>3. ASSUME NEW i \in S PROVE k <= i
  <2>1. ~(i < k)
    BY <1>1, <1>2
  <2> QED BY <2>1
<1> QED BY <1>3

LEMMA UpTo ==
  ASSUME NEW a \in Nat, NEW b \in Nat, NEW S, a \in S,
         \A k \in a .. b - 1 : k \in S => k + 1 \in S
  PROVE  \A k \in a .. b : k \in S
<1> SUFFICES ASSUME NEW k \in a .. b, k \notin S PROVE FALSE
  OBVIOUS
<1> DEFINE C == {i \in a .. b : i \notin S}
<1>1. C \in SUBSET Nat /\ k \in C
  OBVIOUS
<1>2. PICK i \in C : \A j \in C : i <= j
  BY <1>1, Least
<1>3. i # a /\ i \in Nat /\ i <= b /\ a <= i
  BY <1>1, <1>2
<1>4. i - 1 \in a .. b - 1 /\ i - 1 \in S
  BY <1>2, <1>3
<1> QED BY <1>2, <1>3, <1>4

(* A function defined at each place from its value at the place before.    *)
Recurrent(g, a, b, base, step) ==
  g = [k \in a .. b |-> IF k = a THEN base ELSE step[k][g[k - 1]]]

LEMMA Recursion ==
  ASSUME NEW a \in Nat, NEW b \in Nat, a <= b, NEW X, NEW base \in X,
         NEW step \in [a + 1 .. b -> [X -> X]]
  PROVE  \E g \in [a .. b -> X] : Recurrent(g, a, b, base, step)
<1> DEFINE Upto(m) == \E g \in [a .. m -> X] : Recurrent(g, a, m, base, step)
           S == {m \in a .. b : Upto(m)}
<1>1. Upto(a)
  <2> DEFINE g == [k \in a .. a |-> base]
  <2>1. g \in [a .. a -> X] /\ Recurrent(g, a, a, base, step)
    BY DEF Recurrent
  <2> QED BY <2>1
<1>2. ASSUME NEW m \in a .. b - 1, Upto(m) PROVE Upto(m + 1)
  <2>1. PICK g \in [a .. m -> X] : Recurrent(g, a, m, base, step)
    BY <1>2
  <2> DEFINE h == [k \in a .. m + 1 |-> IF k = m + 1 THEN step[m + 1][g[m]] ELSE g[k]]
  <2>2. m \in Nat /\ m + 1 \in a + 1 .. b /\ m \in a .. m
    OBVIOUS
  <2>3. step[m + 1] \in [X -> X] /\ g[m] \in X
    BY <2>1, <2>2
  <2>4. h \in [a .. m + 1 -> X]
    BY <2>1, <2>2, <2>3
  <2>5. ASSUME NEW k \in a .. m + 1
        PROVE  h[k] = IF k = a THEN base ELSE step[k][h[k - 1]]
    <3>1. CASE k = m + 1
      BY <2>2, <3>1
    <3>2. CASE k \in a .. m
      <4>1. g[k] = IF k = a THEN base ELSE step[k][g[k - 1]]
        BY <2>1, <3>2 DEF Recurrent
      <4>2. h[k] = g[k] /\ (k # a => k - 1 \in a .. m /\ h[k - 1] = g[k - 1])
        BY <2>2, <3>2
      <4> QED BY <4>1, <4>2
    <3> QED BY <2>2, <3>1, <3>2
  <2> HIDE DEF h
  <2>6. Recurrent(h, a, m + 1, base, step)
    BY <2>4, <2>5 DEF Recurrent
  <2> QED BY <2>4, <2>6
<1> HIDE DEF Upto
<1>3. \A k \in a .. b : k \in S
  <2>1. a \in S
    BY <1>1
  <2>2. \A k \in a .. b - 1 : k \in S => k + 1 \in S
    BY <1>2
  <2> HIDE DEF S
  <2> QED BY <2>1, <2>2, UpTo
<1>4. b \in S
  BY <1>3
<1>5. Upto(b)
  BY <1>4
<1> QED BY <1>5 DEF Upto

-----------------------------------------------------------------------------
(* Pages: the pages of so many entries hold them.                          *)

LEMMA PageCountHolds ==
  ASSUME NEW k \in Nat
  PROVE  /\ PageCount(k) \in Nat
         /\ k <= PageCount(k) * PageVectors
         /\ PageCount(k) * PageVectors \in Nat
<1> DEFINE q == (k + PageVectors - 1) \div PageVectors
<1>1. PageVectors \in Nat /\ PageVectors >= 1
  BY LayoutAssumption
<1>2. q \in Nat /\ k + PageVectors - 1 = PageVectors * q + ((k + PageVectors - 1) % PageVectors)
  BY <1>1
<1>3. (k + PageVectors - 1) % PageVectors <= PageVectors - 1
  BY <1>1
<1>4. PageVectors * q = q * PageVectors /\ q * PageVectors \in Nat
  BY <1>1, <1>2
<1> QED BY <1>1, <1>2, <1>3, <1>4 DEF PageCount

LEMMA AlignedProps ==
  ASSUME NEW size \in [Lists -> Nat], NEW first \in Nat
  PROVE  /\ Aligned(size, first) \in [1 .. nlist + 1 -> Nat]
         /\ Aligned(size, first)[1] = first
         /\ \A l \in Lists :
              Aligned(size, first)[l + 1] = Aligned(size, first)[l] + PageCount(size[l])
<1> DEFINE a == Aligned(size, first)
           step == [l \in 2 .. nlist + 1 |-> [x \in Nat |-> x + PageCount(size[l - 1])]]
           Rule(s) == s = [l \in 1 .. nlist + 1 |->
                             IF l = 1 THEN first ELSE s[l - 1] + PageCount(size[l - 1])]
<1>1. nlist \in Nat /\ nlist >= 1 /\ Lists = 1 .. nlist
  BY LayoutAssumption DEF Lists
<1>0. 1 \in Nat /\ nlist + 1 \in Nat /\ 1 <= nlist + 1
  BY <1>1
<1>2. \A l \in 2 .. nlist + 1 : l - 1 \in Lists /\ PageCount(size[l - 1]) \in Nat
  <2>1. \A l \in Lists : PageCount(size[l]) \in Nat
    BY PageCountHolds
  <2>2. \A l \in 2 .. nlist + 1 : l - 1 \in Lists
    BY <1>1
  <2> QED BY <2>1, <2>2
<1>3. step \in [1 + 1 .. nlist + 1 -> [Nat -> Nat]]
  BY <1>2
<1> HIDE DEF step
<1>4. PICK g \in [1 .. nlist + 1 -> Nat] : Recurrent(g, 1, nlist + 1, first, step)
  BY <1>0, <1>3, Recursion, Zenon
<1>5. ASSUME NEW l \in 1 .. nlist + 1
      PROVE  g[l] = IF l = 1 THEN first ELSE g[l - 1] + PageCount(size[l - 1])
  <2>1. g[l] = IF l = 1 THEN first ELSE step[l][g[l - 1]]
    BY <1>4 DEF Recurrent
  <2>2. l # 1 => l \in 2 .. nlist + 1 /\ g[l - 1] \in Nat
    BY <1>1, <1>4
  <2>3. l # 1 => step[l][g[l - 1]] = g[l - 1] + PageCount(size[l - 1])
    BY <2>2 DEF step
  <2> QED BY <2>1, <2>3
<1>6. Rule(g)
  BY <1>4, <1>5
<1> HIDE DEF Rule
<1>7. a = CHOOSE s : Rule(s)
  BY DEF Aligned, Rule
<1>8. Rule(a)
  BY <1>6, <1>7
<1>9. a = [l \in 1 .. nlist + 1 |->
             IF l = 1 THEN first ELSE a[l - 1] + PageCount(size[l - 1])]
  BY <1>8 DEF Rule
<1> HIDE DEF a
<1>10. a[1] = first /\ \A l \in Lists : a[l + 1] = a[l] + PageCount(size[l])
  BY <1>1, <1>9
<1>11. \A l \in 1 .. nlist + 1 : l \in {k \in 1 .. nlist + 1 : a[k] \in Nat}
  <2> DEFINE S == {k \in 1 .. nlist + 1 : a[k] \in Nat}
  <2>1. 1 \in S
    BY <1>1, <1>10
  <2>2. \A k \in 1 .. (nlist + 1) - 1 : k \in S => k + 1 \in S
    <3> SUFFICES ASSUME NEW k \in 1 .. (nlist + 1) - 1, a[k] \in Nat
                 PROVE  k + 1 \in S
      OBVIOUS
    <3>1. k \in Lists /\ k + 1 \in 2 .. nlist + 1 /\ k + 1 \in 1 .. nlist + 1
      BY <1>1
    <3>2. a[k + 1] = a[k] + PageCount(size[k]) /\ PageCount(size[k]) \in Nat
      BY <1>10, <3>1, PageCountHolds
    <3> QED BY <3>1, <3>2
  <2> HIDE DEF S
  <2>3. \A k \in 1 .. nlist + 1 : k \in S
    BY <1>0, <2>1, <2>2, UpTo
  <2> QED BY <2>3 DEF S
<1>12. a \in [1 .. nlist + 1 -> Nat]
  BY <1>9, <1>11
<1> QED BY <1>10, <1>12 DEF a

-----------------------------------------------------------------------------
(* Sequences put one after the other: each lies where the lengths of those *)
(* before it say.                                                          *)

Offsets(off, seqs, N) ==
  off[1] = 0 /\ \A l \in 1 .. N : off[l + 1] = off[l] + Len(seqs[l])

LEMMA TwoParts ==
  ASSUME NEW T, NEW s \in Seq(T), NEW t \in Seq(T)
  PROVE  /\ s \o t \in Seq(T) /\ Len(s \o t) = Len(s) + Len(t)
         /\ \A k \in 1 .. Len(s) : (s \o t)[k] = s[k]
         /\ \A k \in 1 .. Len(t) : (s \o t)[Len(s) + k] = t[k]
<1>1. Len(s) \in Nat /\ Len(t) \in Nat
  OBVIOUS
<1>2. /\ s \o t \in Seq(T) /\ Len(s \o t) = Len(s) + Len(t)
      /\ \A k \in 1 .. Len(s) + Len(t) :
           (s \o t)[k] = IF k <= Len(s) THEN s[k] ELSE t[k - Len(s)]
  BY ConcatProperties
<1>3. ASSUME NEW k \in 1 .. Len(t) PROVE (s \o t)[Len(s) + k] = t[k]
  <2>1. PICK i \in 1 .. Len(s) + Len(t) : i = Len(s) + k /\ ~(i <= Len(s)) /\ i - Len(s) = k
    BY <1>1
  <2> QED BY <1>2, <2>1
<1>4. ASSUME NEW k \in 1 .. Len(s) PROVE (s \o t)[k] = s[k]
  <2>1. k \in 1 .. Len(s) + Len(t) /\ k <= Len(s)
    BY <1>1
  <2> QED BY <1>2, <2>1
<1> QED BY <1>2, <1>3, <1>4

LEMMA NextPart ==
  ASSUME NEW T, NEW s \in Seq(T), NEW t \in Seq(T)
  PROVE  /\ s \o t \in Seq(T) /\ Len(s \o t) = Len(s) + Len(t)
         /\ \A k \in 1 .. Len(s) : k \in 1 .. Len(s) + Len(t) /\ (s \o t)[k] = s[k]
         /\ \A k \in 1 .. Len(t) : /\ Len(s) + k \in 1 .. Len(s) + Len(t)
                                  /\ (s \o t)[Len(s) + k] = t[k]
<1>1. Len(s) \in Nat /\ Len(t) \in Nat
  OBVIOUS
<1>2. ASSUME NEW k \in 1 .. Len(s) PROVE k \in 1 .. Len(s) + Len(t)
  BY <1>1
<1>3. ASSUME NEW k \in 1 .. Len(t) PROVE Len(s) + k \in 1 .. Len(s) + Len(t)
  BY <1>1
<1> QED BY <1>2, <1>3, TwoParts

Placed(off, seqs, N, T) ==
  /\ FlattenSeq(seqs) \in Seq(T)
  /\ Len(FlattenSeq(seqs)) = off[N + 1]
  /\ \A l \in 1 .. N : \A j \in 1 .. Len(seqs[l]) :
       /\ off[l] + j \in 1 .. off[N + 1]
       /\ FlattenSeq(seqs)[off[l] + j] = seqs[l][j]

LEMMA Flattened ==
  ASSUME NEW T, NEW N \in Nat \ {0}, NEW seqs \in [1 .. N -> Seq(T)],
         NEW off \in [1 .. N + 1 -> Nat], Offsets(off, seqs, N)
  PROVE  Placed(off, seqs, N, T)
<1> DEFINE step == [k \in 2 .. N |-> [x \in Seq(T) |-> x \o seqs[k]]]
           Rule(f) == f = [i \in 1 .. N |->
                             IF i = 1 THEN seqs[i] ELSE f[i - 1] \o seqs[i]]
           a == CHOOSE f : Rule(f)
<1>0. 1 \in Nat /\ N \in Nat /\ 1 <= N /\ seqs[1] \in Seq(T)
  OBVIOUS
<1>1. step \in [1 + 1 .. N -> [Seq(T) -> Seq(T)]]
  OBVIOUS
<1> HIDE DEF step
<1>2. PICK g \in [1 .. N -> Seq(T)] : Recurrent(g, 1, N, seqs[1], step)
  BY <1>0, <1>1, Recursion, Zenon
<1>3. ASSUME NEW i \in 1 .. N
      PROVE  g[i] = IF i = 1 THEN seqs[i] ELSE g[i - 1] \o seqs[i]
  <2>1. g[i] = IF i = 1 THEN seqs[1] ELSE step[i][g[i - 1]]
    BY <1>2 DEF Recurrent
  <2>2. i # 1 => i \in 2 .. N /\ g[i - 1] \in Seq(T)
    BY <1>2
  <2>3. i # 1 => step[i][g[i - 1]] = g[i - 1] \o seqs[i]
    BY <2>2 DEF step
  <2> QED BY <2>1, <2>3
<1>4. Rule(g)
  BY <1>2, <1>3
<1> HIDE DEF Rule
<1>5. Rule(a)
  BY <1>4
<1>6. FlattenSeq(seqs) = a[N]
  <2>1. Len(seqs) = N
    OBVIOUS
  <2>2. Rule(a) <=> a = [i \in 1 .. N |-> IF i = 1 THEN seqs[i] ELSE a[i - 1] \o seqs[i]]
    BY DEF Rule
  <2> QED BY <1>0, <2>1 DEF FlattenSeq, Rule
<1>7. a = [i \in 1 .. N |-> IF i = 1 THEN seqs[i] ELSE a[i - 1] \o seqs[i]]
  BY <1>5 DEF Rule
<1> HIDE DEF a
<1> DEFINE Sofar(i) == /\ a[i] \in Seq(T) /\ Len(a[i]) = off[i + 1]
                       /\ \A l \in 1 .. i : \A j \in 1 .. Len(seqs[l]) :
                            /\ off[l] + j \in 1 .. off[i + 1]
                            /\ a[i][off[l] + j] = seqs[l][j]
           S == {i \in 1 .. N : Sofar(i)}
<1>8. Sofar(1)
  <2>1. a[1] = seqs[1] /\ off[1 + 1] = Len(seqs[1]) /\ Len(seqs[1]) \in Nat
    BY <1>0, <1>7 DEF Offsets
  <2>2. off[1] = 0
    BY DEF Offsets
  <2> QED BY <1>0, <2>1, <2>2
<1>9. ASSUME NEW i \in 1 .. N - 1, Sofar(i) PROVE Sofar(i + 1)
  <2>1. PICK m \in 2 .. N : m = i + 1 /\ m - 1 = i
    OBVIOUS
  <2>2. a[m] = a[i] \o seqs[m]
    <3>1. m \in 1 .. N /\ m # 1
      OBVIOUS
    <3>2. a[m] = a[m - 1] \o seqs[m]
      BY <1>7, <3>1
    <3> QED BY <2>1, <3>2
  <2>3. /\ seqs[m] \in Seq(T) /\ Len(seqs[m]) \in Nat
        /\ off[m] \in Nat /\ off[m + 1] \in Nat /\ off[m + 1] = off[m] + Len(seqs[m])
    <3>1. m \in 1 .. N /\ m \in 1 .. N + 1 /\ m + 1 \in 1 .. N + 1
      OBVIOUS
    <3>2. off[m + 1] = off[m] + Len(seqs[m])
      BY <3>1 DEF Offsets
    <3> QED BY <3>1, <3>2
  <2>4. PICK here \in Nat, next \in Nat, t \in Seq(T), s \in Seq(T) :
          /\ here = off[m] /\ next = off[m + 1] /\ t = seqs[m] /\ s = a[i]
          /\ Len(t) \in Nat /\ next = here + Len(t) /\ Len(s) = here /\ a[m] = s \o t
    <3>1. a[i] \in Seq(T) /\ Len(a[i]) = off[m]
      BY <1>9, <2>1
    <3> QED BY <2>2, <2>3, <3>1, Zenon
  <2>5. a[m] \in Seq(T) /\ Len(a[m]) = next
    <3>1. s \o t \in Seq(T) /\ Len(s \o t) = Len(s) + Len(t)
      BY NextPart
    <3> QED BY <2>4, <3>1
  <2>6. \A k \in 1 .. here : k \in 1 .. next /\ a[m][k] = s[k]
    <3>1. \A k \in 1 .. Len(s) : k \in 1 .. Len(s) + Len(t) /\ (s \o t)[k] = s[k]
      BY NextPart
    <3> QED BY <2>4, <3>1, Zenon
  <2>7. \A k \in 1 .. Len(t) : here + k \in 1 .. next /\ a[m][here + k] = t[k]
    <3>1. \A k \in 1 .. Len(t) : /\ Len(s) + k \in 1 .. Len(s) + Len(t)
                                 /\ (s \o t)[Len(s) + k] = t[k]
      BY NextPart
    <3> QED BY <2>4, <3>1, Zenon
  <2>8. ASSUME NEW l \in 1 .. m, NEW j \in 1 .. Len(seqs[l])
        PROVE  off[l] + j \in 1 .. off[m + 1] /\ a[m][off[l] + j] = seqs[l][j]
    <3>1. CASE l \in 1 .. i
      <4>1. PICK k \in 1 .. here : k = off[l] + j /\ s[k] = seqs[l][j]
        BY <1>9, <2>1, <2>4, <3>1
      <4> QED BY <2>4, <2>6, <4>1
    <3>2. CASE l = m
      <4>1. j \in 1 .. Len(t)
        BY <2>4, <3>2
      <4>2. here + j \in 1 .. next /\ a[m][here + j] = t[j]
        BY <2>7, <4>1
      <4> QED BY <2>4, <3>2, <4>2
    <3>3. l \in 1 .. i \/ l = m
      BY <2>1
    <3> QED BY <3>1, <3>2, <3>3
  <2>9. Sofar(m)
    <3>1. a[m] \in Seq(T) /\ Len(a[m]) = off[m + 1]
      BY <2>4, <2>5
    <3> QED BY <2>8, <3>1
  <2> QED BY <2>1, <2>9
<1>10. Sofar(N)
  <2> HIDE DEF Sofar
  <2>1. 1 \in S
    BY <1>0, <1>8
  <2>2. \A i \in 1 .. N - 1 : i \in S => i + 1 \in S
    <3> SUFFICES ASSUME NEW i \in 1 .. N - 1, Sofar(i) PROVE i + 1 \in S
      OBVIOUS
    <3>1. i + 1 \in 1 .. N
      OBVIOUS
    <3> QED BY <1>9, <3>1
  <2> HIDE DEF S
  <2>3. \A i \in 1 .. N : i \in S
    BY <1>0, <2>1, <2>2, UpTo
  <2> QED BY <1>0, <2>3 DEF S
<1> QED BY <1>0, <1>6, <1>10 DEF Placed

-----------------------------------------------------------------------------
(* The new vectors of a list are those of the batch assigned to it.        *)

Has(s, v) == \E j \in DOMAIN s : s[j] = v

LEMMA HasAppend ==
  ASSUME NEW T, NEW s \in Seq(T), NEW x \in T
  PROVE  /\ Append(s, x) \in Seq(T)
         /\ \A v : Has(Append(s, x), v) <=> v = x \/ Has(s, v)
<1>1. /\ Append(s, x) \in Seq(T) /\ Len(Append(s, x)) = Len(s) + 1 /\ Len(s) \in Nat
      /\ DOMAIN s = 1 .. Len(s) /\ DOMAIN Append(s, x) = 1 .. Len(s) + 1
  OBVIOUS
<1>2. /\ \A j \in 1 .. Len(s) : Append(s, x)[j] = s[j]
      /\ Append(s, x)[Len(s) + 1] = x
  OBVIOUS
<1>3. Len(s) + 1 \in 1 .. Len(s) + 1 /\ \A j \in 1 .. Len(s) : j \in 1 .. Len(s) + 1
  BY <1>1
<1>4. \A j \in 1 .. Len(s) + 1 : j = Len(s) + 1 \/ j \in 1 .. Len(s)
  BY <1>1
<1> QED BY <1>1, <1>2, <1>3, <1>4, Zenon DEF Has

LEMMA HasConcat ==
  ASSUME NEW T, NEW s \in Seq(T), NEW t \in Seq(T)
  PROVE  \A v : Has(s \o t, v) <=> Has(s, v) \/ Has(t, v)
<1>1. /\ DOMAIN s = 1 .. Len(s) /\ DOMAIN t = 1 .. Len(t)
      /\ DOMAIN (s \o t) = 1 .. Len(s) + Len(t)
  BY NextPart
<1>2. /\ \A k \in 1 .. Len(s) : k \in 1 .. Len(s) + Len(t) /\ (s \o t)[k] = s[k]
      /\ \A k \in 1 .. Len(t) : /\ Len(s) + k \in 1 .. Len(s) + Len(t)
                                /\ (s \o t)[Len(s) + k] = t[k]
  BY NextPart
<1>3. \A k \in 1 .. Len(s) + Len(t) :
        k \in 1 .. Len(s) \/ \E i \in 1 .. Len(t) : k = Len(s) + i
  <2>1. ASSUME NEW k \in 1 .. Len(s) + Len(t), k \notin 1 .. Len(s)
        PROVE  \E i \in 1 .. Len(t) : k = Len(s) + i
    <3>1. Len(s) \in Nat /\ Len(t) \in Nat
      OBVIOUS
    <3>2. k - Len(s) \in 1 .. Len(t) /\ k = Len(s) + (k - Len(s))
      BY <2>1, <3>1
    <3> QED BY <3>2
  <2> QED BY <2>1
<1>4. ASSUME NEW v, NEW k \in 1 .. Len(s) + Len(t), (s \o t)[k] = v
      PROVE  Has(s, v) \/ Has(t, v)
  <2>1. CASE k \in 1 .. Len(s)
    BY <1>1, <1>2, <1>4, <2>1 DEF Has
  <2>2. ASSUME NEW i \in 1 .. Len(t), k = Len(s) + i PROVE Has(t, v)
    BY <1>1, <1>2, <1>4, <2>2 DEF Has
  <2> QED BY <1>3, <2>1, <2>2
<1>5. ASSUME NEW v, Has(s, v) \/ Has(t, v) PROVE Has(s \o t, v)
  <2>1. CASE Has(s, v)
    <3>1. PICK k \in 1 .. Len(s) : s[k] = v
      BY <1>1, <2>1 DEF Has
    <3> QED BY <1>1, <1>2, <3>1 DEF Has
  <2>2. CASE Has(t, v)
    <3>1. PICK k \in 1 .. Len(t) : t[k] = v
      BY <1>1, <2>2 DEF Has
    <3>2. Len(s) + k \in 1 .. Len(s) + Len(t) /\ (s \o t)[Len(s) + k] = v
      BY <1>2, <3>1
    <3> QED BY <1>1, <3>2, Zenon DEF Has
  <2> QED BY <1>5, <2>1, <2>2
<1> QED BY <1>1, <1>4, <1>5 DEF Has

LEMMA JoiningProps ==
  ASSUME NEW l, NEW lists_of, NEW count \in Nat, NEW first \in Nat, first = ntotal
  PROVE  /\ Joining(l, lists_of, count) \in Seq(first .. first + count - 1)
         /\ \A v \in first .. first + count - 1 :
              Has(Joining(l, lists_of, count), v) <=> l \in lists_of[v]
<1> DEFINE V == first .. first + count - 1
           Next1(k, s) == IF l \in lists_of[first + k - 1] THEN Append(s, first + k - 1) ELSE s
           step == [k \in 1 .. count |-> [s \in Seq(V) |-> Next1(k, s)]]
           Rule(f) == f = [k \in 0 .. count |-> IF k = 0 THEN <<>> ELSE Next1(k, f[k - 1])]
           a == CHOOSE f : Rule(f)
<1>0. 0 \in Nat /\ 0 <= count /\ <<>> \in Seq(V)
  OBVIOUS
<1>1. \A k \in 1 .. count : first + k - 1 \in V
  OBVIOUS
<1>2. ASSUME NEW k \in 1 .. count, NEW s \in Seq(V) PROVE Next1(k, s) \in Seq(V)
  <2>1. Append(s, first + k - 1) \in Seq(V)
    BY <1>1, HasAppend
  <2> QED BY <2>1
<1> HIDE DEF V, Next1
<1>3. step \in [0 + 1 .. count -> [Seq(V) -> Seq(V)]]
  BY <1>2
<1> HIDE DEF step
<1>4. PICK g \in [0 .. count -> Seq(V)] : Recurrent(g, 0, count, <<>>, step)
  BY <1>0, <1>3, Recursion, Zenon
<1>5. ASSUME NEW k \in 0 .. count
      PROVE  g[k] = IF k = 0 THEN <<>> ELSE Next1(k, g[k - 1])
  <2>1. g[k] = IF k = 0 THEN <<>> ELSE step[k][g[k - 1]]
    BY <1>4 DEF Recurrent
  <2>2. k # 0 => k \in 1 .. count /\ g[k - 1] \in Seq(V)
    BY <1>4
  <2>3. k # 0 => step[k][g[k - 1]] = Next1(k, g[k - 1])
    BY <2>2 DEF step
  <2> QED BY <2>1, <2>3
<1>6. Rule(g)
  BY <1>4, <1>5
<1>7. Joining(l, lists_of, count) = a[count]
  BY DEF Joining, Next1
<1> HIDE DEF Rule
<1>8. Rule(a)
  BY <1>6
<1>9. a = [k \in 0 .. count |-> IF k = 0 THEN <<>> ELSE Next1(k, a[k - 1])]
  BY <1>8 DEF Rule
<1> HIDE DEF a
<1> DEFINE Got(k) == /\ a[k] \in Seq(V)
                     /\ \A v \in V : Has(a[k], v) <=> v < first + k /\ l \in lists_of[v]
           S == {k \in 0 .. count : Got(k)}
<1>10. Got(0)
  <2>1. a[0] = <<>> /\ DOMAIN <<>> = {}
    BY <1>0, <1>9
  <2>2. \A v \in V : ~(v < first + 0)
    BY DEF V
  <2> QED BY <1>0, <2>1, <2>2 DEF Has
<1>11. ASSUME NEW k \in 0 .. count - 1, Got(k) PROVE Got(k + 1)
  <2>1. PICK m \in 1 .. count : m = k + 1 /\ m - 1 = k /\ m \in 0 .. count /\ m # 0
    OBVIOUS
  <2>2. a[m] = Next1(m, a[k])
    BY <1>9, <2>1
  <2>3. PICK x \in V : x = first + m - 1
    BY <1>1
  <2>4. a[m] = IF l \in lists_of[x] THEN Append(a[k], x) ELSE a[k]
    BY <2>2, <2>3 DEF Next1
  <2>5. \A v \in V : v < first + m <=> v = x \/ v < first + k
    BY <2>1, <2>3 DEF V
  <2>6. a[k] \in Seq(V) /\ \A v \in V : Has(a[k], v) <=> v < first + k /\ l \in lists_of[v]
    BY <1>11
  <2>7. CASE l \in lists_of[x]
    <3>1. a[m] \in Seq(V) /\ \A v : Has(a[m], v) <=> v = x \/ Has(a[k], v)
      BY <2>4, <2>6, <2>7, HasAppend
    <3>2. Got(m)
      BY <2>5, <2>6, <2>7, <3>1, Zenon
    <3> QED BY <2>1, <3>2
  <2>8. CASE l \notin lists_of[x]
    <3>1. a[m] = a[k]
      BY <2>4, <2>8
    <3>2. Got(m)
      BY <2>5, <2>6, <2>8, <3>1, Zenon
    <3> QED BY <2>1, <3>2
  <2> QED BY <2>7, <2>8
<1>12. Got(count)
  <2> HIDE DEF Got
  <2>1. 0 \in S
    BY <1>0, <1>10
  <2>2. \A k \in 0 .. count - 1 : k \in S => k + 1 \in S
    <3> SUFFICES ASSUME NEW k \in 0 .. count - 1, Got(k) PROVE k + 1 \in S
      OBVIOUS
    <3>1. k + 1 \in 0 .. count
      OBVIOUS
    <3> QED BY <1>11, <3>1
  <2> HIDE DEF S
  <2>3. \A k \in 0 .. count : k \in S
    BY <1>0, <2>1, <2>2, UpTo
  <2> QED BY <1>0, <2>3 DEF S
<1>13. \A v \in V : v < first + count
  BY DEF V
<1> QED BY <1>7, <1>12, <1>13 DEF V

-----------------------------------------------------------------------------
(* Orders of a list and of the lists are permutations.                     *)

Permutes(map, S) ==
  /\ map \in [S -> S]
  /\ \A i, j \in S : map[i] = map[j] => i = j
  /\ \A t \in S : \E i \in S : map[i] = t

LEMMA InjectionPermutes ==
  ASSUME NEW S, IsFiniteSet(S), NEW map \in [S -> S],
         \A i, j \in S : map[i] = map[j] => i = j
  PROVE  Permutes(map, S)
<1>1. map \in Injection(S, S)
  BY DEF Injection, IsInjective
<1>2. map \in Surjection(S, S)
  BY <1>1, FS_Injection
<1> QED BY <1>2 DEF Permutes, Surjection

LEMMA SortedPermutes ==
  ASSUME NEW size \in Nat, NEW cluster \in [1 .. size -> Int]
  PROVE  Permutes(SortedBy(cluster), 1 .. size)
<1> DEFINE D == 1 .. size
           Before(i, j) == \/ cluster[i] < cluster[j]
                           \/ cluster[i] = cluster[j] /\ i <= j
           Upto(i) == {j \in D : Before(j, i)}
           place == [i \in D |-> Cardinality(Upto(i))]
           map == Inverse(place, D, D)
<1>1. IsFiniteSet(D) /\ Cardinality(D) = size
  BY FS_Interval
<1>2. \A i \in D : cluster[i] \in Int /\ i \in Int
  OBVIOUS
<1>3. \A i \in D : Before(i, i)
  BY <1>2
<1>4. \A i, j \in D : Before(i, j) \/ Before(j, i)
  BY <1>2
<1>5. \A i, j \in D : Before(i, j) /\ Before(j, i) => i = j
  BY <1>2
<1>6. \A i, j, k \in D : Before(i, j) /\ Before(j, k) => Before(i, k)
  BY <1>2
<1>7. SortedBy(cluster) = map
  BY DEF SortedBy
<1> HIDE DEF D, Before
<1>8. ASSUME NEW i \in D PROVE IsFiniteSet(Upto(i)) /\ Cardinality(Upto(i)) \in D
  <2>1. Upto(i) \in SUBSET D
    OBVIOUS
  <2>2. IsFiniteSet(Upto(i)) /\ Cardinality(Upto(i)) <= size
    BY <1>1, <2>1, FS_Subset
  <2>3. Cardinality(Upto(i)) \in Nat
    BY <2>2, FS_CardinalityType
  <2>4. Cardinality(Upto(i)) # 0
    BY <1>3, <2>2, FS_EmptySet
  <2> QED BY <2>2, <2>3, <2>4 DEF D
<1>9. ASSUME NEW i \in D, NEW j \in D, Before(i, j), i # j
      PROVE  Cardinality(Upto(i)) # Cardinality(Upto(j))
  <2>1. Upto(i) \in SUBSET Upto(j)
    BY <1>6, <1>9
  <2>2. j \in Upto(j) /\ j \notin Upto(i)
    BY <1>3, <1>5, <1>9
  <2>3. Upto(i) # Upto(j)
    BY <2>2
  <2> HIDE DEF Upto
  <2> QED BY <1>8, <2>1, <2>3, FS_Subset
<1>10. place \in [D -> D]
  BY <1>8
<1>11. \A i, j \in D : place[i] = place[j] => i = j
  BY <1>4, <1>9
<1> HIDE DEF place
<1>12. Permutes(place, D)
  BY <1>1, <1>10, <1>11, InjectionPermutes
<1>13. \A t \in D : map[t] \in D /\ place[map[t]] = t
  <2> SUFFICES ASSUME NEW t \in D PROVE map[t] \in D /\ place[map[t]] = t
    OBVIOUS
  <2>1. map[t] = CHOOSE s \in D : t \in Range(place) => place[s] = t
    BY DEF Inverse
  <2>2. PICK s \in D : place[s] = t
    BY <1>12 DEF Permutes
  <2>3. t \in Range(place)
    BY <1>10, <2>2 DEF Range
  <2> QED BY <2>1, <2>2, <2>3
<1>14. map = [t \in D |-> map[t]]
  BY DEF Inverse
<1> HIDE DEF map
<1>15. map \in [D -> D]
  BY <1>13, <1>14
<1>16. \A i, j \in D : map[i] = map[j] => i = j
  BY <1>13
<1>17. Permutes(map, D)
  BY <1>1, <1>15, <1>16, InjectionPermutes
<1> QED BY <1>7, <1>17 DEF D

-----------------------------------------------------------------------------
(* Lists of cells.                                                         *)

LEMMA PaddedProps ==
  ASSUME NEW s \in Seq(Cells)
  PROVE  /\ Padded(s) \in Seq(Cells)
         /\ Len(Padded(s)) = PageCount(Len(s)) * PageVectors
         /\ \A j \in 1 .. Len(s) : Padded(s)[j] = s[j]
<1> DEFINE rest == PageCount(Len(s)) * PageVectors - Len(s)
           t == [k \in 1 .. rest |-> Blank]
<1>1. Len(s) \in Nat
  OBVIOUS
<1>2. rest \in Nat
  <2> DEFINE pc == PageCount(Len(s)) * PageVectors
  <2>1. pc \in Nat /\ Len(s) <= pc
    BY <1>1, PageCountHolds
  <2> HIDE DEF pc
  <2>2. pc - Len(s) \in Nat
    BY <1>1, <2>1
  <2> QED BY <2>2 DEF pc
<1>3. t \in Seq(Cells) /\ Len(t) = rest
  BY <1>2 DEF Cells
<1>4. Padded(s) = s \o t
  BY DEF Padded
<1>5. Len(s) + rest = PageCount(Len(s)) * PageVectors
  BY <1>1, PageCountHolds
<1> HIDE DEF t, rest
<1>6. /\ s \o t \in Seq(Cells) /\ Len(s \o t) = Len(s) + Len(t)
      /\ \A k \in 1 .. Len(s) : (s \o t)[k] = s[k]
  BY <1>3, TwoParts
<1> QED BY <1>3, <1>4, <1>5, <1>6

LEMMA CellsAtProps ==
  ASSUME NEW f \in Seq(Cells), NEW page \in Nat, NEW count \in Nat,
         \A j \in 1 .. count : page * PageVectors + j \in DOMAIN f
  PROVE  /\ CellsAt(f, page, count) \in Seq(Cells)
         /\ Len(CellsAt(f, page, count)) = count
         /\ \A j \in 1 .. count : CellsAt(f, page, count)[j] = f[page * PageVectors + j]
<1>1. \A j \in 1 .. count : f[page * PageVectors + j] \in Cells
  OBVIOUS
<1>2. CellsAt(f, page, count) = [j \in 1 .. count |-> f[page * PageVectors + j]]
  BY DEF CellsAt
<1> QED BY <1>1, <1>2

(* The first page of every list is past those of the lists before it.      *)
LEMMA AlignedGrows ==
  ASSUME NEW size \in [Lists -> Nat], NEW first \in Nat
  PROVE  /\ \A l \in 1 .. nlist + 1 : first <= Aligned(size, first)[l]
         /\ \A l \in Lists : Aligned(size, first)[l + 1] <= Aligned(size, first)[nlist + 1]
<1> DEFINE A == Aligned(size, first)
<1>1. /\ A \in [1 .. nlist + 1 -> Nat] /\ A[1] = first
      /\ \A l \in Lists : A[l + 1] = A[l] + PageCount(size[l])
  BY AlignedProps
<1>2. nlist \in Nat \ {0} /\ nlist + 1 \in Nat
  BY LayoutAssumption
<1> HIDE DEF A
<1>3. \A l \in Lists : A[l + 1] \in Nat /\ A[l] \in Nat /\ A[l] <= A[l + 1]
  <2> TAKE l \in Lists
  <2>1. size[l] \in Nat /\ PageCount(size[l]) \in Nat
    BY PageCountHolds
  <2>2. A[l] \in Nat /\ A[l + 1] = A[l] + PageCount(size[l])
    BY <1>1, <1>2 DEF Lists
  <2> QED BY <2>1, <2>2
<1>4. ASSUME NEW m \in 1 .. nlist + 1
      PROVE  \A k \in m .. nlist + 1 : A[m] <= A[k]
  <2> DEFINE S == {k \in m .. nlist + 1 : A[m] <= A[k]}
  <2>1. m \in S
    BY <1>1
  <2>2. \A k \in m .. (nlist + 1) - 1 : k \in S => k + 1 \in S
    <3> SUFFICES ASSUME NEW k \in m .. (nlist + 1) - 1, k \in S
                 PROVE  k + 1 \in S
      OBVIOUS
    <3>1. k \in Lists /\ k + 1 \in m .. nlist + 1 /\ m \in Nat
      BY <1>2 DEF Lists
    <3>2. A[m] <= A[k] /\ A[k] <= A[k + 1] /\ A[k] \in Nat /\ A[k + 1] \in Nat
      BY <1>3, <3>1
    <3>3. A[m] \in Nat
      BY <1>1
    <3> QED BY <3>1, <3>2, <3>3
  <2>3. m \in Nat
    OBVIOUS
  <2> HIDE DEF S
  <2>4. \A k \in m .. nlist + 1 : k \in S
    BY <1>2, <2>1, <2>2, <2>3, UpTo
  <2> QED BY <2>4 DEF S
<1>5. \A l \in 1 .. nlist + 1 : first <= A[l]
  BY <1>1, <1>2, <1>4
<1>6. \A l \in Lists : A[l + 1] <= A[nlist + 1]
  <2> TAKE l \in Lists
  <2>1. l + 1 \in 1 .. nlist + 1 /\ nlist + 1 \in l + 1 .. nlist + 1
    BY <1>2 DEF Lists
  <2> QED BY <1>4, <2>1
<1> QED BY <1>5, <1>6 DEF A

(* What is written from page first on, list after list, each padded to     *)
(* whole pages, is found again where align_cluster_page places the lists.  *)
Blocks(seqs, size) ==
  /\ seqs \in [Lists -> Seq(Cells)]
  /\ \A l \in Lists : Len(seqs[l]) = PageCount(size[l]) * PageVectors

Located(seqs, size, first) ==
  /\ FlattenSeq(seqs) \in Seq(Cells)
  /\ first * PageVectors + Len(FlattenSeq(seqs)) = Aligned(size, first)[nlist + 1] * PageVectors
  /\ \A l \in Lists : \A j \in 1 .. Len(seqs[l]) :
       \E i \in 1 .. Len(FlattenSeq(seqs)) :
         /\ Aligned(size, first)[l] * PageVectors + j = first * PageVectors + i
         /\ FlattenSeq(seqs)[i] = seqs[l][j]

LEMMA BlocksFound ==
  ASSUME NEW size \in [Lists -> Nat], NEW first \in Nat, NEW seqs, Blocks(seqs, size)
  PROVE  Located(seqs, size, first)
<1> DEFINE A == Aligned(size, first)
           off == [l \in 1 .. nlist + 1 |-> (A[l] - first) * PageVectors]
<1>1. /\ A \in [1 .. nlist + 1 -> Nat] /\ A[1] = first
      /\ \A l \in Lists : A[l + 1] = A[l] + PageCount(size[l])
  BY AlignedProps
<1>2. nlist \in Nat \ {0} /\ nlist + 1 \in Nat /\ PageVectors \in Nat
  BY LayoutAssumption
<1>3. \A l \in 1 .. nlist + 1 : first <= A[l]
  BY AlignedGrows
<1> HIDE DEF A
<1>4. off \in [1 .. nlist + 1 -> Nat]
  <2>1. \A l \in 1 .. nlist + 1 : A[l] - first \in Nat
    BY <1>1, <1>3
  <2>2. \A x \in Nat : x * PageVectors \in Nat
    BY <1>2
  <2> QED BY <2>1, <2>2
<1>5. off[1] = 0 /\ \A l \in 1 .. nlist : off[l + 1] = off[l] + Len(seqs[l])
  <2>1. off[1] = 0
    BY <1>1, <1>2
  <2>2. ASSUME NEW l \in 1 .. nlist
        PROVE  off[l + 1] = off[l] + Len(seqs[l])
    <3>1. l \in 1 .. nlist + 1 /\ l + 1 \in 1 .. nlist + 1 /\ l \in Lists
      BY <1>2 DEF Lists
    <3>2. PageCount(size[l]) \in Nat
      BY <3>1, PageCountHolds
    <3>3. off[l] = (A[l] - first) * PageVectors /\ off[l + 1] = (A[l + 1] - first) * PageVectors
      BY <3>1
    <3>4. A[l] \in Nat /\ A[l + 1] = A[l] + PageCount(size[l])
      BY <1>1, <3>1
    <3>5. Len(seqs[l]) = PageCount(size[l]) * PageVectors
      BY <3>1 DEF Blocks
    <3>6. \A a, p \in Nat : ((a + p) - first) * PageVectors =
                              (a - first) * PageVectors + p * PageVectors
      BY <1>2
    <3> QED BY <3>2, <3>3, <3>4, <3>5, <3>6
  <2> QED BY <2>1, <2>2
<1>6. seqs \in [1 .. nlist -> Seq(Cells)]
  BY DEF Blocks, Lists
<1>7. \A l \in 1 .. nlist + 1 : off[l] = (A[l] - first) * PageVectors
  OBVIOUS
<1> HIDE DEF off
<1>8. Offsets(off, seqs, nlist)
  BY <1>5 DEF Offsets
<1>9. /\ FlattenSeq(seqs) \in Seq(Cells)
      /\ Len(FlattenSeq(seqs)) = off[nlist + 1]
      /\ \A l \in 1 .. nlist : \A j \in 1 .. Len(seqs[l]) :
           /\ off[l] + j \in 1 .. off[nlist + 1]
           /\ FlattenSeq(seqs)[off[l] + j] = seqs[l][j]
  <2>1. Placed(off, seqs, nlist, Cells)
    BY <1>2, <1>4, <1>6, <1>8, Flattened
  <2> QED BY <2>1 DEF Placed
<1>10. \A a \in Nat : first <= a =>
         a * PageVectors = first * PageVectors + (a - first) * PageVectors
  BY <1>2
<1>11. \A l \in 1 .. nlist + 1 : A[l] * PageVectors = first * PageVectors + off[l]
  BY <1>1, <1>3, <1>7, <1>10
<1>12. nlist + 1 \in 1 .. nlist + 1
  BY <1>2
<1>13. first * PageVectors + Len(FlattenSeq(seqs)) = A[nlist + 1] * PageVectors
  BY <1>9, <1>11, <1>12
<1>14. ASSUME NEW l \in Lists, NEW j \in 1 .. Len(seqs[l])
       PROVE  \E i \in 1 .. Len(FlattenSeq(seqs)) :
                /\ A[l] * PageVectors + j = first * PageVectors + i
                /\ FlattenSeq(seqs)[i] = seqs[l][j]
  <2>1. l \in 1 .. nlist /\ l \in 1 .. nlist + 1
    BY <1>2 DEF Lists
  <2>2. /\ off[l] + j \in 1 .. Len(FlattenSeq(seqs))
        /\ FlattenSeq(seqs)[off[l] + j] = seqs[l][j]
    BY <1>9, <2>1
  <2>3. A[l] * PageVectors = first * PageVectors + off[l] /\ off[l] \in Nat
    BY <1>4, <1>11, <2>1
  <2>4. first * PageVectors \in Nat /\ j \in Int
    BY <1>2
  <2>5. A[l] * PageVectors + j = first * PageVectors + (off[l] + j)
    BY <2>3, <2>4
  <2> QED BY <2>2, <2>5
<1> QED BY <1>9, <1>13, <1>14 DEF A, Located
-----------------------------------------------------------------------------
(* The inductive invariant.                                                *)

(* The counts and the lists; a list grows in AddWithIds, before its length *)
(* and its place on disk are brought up to date.                           *)
Counts ==
  /\ phase \in {"idle", "added", "filling", "written", "ordering", "ordered",
                "finishing", "failed"}
  /\ n \in Nat /\ ntotal \in Nat /\ n <= ntotal
  /\ actual_batch_num \in Nat /\ add_batch_num \in Nat \ {0}
  /\ actual_batch_num = 0 => phase = "idle" /\ ntotal = 0
  /\ actual_batch_num = 1 => ntotal = n

ListsOK ==
  /\ ids \in [Lists -> Seq(Nat)] /\ codes \in [Lists -> Seq(0 .. ntotal - 1)]
  /\ \A l \in Lists : Len(ids[l]) = Len(codes[l])
  /\ len \in [Lists -> Nat] /\ old_len \in [Lists -> Nat]
  /\ page_start \in [Lists -> Nat] /\ old_start \in [Lists -> Nat]
  /\ total_page \in Nat

Sizes ==
  /\ phase \notin {"added"} => \A l \in Lists : len[l] = Len(codes[l])
  /\ phase = "added" => \A l \in Lists : /\ len[l] <= Len(codes[l])
                                         /\ IsFirst => len[l] = 0
  /\ phase = "filling" => \A l \in Lists : /\ old_len[l] <= len[l]
                                           /\ IsFirst => old_len[l] = 0

(* The lists are numbered as their centroids are in the quantizer and the  *)
(* graph, save between the two steps that renumber them.                   *)
Centroids ==
  /\ quantizer \in [Lists -> Lists] /\ graph \in [Lists -> Lists]
  /\ \A l, m \in Lists : quantizer[l] = quantizer[m] => l = m
  /\ phase \notin {"ordered", "failed"} => graph = quantizer

Homes ==
  /\ DOMAIN home = 0 .. ntotal - 1
  /\ phase # "failed" =>
       \A l \in Lists, v \in 0 .. ntotal - 1 :
         quantizer[l] \in home[v] <=> Has(codes[l], v)
  /\ \A v \in 0 .. ntotal - 1 : \E l \in Lists : Has(codes[l], v)

(* An entry has the id its vector was given, until the batch numbered      *)
(* add_batch_num has renumbered it; the new entries of any batch have.     *)
FreshIds(l, first) ==
  \A j \in first + 1 .. Len(codes[l]) : /\ ids[l][j] = id_of[codes[l][j]]
                                       /\ codes[l][j] >= ntotal - n

Ids ==
  /\ id_of \in [0 .. ntotal - 1 -> Nat]
  /\ GivenIds = {} => \A v \in 0 .. ntotal - 1 : id_of[v] = v
  /\ actual_batch_num < add_batch_num \/ (IsLast /\ phase # "idle") =>
       \A l \in Lists : \A j \in 1 .. Len(codes[l]) : ids[l][j] = id_of[codes[l][j]]
  /\ phase = "added" => \A l \in Lists : FreshIds(l, len[l])
  /\ phase = "filling" =>
       \A l \in Lists : l > Len(buffers) => FreshIds(l, old_len[l])

(* The right cell for a vector; nothing is claimed of it when ids are      *)
(* given, for then FillBuffer may read other vectors than those added.     *)
Right(cell, v) == cell \in Cells /\ (GivenIds = {} => cell = Vector(v))

(* The pages of list l in f hold, in order, the vectors of its entries.    *)
StoresList(f, l, start, size) ==
  \A j \in 1 .. size[l] : /\ start[l] * PageVectors + j \in DOMAIN f
                          /\ Right(f[start[l] * PageVectors + j], codes[l][j])

Laid ==
  /\ \A l \in Lists : page_start[l] = Aligned(len, 0)[l]
  /\ total_page = Aligned(len, 0)[nlist + 1]

(* The phases at whose start the file is complete.                         *)
Complete == phase \in {"written", "ordering", "ordered", "finishing", "failed"}

Files ==
  /\ phase = "filling" \/ Complete => Laid
  /\ Complete \/ (phase = "idle" /\ actual_batch_num > 0)
       \/ (phase = "added" /\ ~IsFirst) => file \in Seq(Cells)
  /\ Complete => Len(file) = total_page * PageVectors
  /\ phase # "filling" => \A l \in Lists : StoresList(file, l, page_start, len)
  /\ phase = "filling" => /\ ~IsFirst => saved \in Seq(Cells)
                          /\ \A l \in Lists :
                               l > Len(buffers) => StoresList(saved, l, old_start, old_len)

Buffers ==
  /\ buffers \in Seq(Seq(Cells))
  /\ phase = "filling" =>
       /\ Len(buffers) <= nlist
       /\ \A l \in Lists : l <= Len(buffers) =>
            /\ Len(buffers[l]) = PageCount(len[l]) * PageVectors
            /\ \A j \in 1 .. len[l] : Right(buffers[l][j], codes[l][j])

(* While the file is being rewritten, the vectors of the earlier batches.  *)
Kept ==
  GivenIds = {} =>
    /\ phase = "added" => \A v \in 0 .. ntotal - n - 1 : Holds(file, v)
    /\ phase = "filling" => \A v \in 0 .. ntotal - n - 1 : Holds(saved, v)

(* The lists appended in the last batch, and the ids renumbered.           *)
Appended ==
  phase = "idle" /\ IsLast =>
    \A l \in Lists : \A j \in 1 .. len[l] :
      /\ file[inv_start[l] * PageVectors + j] =
           Entry(id_of[codes[l][j]] * partition_num + order, codes[l][j])
      /\ ids[l][j] = id_of[codes[l][j]] * partition_num + order

IInv == /\ Counts /\ ListsOK /\ Sizes /\ Centroids /\ Homes /\ Ids /\ Files
        /\ Buffers /\ Kept /\ Appended

(* A complete file holds every vector.                                     *)
LEMMA StoredHolds ==
  ASSUME ListsOK, Homes, file \in Seq(Cells), GivenIds = {},
         \A l \in Lists : len[l] = Len(codes[l]) /\ StoresList(file, l, page_start, len)
  PROVE  \A v \in 0 .. ntotal - 1 : Holds(file, v)
<1> SUFFICES ASSUME NEW v \in 0 .. ntotal - 1 PROVE Holds(file, v)
  OBVIOUS
<1>1. PICK l \in Lists : Has(codes[l], v)
  BY DEF Homes
<1>2. PICK j \in DOMAIN codes[l] : codes[l][j] = v
  BY <1>1 DEF Has
<1>3. j \in 1 .. len[l]
  BY <1>1, <1>2 DEF ListsOK
<1>4. /\ page_start[l] * PageVectors + j \in DOMAIN file
      /\ file[page_start[l] * PageVectors + j] = Vector(v)
  BY <1>2, <1>3 DEF StoresList, Right
<1>5. file # Absent
  BY AbsentAssumption
<1> QED BY <1>4, <1>5 DEF Holds

LEMMA InitIInv ==
  ASSUME Init PROVE IInv
<1> USE DEF Init
<1>1. Counts
  BY LayoutAssumption DEF Counts
<1>2. ListsOK
  BY DEF ListsOK
<1>3. Sizes
  BY DEF Sizes
<1>4. Centroids
  BY DEF Centroids
<1>5. Homes
  BY DEF Homes
<1>6. Ids
  BY LayoutAssumption DEF Ids
<1>7. Files
  BY DEF Files, Complete, StoresList
<1>8. Buffers
  BY DEF Buffers
<1>9. Kept
  BY DEF Kept
<1>10. Appended
  BY LayoutAssumption DEF Appended, IsLast
<1> QED BY <1>1, <1>2, <1>3, <1>4, <1>5, <1>6, <1>7, <1>8, <1>9, <1>10 DEF IInv

(* A list that has been joined to: the entries it had, then the new ones.  *)
Grown(l, V, xids) ==
  /\ codes'[l] \in Seq(0 .. ntotal' - 1) /\ ids'[l] \in Seq(Nat)
  /\ Len(codes'[l]) = Len(ids'[l]) /\ Len(codes[l]) <= Len(codes'[l])
  /\ \A j \in 1 .. Len(codes[l]) : codes'[l][j] = codes[l][j] /\ ids'[l][j] = ids[l][j]
  /\ \A j \in Len(codes[l]) + 1 .. Len(codes'[l]) :
       codes'[l][j] \in V /\ ids'[l][j] = xids[codes'[l][j]]

LEMMA WithinSeq ==
  ASSUME NEW S, NEW T, S \subseteq T, NEW s \in Seq(S)
  PROVE  /\ s \in Seq(T) /\ Len(s) \in Nat
         /\ \A j \in 1 .. Len(s) : s[j] \in S
         /\ \A v : Has(s, v) => v \in S
<1>1. /\ Len(s) \in Nat /\ DOMAIN s = 1 .. Len(s)
      /\ \A j \in 1 .. Len(s) : s[j] \in S
  OBVIOUS
<1>2. s \in Seq(T)
  BY <1>1
<1>3. \A v : Has(s, v) => v \in S
  BY <1>1 DEF Has
<1> QED BY <1>1, <1>2, <1>3

LEMMA MadeSeq ==
  ASSUME NEW T, NEW m \in Nat, NEW s, s = [j \in 1 .. m |-> s[j]],
         \A j \in 1 .. m : s[j] \in T
  PROVE  s \in Seq(T) /\ Len(s) = m
  OBVIOUS

LEMMA AddGrows ==
  ASSUME NEW l \in Lists, NEW count \in Nat, NEW lists_of,
         NEW xids \in [ntotal .. ntotal + count - 1 -> Nat],
         ntotal \in Nat, ntotal' = ntotal + count,
         codes[l] \in Seq(0 .. ntotal - 1), ids[l] \in Seq(Nat), Len(ids[l]) = Len(codes[l]),
         codes'[l] = codes[l] \o Joining(l, lists_of, count),
         ids'[l] = ids[l] \o [k \in 1 .. Len(Joining(l, lists_of, count)) |->
                                xids[Joining(l, lists_of, count)[k]]]
  PROVE  /\ Grown(l, ntotal .. ntotal + count - 1, xids)
         /\ \A v \in ntotal .. ntotal + count - 1 :
              Has(codes'[l], v) <=> l \in lists_of[v]
         /\ \A v \in 0 .. ntotal - 1 : Has(codes'[l], v) <=> Has(codes[l], v)
<1> DEFINE V == ntotal .. ntotal + count - 1
           J == Joining(l, lists_of, count)
           X == [k \in 1 .. Len(J) |-> xids[J[k]]]
           T == 0 .. ntotal' - 1
<1>1. J \in Seq(V) /\ \A v \in V : Has(J, v) <=> l \in lists_of[v]
  BY JoiningProps
<1>2. codes'[l] = codes[l] \o J /\ ids'[l] = ids[l] \o X
  OBVIOUS
<1>3. V \subseteq T /\ 0 .. ntotal - 1 \subseteq T /\ xids \in [V -> Nat]
  OBVIOUS
<1>4. \A v \in V : v \notin 0 .. ntotal - 1
  OBVIOUS
<1> HIDE DEF V, J, T
<1>5. codes[l] \in Seq(T) /\ J \in Seq(T) /\ Len(J) \in Nat /\ Len(codes[l]) \in Nat
  <2>1. J \in Seq(T) /\ Len(J) \in Nat
    BY <1>1, <1>3, WithinSeq
  <2>2. codes[l] \in Seq(T) /\ Len(codes[l]) \in Nat
    BY <1>3, WithinSeq
  <2> QED BY <2>1, <2>2
<1>6. \A k \in 1 .. Len(J) : J[k] \in V /\ xids[J[k]] \in Nat
  <2>1. \A k \in 1 .. Len(J) : J[k] \in V
    BY <1>1, WithinSeq
  <2> QED BY <1>3, <2>1
<1>7. X \in Seq(Nat) /\ Len(X) = Len(J) /\ \A k \in 1 .. Len(J) : X[k] = xids[J[k]]
  <2>1. PICK m \in Nat : m = Len(J)
    BY <1>5
  <2>2. \A k \in 1 .. m : X[k] = xids[J[k]]
    BY <2>1
  <2>3. X = [k \in 1 .. m |-> X[k]]
    BY <2>1
  <2> HIDE DEF X
  <2>4. \A k \in 1 .. m : X[k] \in Nat
    BY <1>6, <2>1, <2>2
  <2>5. X \in Seq(Nat) /\ Len(X) = m
    BY <2>3, <2>4, MadeSeq
  <2> QED BY <2>1, <2>2, <2>5
<1> HIDE DEF X
<1>8. /\ codes'[l] \in Seq(T) /\ Len(codes'[l]) = Len(codes[l]) + Len(J)
      /\ \A k \in 1 .. Len(codes[l]) : codes'[l][k] = codes[l][k]
      /\ \A k \in 1 .. Len(J) : codes'[l][Len(codes[l]) + k] = J[k]
  BY <1>2, <1>5, TwoParts
<1>9. /\ ids'[l] \in Seq(Nat) /\ Len(ids'[l]) = Len(codes[l]) + Len(J)
      /\ \A k \in 1 .. Len(codes[l]) : ids'[l][k] = ids[l][k]
      /\ \A k \in 1 .. Len(J) : ids'[l][Len(codes[l]) + k] = X[k]
  <2>1. /\ ids[l] \o X \in Seq(Nat) /\ Len(ids[l] \o X) = Len(ids[l]) + Len(X)
        /\ \A k \in 1 .. Len(ids[l]) : (ids[l] \o X)[k] = ids[l][k]
        /\ \A k \in 1 .. Len(X) : (ids[l] \o X)[Len(ids[l]) + k] = X[k]
    <3>1. PICK s \in Seq(Nat), t \in Seq(Nat) : s = ids[l] /\ t = X
      BY <1>7
    <3>2. /\ s \o t \in Seq(Nat) /\ Len(s \o t) = Len(s) + Len(t)
          /\ \A k \in 1 .. Len(s) : (s \o t)[k] = s[k]
          /\ \A k \in 1 .. Len(t) : (s \o t)[Len(s) + k] = t[k]
      BY TwoParts
    <3> QED BY <3>1, <3>2
  <2> QED BY <1>2, <1>7, <2>1
<1>10. ASSUME NEW j \in Len(codes[l]) + 1 .. Len(codes'[l])
       PROVE  codes'[l][j] \in V /\ ids'[l][j] = xids[codes'[l][j]]
  <2>1. PICK k \in 1 .. Len(J) : j = Len(codes[l]) + k
    <3>1. j - Len(codes[l]) \in 1 .. Len(J) /\ j = Len(codes[l]) + (j - Len(codes[l]))
      BY <1>5, <1>8
    <3> QED BY <3>1
  <2> QED BY <1>6, <1>7, <1>8, <1>9, <2>1
<1>11. Grown(l, V, xids)
  <2>1. Len(codes[l]) <= Len(codes'[l]) /\ Len(codes'[l]) = Len(ids'[l])
    BY <1>5, <1>8, <1>9
  <2>2. codes'[l] \in Seq(0 .. ntotal' - 1)
    BY <1>8 DEF T
  <2> QED BY <1>8, <1>9, <1>10, <2>1, <2>2 DEF Grown
<1>12. \A v : Has(codes'[l], v) <=> Has(codes[l], v) \/ Has(J, v)
  BY <1>2, <1>5, HasConcat
<1>13. \A v \in V : ~Has(codes[l], v)
  BY <1>4, WithinSeq
<1>14. \A v \in 0 .. ntotal - 1 : ~Has(J, v)
  BY <1>1, <1>4, WithinSeq
<1> QED BY <1>1, <1>11, <1>12, <1>13, <1>14 DEF V

LEMMA AddStep ==
  ASSUME IInv, AddWithIds PROVE IInv'
<1> USE DEF IInv
<1>1. /\ phase = "idle" /\ phase' = "added"
      /\ actual_batch_num' = actual_batch_num + 1
      /\ UNCHANGED <<options, info, inv_start, quantizer, graph, file, saved, buffers>>
  BY DEF AddWithIds
<1> DEFINE V(count) == ntotal .. ntotal + count - 1
<1>2. PICK count \in BatchSizes :
        /\ n' = count
        /\ \E lists_of \in [V(count) -> {S \in SUBSET Lists :
                                  S # {} /\ Cardinality(S) <= assign_replicas}],
              xids \in IF GivenIds = {} THEN {[v \in V(count) |-> v]}
                      ELSE {x \in [V(count) -> GivenIds \ Range(id_of)] : IsInjective(x)},
              by \in {quantizer, graph} :
             /\ codes' = [l \in Lists |-> codes[l] \o Joining(l, lists_of, count)]
             /\ ids' = [l \in Lists |->
                          ids[l] \o [k \in 1 .. Len(Joining(l, lists_of, count)) |->
                                       xids[Joining(l, lists_of, count)[k]]]]
             /\ home' = [v \in DOMAIN home \cup V(count) |->
                  IF v \in V(count) THEN {by[l] : l \in lists_of[v]} ELSE home[v]]
             /\ id_of' = [v \in DOMAIN id_of \cup V(count) |->
                  IF v \in V(count) THEN xids[v] ELSE id_of[v]]
             /\ ntotal' = ntotal + count
  BY DEF AddWithIds
<1>3. PICK lists_of \in [V(count) -> {S \in SUBSET Lists :
                            S # {} /\ Cardinality(S) <= assign_replicas}],
           xids \in IF GivenIds = {} THEN {[v \in V(count) |-> v]}
                   ELSE {x \in [V(count) -> GivenIds \ Range(id_of)] : IsInjective(x)},
           by \in {quantizer, graph} :
        /\ codes' = [l \in Lists |-> codes[l] \o Joining(l, lists_of, count)]
        /\ ids' = [l \in Lists |->
                     ids[l] \o [k \in 1 .. Len(Joining(l, lists_of, count)) |->
                                  xids[Joining(l, lists_of, count)[k]]]]
        /\ home' = [v \in DOMAIN home \cup V(count) |->
             IF v \in V(count) THEN {by[l] : l \in lists_of[v]} ELSE home[v]]
        /\ id_of' = [v \in DOMAIN id_of \cup V(count) |->
             IF v \in V(count) THEN xids[v] ELSE id_of[v]]
        /\ ntotal' = ntotal + count
  BY <1>2
<1>4. count \in Nat \ {0} /\ ntotal \in Nat /\ n' = count /\ ntotal' = ntotal + count
  BY <1>2, <1>3, LayoutAssumption DEF Counts
<1>5. /\ 0 .. ntotal' - 1 = (0 .. ntotal - 1) \cup V(count)
      /\ \A v \in V(count) : v \notin 0 .. ntotal - 1
      /\ \A v \in 0 .. ntotal - 1 : v \notin V(count)
      /\ \A v \in V(count) : v \in Nat /\ v >= ntotal' - n'
      /\ (ntotal' - n') - 1 = ntotal - 1
  BY <1>4
<1>6. xids \in [V(count) -> Nat] /\ (GivenIds = {} => \A v \in V(count) : xids[v] = v)
  <2>1. CASE GivenIds = {}
    BY <1>3, <1>5, <2>1
  <2>2. CASE GivenIds # {}
    BY <1>3, <2>2, LayoutAssumption
  <2> QED BY <2>1, <2>2
<1>7. by = quantizer /\ graph = quantizer
  BY <1>1, <1>3 DEF Centroids
<1>8. \A v \in V(count) : lists_of[v] \in SUBSET Lists /\ lists_of[v] # {}
  BY <1>3
<1> HIDE DEF V
<1>9. /\ codes' = [l \in Lists |-> codes[l] \o Joining(l, lists_of, count)]
      /\ ids' = [l \in Lists |->
                     ids[l] \o [k \in 1 .. Len(Joining(l, lists_of, count)) |->
                                  xids[Joining(l, lists_of, count)[k]]]]
  BY <1>3
<1>10. ASSUME NEW l \in Lists
       PROVE  /\ Grown(l, V(count), xids)
              /\ \A v \in V(count) : Has(codes'[l], v) <=> l \in lists_of[v]
              /\ \A v \in 0 .. ntotal - 1 : Has(codes'[l], v) <=> Has(codes[l], v)
  <2>1. /\ codes[l] \in Seq(0 .. ntotal - 1) /\ ids[l] \in Seq(Nat)
        /\ Len(ids[l]) = Len(codes[l])
    BY DEF ListsOK
  <2>2. /\ codes'[l] = codes[l] \o Joining(l, lists_of, count)
        /\ ids'[l] = ids[l] \o [k \in 1 .. Len(Joining(l, lists_of, count)) |->
                                xids[Joining(l, lists_of, count)[k]]]
    BY <1>9
  <2> QED BY <1>4, <1>6, <2>1, <2>2, AddGrows DEF V
<1>11. home' = [v \in 0 .. ntotal' - 1 |->
             IF v \in V(count) THEN {quantizer[l] : l \in lists_of[v]} ELSE home[v]]
  BY <1>3, <1>5, <1>7 DEF Homes
<1>12. id_of' = [v \in 0 .. ntotal' - 1 |-> IF v \in V(count) THEN xids[v] ELSE id_of[v]]
  <2>1. DOMAIN id_of = 0 .. ntotal - 1
    BY DEF Ids
  <2> QED BY <1>3, <1>5, <2>1
<1>13. \A l \in Lists : len[l] = Len(codes[l])
  BY <1>1 DEF Sizes
<1>14. Counts'
  BY <1>1, <1>4 DEF Counts, options
<1>15. ListsOK'
  <2>1. ids' \in [Lists -> Seq(Nat)] /\ codes' \in [Lists -> Seq(0 .. ntotal' - 1)]
    BY <1>9, <1>10 DEF Grown
  <2> QED BY <1>1, <1>10, <2>1 DEF ListsOK, Grown, info
<1>16. Sizes'
  <2>1. \A l \in Lists : len[l] <= Len(codes'[l])
    BY <1>10, <1>13 DEF Grown
  <2>2. ASSUME actual_batch_num' = 1, NEW l \in Lists PROVE len[l] = 0
    <3>1. ntotal = 0
      BY <1>1, <2>2 DEF Counts
    <3>2. codes[l] \in Seq(0 .. 0 - 1)
      BY <3>1 DEF ListsOK
    <3>3. Len(codes[l]) \in Nat /\ \A j \in 1 .. Len(codes[l]) : codes[l][j] \in 0 .. 0 - 1
      BY <3>2
    <3>4. Len(codes[l]) = 0
      <4>1. CASE Len(codes[l]) # 0
        <5>1. 1 \in 1 .. Len(codes[l])
          BY <3>3, <4>1
        <5> QED BY <3>3, <5>1
      <4> QED BY <4>1
    <3> QED BY <1>13, <3>4
  <2> QED BY <1>1, <2>1, <2>2 DEF Sizes, IsFirst, info
<1>17. Centroids'
  BY <1>1, <1>7 DEF Centroids
<1>18. Homes'
  <2>1. ASSUME NEW l \in Lists, NEW v \in 0 .. ntotal' - 1
        PROVE  quantizer[l] \in home'[v] <=> Has(codes'[l], v)
    <3>1. CASE v \in V(count)
      <4>1. home'[v] = {quantizer[m] : m \in lists_of[v]}
        BY <1>11, <3>1
      <4>2. quantizer[l] \in home'[v] <=> l \in lists_of[v]
        BY <1>8, <3>1, <4>1 DEF Centroids
      <4> QED BY <1>10, <3>1, <4>2
    <3>2. CASE v \notin V(count)
      <4>1. v \in 0 .. ntotal - 1 /\ home'[v] = home[v]
        BY <1>5, <1>11, <3>2
      <4> QED BY <1>1, <1>10, <4>1 DEF Homes
    <3> QED BY <3>1, <3>2
  <2>2. ASSUME NEW v \in 0 .. ntotal' - 1 PROVE \E l \in Lists : Has(codes'[l], v)
    <3>1. CASE v \in V(count)
      BY <1>8, <1>10, <3>1
    <3>2. CASE v \notin V(count)
      BY <1>5, <1>10, <3>2 DEF Homes
    <3> QED BY <3>1, <3>2
  <2>3. DOMAIN home' = 0 .. ntotal' - 1
    BY <1>11
  <2> QED BY <1>1, <2>1, <2>2, <2>3 DEF Homes
<1>19. Ids'
  <2>1. /\ id_of' \in [0 .. ntotal' - 1 -> Nat]
        /\ GivenIds = {} => \A v \in 0 .. ntotal' - 1 : id_of'[v] = v
    BY <1>5, <1>6, <1>12 DEF Ids
  <2>2. ASSUME NEW l \in Lists PROVE FreshIds(l, len[l])'
    <3>1. ASSUME NEW j \in len[l] + 1 .. Len(codes'[l])
          PROVE  ids'[l][j] = id_of'[codes'[l][j]] /\ codes'[l][j] >= ntotal' - n'
      <4>1. codes'[l][j] \in V(count) /\ ids'[l][j] = xids[codes'[l][j]]
        BY <1>10, <1>13 DEF Grown
      <4>2. codes'[l][j] \in 0 .. ntotal' - 1 /\ codes'[l][j] >= ntotal' - n'
        BY <1>5, <4>1
      <4>3. id_of'[codes'[l][j]] = xids[codes'[l][j]]
        BY <1>12, <4>1, <4>2
      <4> QED BY <4>1, <4>2, <4>3
    <3> QED BY <1>1, <3>1 DEF FreshIds, info
  <2>3. ASSUME actual_batch_num' <= add_batch_num, NEW l \in Lists, NEW j \in 1 .. Len(codes'[l])
        PROVE  ids'[l][j] = id_of'[codes'[l][j]]
    <3>1. actual_batch_num < add_batch_num
      BY <1>1, <2>3 DEF Counts
    <3>2. Len(codes[l]) \in Nat /\ Len(codes'[l]) \in Nat
      BY <1>10 DEF ListsOK, Grown
    <3>3. CASE j \in 1 .. Len(codes[l])
      <4>1. ids[l][j] = id_of[codes[l][j]]
        BY <3>1, <3>3 DEF Ids
      <4>2. codes[l][j] \in 0 .. ntotal - 1
        <5>1. codes[l] \in Seq(0 .. ntotal - 1)
          BY DEF ListsOK
        <5> QED BY <3>3, <5>1, WithinSeq
      <4>3. codes'[l][j] = codes[l][j] /\ ids'[l][j] = ids[l][j]
        BY <1>10, <3>3 DEF Grown
      <4>4. id_of'[codes[l][j]] = id_of[codes[l][j]]
        BY <1>5, <1>12, <4>2
      <4> QED BY <4>1, <4>3, <4>4
    <3>4. CASE j \in Len(codes[l]) + 1 .. Len(codes'[l])
      BY <1>1, <1>13, <2>2, <3>4 DEF FreshIds, info
    <3> QED BY <3>2, <3>3, <3>4
  <2>4. /\ actual_batch_num' \in Nat /\ add_batch_num \in Nat /\ phase' = "added"
        /\ add_batch_num' = add_batch_num /\ len' = len
    BY <1>1 DEF Counts, options, info
  <2>5. \A l \in Lists : FreshIds(l, len[l])'
    BY <2>2
  <2>6. (actual_batch_num < add_batch_num \/ (IsLast /\ phase # "idle"))' =>
          actual_batch_num' <= add_batch_num
    BY <2>4 DEF IsLast
  <2>7. (actual_batch_num < add_batch_num \/ (IsLast /\ phase # "idle"))' =>
          \A l \in Lists : \A j \in 1 .. Len(codes'[l]) : ids'[l][j] = id_of'[codes'[l][j]]
    BY <2>3, <2>6
  <2> QED BY <2>1, <2>4, <2>5, <2>7 DEF Ids
<1>20. Files'
  <2>1. ASSUME NEW l \in Lists PROVE StoresList(file, l, page_start, len)'
    <3>1. StoresList(file, l, page_start, len)
      BY <1>1 DEF Files
    <3>2. \A j \in 1 .. len[l] : codes'[l][j] = codes[l][j]
      BY <1>10, <1>13 DEF Grown
    <3>3. len' = len /\ page_start' = page_start /\ file' = file
      BY <1>1 DEF info
    <3> QED BY <3>1, <3>2, <3>3 DEF StoresList, Right
  <2>2. actual_batch_num' # 1 => file \in Seq(Cells)
    BY <1>1 DEF Files, Counts
  <2> QED BY <1>1, <2>1, <2>2 DEF Files, Complete, IsFirst
<1>21. Buffers'
  BY <1>1 DEF Buffers
<1>22. Kept'
  <2>1. ASSUME GivenIds = {}, NEW v \in 0 .. ntotal - 1 PROVE Holds(file, v)
    <3>1. ntotal # 0
      BY <1>4, <2>1
    <3>2. file \in Seq(Cells)
      BY <1>1, <3>1 DEF Files, Counts
    <3>3. \A l \in Lists : StoresList(file, l, page_start, len)
      BY <1>1 DEF Files
    <3> QED BY <1>13, <2>1, <3>2, <3>3, StoredHolds
  <2>2. 0 .. (ntotal' - n') - 1 = 0 .. ntotal - 1
    BY <1>5
  <2>3. GivenIds = {} => \A v \in 0 .. (ntotal' - n') - 1 : Holds(file', v)
    BY <1>1, <2>1, <2>2
  <2> QED BY <1>1, <2>3 DEF Kept, Holds
<1>23. Appended'
  BY <1>1 DEF Appended
<1> QED BY <1>14, <1>15, <1>16, <1>17, <1>18, <1>19, <1>20, <1>21, <1>22, <1>23

LEMMA StartStep ==
  ASSUME IInv, StartRewrite PROVE IInv'
<1> USE DEF IInv
<1> DEFINE size == [l \in Lists |-> Len(ids[l])]
<1>1. /\ phase = "added" /\ phase' = "filling" /\ buffers' = <<>>
      /\ old_len' = len /\ old_start' = page_start /\ LayOut(size)
      /\ IsFirst => file' = file /\ saved' = saved
      /\ ~IsFirst => saved' = file
      /\ UNCHANGED <<options, lists, added, inv_start, quantizer, graph>>
  BY DEF StartRewrite, SetAside
<1>2. size \in [Lists -> Nat] /\ \A l \in Lists : size[l] = Len(codes[l])
  BY DEF ListsOK
<1> HIDE DEF size
<1>3. /\ len' = size /\ page_start' = [l \in Lists |-> Aligned(size, 0)[l]]
      /\ total_page' = Aligned(size, 0)[nlist + 1]
  BY <1>1 DEF LayOut
<1>4. /\ Aligned(size, 0) \in [1 .. nlist + 1 -> Nat]
      /\ Lists \subseteq 1 .. nlist + 1 /\ nlist + 1 \in 1 .. nlist + 1
  <2>1. Aligned(size, 0) \in [1 .. nlist + 1 -> Nat]
    BY <1>2, AlignedProps
  <2>2. Lists \subseteq 1 .. nlist + 1 /\ nlist + 1 \in 1 .. nlist + 1
    BY LayoutAssumption DEF Lists
  <2> QED BY <2>1, <2>2
<1>5. Counts'
  BY <1>1 DEF Counts, options, added
<1>6. ListsOK'
  <2>1. page_start' \in [Lists -> Nat] /\ total_page' \in Nat
    BY <1>3, <1>4
  <2> QED BY <1>1, <1>2, <1>3, <2>1 DEF ListsOK, lists, added
<1>7. Sizes'
  BY <1>1, <1>2, <1>3 DEF Sizes, IsFirst, lists, added
<1>8. Centroids'
  BY <1>1 DEF Centroids
<1>9. Homes'
  BY <1>1 DEF Homes, lists, added
<1>10. Ids'
  BY <1>1 DEF Ids, FreshIds, IsLast, options, lists, added
<1>11. Files'
  <2>1. Laid'
    BY <1>3 DEF Laid
  <2>2. (~IsFirst => saved \in Seq(Cells))'
    BY <1>1 DEF Files, IsFirst, added
  <2>3. ASSUME NEW l \in Lists PROVE StoresList(saved, l, old_start, old_len)'
    <3>1. CASE IsFirst
      BY <1>1, <3>1 DEF Sizes, StoresList
    <3>2. CASE ~IsFirst
      BY <1>1, <3>2 DEF Files, StoresList, Right, lists
    <3> QED BY <3>1, <3>2
  <2> QED BY <1>1, <2>1, <2>2, <2>3 DEF Files, Complete
<1>12. Buffers'
  <2>1. Len(buffers') = 0 /\ buffers' \in Seq(Seq(Cells))
    BY <1>1
  <2>2. \A l \in Lists : ~(l <= 0)
    BY DEF Lists
  <2> QED BY <1>1, <2>1, <2>2, LayoutAssumption DEF Buffers
<1>13. Kept'
  <2>1. CASE IsFirst
    <3>1. ntotal' = n' /\ n \in Nat
      BY <1>1, <2>1 DEF Counts, IsFirst, added
    <3>2. (0 .. ntotal - n - 1)' = {}
      BY <1>1, <3>1 DEF added
    <3> QED BY <1>1, <3>2 DEF Kept
  <2>2. CASE ~IsFirst
    BY <1>1, <2>2 DEF Kept, Holds, added
  <2> QED BY <2>1, <2>2
<1>14. Appended'
  BY <1>1 DEF Appended
<1> QED BY <1>5, <1>6, <1>7, <1>8, <1>9, <1>10, <1>11, <1>12, <1>13, <1>14

(* Sorting a list by a map keeps its entries.                              *)
LEMMA Reassigned ==
  ASSUME NEW T, NEW s \in Seq(T), NEW map, Permutes(map, 1 .. Len(s))
  PROVE  /\ Reassign(s, map) \in Seq(T) /\ Len(Reassign(s, map)) = Len(s)
         /\ \A j \in 1 .. Len(s) : map[j] \in 1 .. Len(s) /\ Reassign(s, map)[j] = s[map[j]]
         /\ \A v : Has(Reassign(s, map), v) <=> Has(s, v)
<1>1. Len(s) \in Nat /\ DOMAIN s = 1 .. Len(s) /\ \A j \in 1 .. Len(s) : s[j] \in T
  OBVIOUS
<1>2. /\ \A j \in 1 .. Len(s) : map[j] \in 1 .. Len(s)
      /\ \A k \in 1 .. Len(s) : \E j \in 1 .. Len(s) : map[j] = k
  BY DEF Permutes
<1>3. Reassign(s, map) = [j \in 1 .. Len(s) |-> s[map[j]]]
  BY <1>1 DEF Reassign
<1>4. /\ Reassign(s, map) \in Seq(T) /\ Len(Reassign(s, map)) = Len(s)
      /\ DOMAIN Reassign(s, map) = 1 .. Len(s)
  BY <1>1, <1>2, <1>3
<1>5. \A j \in 1 .. Len(s) : Reassign(s, map)[j] = s[map[j]]
  BY <1>3
<1>6. ASSUME NEW v PROVE Has(Reassign(s, map), v) <=> Has(s, v)
  <2>1. Has(Reassign(s, map), v) => Has(s, v)
    BY <1>1, <1>2, <1>4, <1>5 DEF Has
  <2>2. ASSUME Has(s, v) PROVE Has(Reassign(s, map), v)
    <3>1. PICK k \in 1 .. Len(s) : s[k] = v
      BY <1>1, <2>2 DEF Has
    <3>2. PICK j \in 1 .. Len(s) : map[j] = k
      BY <1>2
    <3> QED BY <1>4, <1>5, <3>1, <3>2 DEF Has
  <2> QED BY <2>1, <2>2
<1> QED BY <1>2, <1>4, <1>5, <1>6

(* What a round of the loop gathers for a list, before sorting it: the     *)
(* right cell for each entry.                                              *)
Gathered(l) ==
  CellsAt(saved, old_start[l], old_len[l]) \o
    [j \in 1 .. len[l] - old_len[l] |-> DataAt(ids[l][old_len[l] + j] - (ntotal - n))]

LEMMA GatheredRight ==
  ASSUME IInv, phase = "filling", NEW l \in Lists, Len(buffers) = l - 1
  PROVE  /\ Gathered(l) \in Seq(Cells) /\ Len(Gathered(l)) = len[l]
         /\ \A k \in 1 .. len[l] : Right(Gathered(l)[k], codes[l][k])
<1> USE DEF IInv
<1> DEFINE olds == CellsAt(saved, old_start[l], old_len[l])
           rest == len[l] - old_len[l]
           news == [j \in 1 .. rest |-> DataAt(ids[l][old_len[l] + j] - (ntotal - n))]
<1>1. /\ old_len[l] \in Nat /\ len[l] \in Nat /\ old_len[l] <= len[l]
      /\ len[l] = Len(codes[l]) /\ old_start[l] \in Nat
      /\ Len(ids[l]) = len[l] /\ ids[l] \in Seq(Nat) /\ codes[l] \in Seq(0 .. ntotal - 1)
  BY DEF Sizes, ListsOK
<1>2. rest \in Nat /\ old_len[l] + rest = len[l]
  BY <1>1
<1>3. l > Len(buffers)
  BY DEF Lists
<1>4. StoresList(saved, l, old_start, old_len)
  BY <1>3 DEF Files
<1>5. /\ olds \in Seq(Cells) /\ Len(olds) = old_len[l]
      /\ \A k \in 1 .. old_len[l] : Right(olds[k], codes[l][k])
  <2>1. olds = [j \in 1 .. old_len[l] |-> saved[old_start[l] * PageVectors + j]]
    BY DEF CellsAt
  <2>2. \A j \in 1 .. old_len[l] :
          Right(saved[old_start[l] * PageVectors + j], codes[l][j])
    BY <1>4 DEF StoresList
  <2>3. \A j \in 1 .. old_len[l] : saved[old_start[l] * PageVectors + j] \in Cells
    BY <2>2 DEF Right
  <2> HIDE DEF olds
  <2>4. olds \in Seq(Cells) /\ Len(olds) = old_len[l]
    <3>1. PICK m \in Nat : m = old_len[l]
      BY <1>1
    <3>2. /\ olds = [j \in 1 .. m |-> olds[j]]
          /\ \A j \in 1 .. m : olds[j] \in Cells
      BY <2>1, <2>3, <3>1
    <3>3. olds \in Seq(Cells) /\ Len(olds) = m
      BY <3>2, MadeSeq
    <3> QED BY <3>1, <3>3
  <2>5. \A k \in 1 .. old_len[l] : Right(olds[k], codes[l][k])
    BY <2>1, <2>2
  <2> QED BY <2>4, <2>5
<1>6. ASSUME NEW j \in 1 .. rest
      PROVE  Right(DataAt(ids[l][old_len[l] + j] - (ntotal - n)), codes[l][old_len[l] + j])
  <2>1. old_len[l] + j \in 1 .. len[l] /\ old_len[l] + j \in old_len[l] + 1 .. Len(codes[l])
    BY <1>1, <1>2, SMTT(20)
  <2>2. PICK i \in Nat, c \in 0 .. ntotal - 1 :
          i = ids[l][old_len[l] + j] /\ c = codes[l][old_len[l] + j]
    <3>1. /\ \A k \in 1 .. Len(ids[l]) : ids[l][k] \in Nat
          /\ \A k \in 1 .. Len(codes[l]) : codes[l][k] \in 0 .. ntotal - 1
      BY <1>1, WithinSeq
    <3>2. ids[l][old_len[l] + j] \in Nat /\ codes[l][old_len[l] + j] \in 0 .. ntotal - 1
      BY <1>1, <2>1, <3>1
    <3> QED BY <3>2
  <2>3. i = id_of[c] /\ c >= ntotal - n
    BY <1>3, <2>1, <2>2 DEF Ids, FreshIds
  <2>4. n \in Nat /\ ntotal \in Nat /\ n <= ntotal
    BY DEF Counts
  <2>5. DataAt(i - (ntotal - n)) \in Cells
    <3>1. CASE i - (ntotal - n) \in 0 .. n - 1
      <4>1. (ntotal - n) + (i - (ntotal - n)) \in Nat
        BY <2>4, <3>1
      <4> QED BY <2>4, <3>1, <4>1 DEF DataAt, Vector, Cells
    <3>2. CASE i - (ntotal - n) \notin 0 .. n - 1
      BY <3>2 DEF DataAt, Cells
    <3> QED BY <3>1, <3>2
  <2>6. GivenIds = {} => DataAt(i - (ntotal - n)) = Vector(c)
    <3> SUFFICES ASSUME GivenIds = {} PROVE DataAt(i - (ntotal - n)) = Vector(c)
      OBVIOUS
    <3>1. i = c
      BY <2>3 DEF Ids
    <3>2. i - (ntotal - n) \in 0 .. n - 1 /\ (ntotal - n) + (i - (ntotal - n)) = c
      BY <2>3, <2>4, <3>1
    <3> QED BY <3>2 DEF DataAt
  <2> QED BY <2>2, <2>5, <2>6 DEF Right
<1> HIDE DEF olds, rest
<1>7. news \in Seq(Cells) /\ Len(news) = rest
  <2>1. \A j \in 1 .. rest : DataAt(ids[l][old_len[l] + j] - (ntotal - n)) \in Cells
    BY <1>6 DEF Right
  <2> QED BY <1>2, <2>1
<1>8. \A j \in 1 .. rest : Right(news[j], codes[l][old_len[l] + j])
  BY <1>6
<1> HIDE DEF news
<1>9. Gathered(l) = olds \o news
  BY DEF Gathered, olds, news, rest
<1>10. /\ olds \o news \in Seq(Cells) /\ Len(olds \o news) = Len(olds) + Len(news)
       /\ \A k \in 1 .. Len(olds) : (olds \o news)[k] = olds[k]
       /\ \A k \in 1 .. Len(news) : (olds \o news)[Len(olds) + k] = news[k]
  <2>1. PICK s \in Seq(Cells), t \in Seq(Cells) : s = olds /\ t = news
    BY <1>5, <1>7
  <2>2. /\ s \o t \in Seq(Cells) /\ Len(s \o t) = Len(s) + Len(t)
        /\ \A k \in 1 .. Len(s) : (s \o t)[k] = s[k]
        /\ \A k \in 1 .. Len(t) : (s \o t)[Len(s) + k] = t[k]
    BY TwoParts
  <2> QED BY <2>1, <2>2
<1>11. ASSUME NEW k \in 1 .. len[l] PROVE Right(Gathered(l)[k], codes[l][k])
  <2>1. CASE k \in 1 .. old_len[l]
    BY <1>5, <1>9, <1>10, <2>1
  <2>2. CASE k \notin 1 .. old_len[l]
    <3>1. PICK j \in 1 .. rest : k = old_len[l] + j
      <4>1. k - old_len[l] \in 1 .. rest /\ k = old_len[l] + (k - old_len[l])
        BY <1>1, <1>2, <2>2, SMTT(20)
      <4> QED BY <4>1
    <3> QED BY <1>5, <1>7, <1>8, <1>9, <1>10, <3>1
  <2> QED BY <2>1, <2>2
<1> QED BY <1>2, <1>5, <1>7, <1>9, <1>10, <1>11

LEMMA FillMap ==
  ASSUME IInv, NEW l \in Lists, FillBuffer(l)
  PROVE  \E map : /\ Permutes(map, 1 .. len[l])
                  /\ buffers' = Append(buffers,
                       Padded([j \in 1 .. len[l] |-> Gathered(l)[map[j]]]))
                  /\ ids' = [ids EXCEPT ![l] = Reassign(ids[l], map)]
                  /\ codes' = [codes EXCEPT ![l] = Reassign(codes[l], map)]
<1> USE DEF IInv
<1> DEFINE count == IF IsFirst THEN 0 ELSE old_len[l]
           total == IF IsFirst THEN 0 ELSE ntotal - n
           all == CellsAt(saved, old_start[l], count) \o
                    [j \in 1 .. len[l] - count |-> DataAt(ids[l][count + j] - total)]
           clusters == len[l] \div IN_LIST_CLUSTER_RATIO
           Fill(a, map) ==
             /\ buffers' = Append(buffers, Padded([j \in 1 .. len[l] |-> a[map[j]]]))
             /\ ids' = [ids EXCEPT ![l] = Reassign(ids[l], map)]
             /\ codes' = [codes EXCEPT ![l] = Reassign(codes[l], map)]
<1>1. IF IsLast /\ in_list_clustering /\ clusters > 1
      THEN \E cluster \in [1 .. len[l] -> 1 .. clusters] : Fill(all, SortedBy(cluster))
      ELSE Fill(all, [j \in 1 .. len[l] |-> j])
  BY DEF FillBuffer
<1>2. count = old_len[l] /\ total = ntotal - n
  <2>1. phase = "filling"
    BY DEF FillBuffer
  <2>2. IsFirst => old_len[l] = 0
    BY <2>1 DEF Sizes
  <2>3. IsFirst => ntotal - n = 0
    BY DEF Counts, IsFirst
  <2> QED BY <2>2, <2>3
<1>3. all = Gathered(l)
  BY <1>2 DEF Gathered
<1> HIDE DEF all, clusters
<1>4. len[l] \in Nat
  BY DEF ListsOK
<1>5. CASE IsLast /\ in_list_clustering /\ clusters > 1
  <2>1. PICK cluster \in [1 .. len[l] -> 1 .. clusters] : Fill(all, SortedBy(cluster))
    BY <1>1, <1>5
  <2>2. cluster \in [1 .. len[l] -> Int]
    OBVIOUS
  <2>3. Permutes(SortedBy(cluster), 1 .. len[l])
    <3>1. PICK m \in Nat : m = len[l]
      BY <1>4
    <3>2. cluster \in [1 .. m -> Int]
      BY <2>2, <3>1
    <3>3. Permutes(SortedBy(cluster), 1 .. m)
      BY <3>2, SortedPermutes
    <3> QED BY <3>1, <3>3
  <2> QED BY <1>3, <2>1, <2>3
<1>6. CASE ~(IsLast /\ in_list_clustering /\ clusters > 1)
  <2>1. Fill(all, [j \in 1 .. len[l] |-> j])
    BY <1>1, <1>6
  <2>2. Permutes([j \in 1 .. len[l] |-> j], 1 .. len[l])
    BY DEF Permutes
  <2> HIDE DEF Fill
  <2>3. \E map : Permutes(map, 1 .. len[l]) /\ Fill(Gathered(l), map)
    BY <1>3, <2>1, <2>2
  <2> QED BY <2>3 DEF Fill
<1> QED BY <1>5, <1>6

LEMMA FillStep ==
  ASSUME IInv, NEW l \in Lists, FillBuffer(l) PROVE IInv'
<1> USE DEF IInv
<1>1. /\ phase = "filling" /\ Len(buffers) = l - 1
      /\ UNCHANGED <<options, phase, added, info, inv_start, quantizer, graph, file, saved>>
  BY DEF FillBuffer
<1>2. PICK map :
        /\ Permutes(map, 1 .. len[l])
        /\ buffers' = Append(buffers, Padded([j \in 1 .. len[l] |-> Gathered(l)[map[j]]]))
        /\ ids' = [ids EXCEPT ![l] = Reassign(ids[l], map)]
        /\ codes' = [codes EXCEPT ![l] = Reassign(codes[l], map)]
  BY FillMap
<1>3. /\ len[l] \in Nat /\ len[l] = Len(codes[l]) /\ Len(ids[l]) = len[l]
      /\ ids[l] \in Seq(Nat) /\ codes[l] \in Seq(0 .. ntotal - 1)
  BY <1>1 DEF Sizes, ListsOK
<1>4. PICK s \in Seq(Nat), c \in Seq(0 .. ntotal - 1), size \in Nat :
        s = ids[l] /\ c = codes[l] /\ size = len[l]
  BY <1>3
<1>5. /\ ids'[l] \in Seq(Nat) /\ Len(ids'[l]) = len[l]
      /\ \A j \in 1 .. len[l] : map[j] \in 1 .. len[l] /\ ids'[l][j] = ids[l][map[j]]
  <2>1. /\ Reassign(s, map) \in Seq(Nat) /\ Len(Reassign(s, map)) = Len(s)
        /\ \A j \in 1 .. Len(s) : map[j] \in 1 .. Len(s) /\ Reassign(s, map)[j] = s[map[j]]
    <3>1. Permutes(map, 1 .. Len(s))
      BY <1>2, <1>3, <1>4
    <3> HIDE DEF IInv
    <3> QED BY <3>1, Reassigned
  <2>2. ids'[l] = Reassign(s, map)
    BY <1>2, <1>4 DEF ListsOK
  <2>3. len[l] = Len(s) /\ ids[l] = s
    BY <1>3, <1>4
  <2> HIDE DEF IInv
  <2> QED BY <2>1, <2>2, <2>3
<1>6. /\ codes'[l] \in Seq(0 .. ntotal - 1) /\ Len(codes'[l]) = len[l]
      /\ \A j \in 1 .. len[l] : codes'[l][j] = codes[l][map[j]]
      /\ \A v : Has(codes'[l], v) <=> Has(codes[l], v)
  <2>1. /\ Reassign(c, map) \in Seq(0 .. ntotal - 1) /\ Len(Reassign(c, map)) = Len(c)
        /\ \A j \in 1 .. Len(c) : map[j] \in 1 .. Len(c) /\ Reassign(c, map)[j] = c[map[j]]
        /\ \A v : Has(Reassign(c, map), v) <=> Has(c, v)
    <3>1. Permutes(map, 1 .. Len(c))
      BY <1>2, <1>3, <1>4
    <3> HIDE DEF IInv
    <3> QED BY <3>1, Reassigned
  <2>2. codes'[l] = Reassign(c, map)
    BY <1>2, <1>4 DEF ListsOK
  <2>3. len[l] = Len(c) /\ codes[l] = c
    BY <1>3, <1>4
  <2> HIDE DEF IInv
  <2> QED BY <2>1, <2>2, <2>3
<1>7. /\ DOMAIN ids' = Lists /\ DOMAIN codes' = Lists
      /\ ids' = [m \in Lists |-> ids'[m]] /\ codes' = [m \in Lists |-> codes'[m]]
      /\ \A m \in Lists : m # l => ids'[m] = ids[m] /\ codes'[m] = codes[m]
  BY <1>2 DEF ListsOK
<1>8. \A m \in Lists : \A v : Has(codes'[m], v) <=> Has(codes[m], v)
  BY <1>6, <1>7
<1>9. Counts'
  BY <1>1 DEF Counts, options, added
<1>10. ListsOK'
  <2>1. ids' \in [Lists -> Seq(Nat)] /\ codes' \in [Lists -> Seq(0 .. ntotal - 1)]
    BY <1>5, <1>6, <1>7 DEF ListsOK
  <2>2. \A m \in Lists : Len(ids'[m]) = Len(codes'[m])
    BY <1>5, <1>6, <1>7 DEF ListsOK
  <2> QED BY <1>1, <2>1, <2>2 DEF ListsOK, added, info
<1>11. \A m \in Lists : Len(codes'[m]) = Len(codes[m])
  BY <1>3, <1>6, <1>7
<1>12. Sizes'
  BY <1>1, <1>11 DEF Sizes, IsFirst, info, added
<1>13. Centroids'
  BY <1>1 DEF Centroids
<1>14. Homes'
  BY <1>1, <1>8 DEF Homes, added
<1> DEFINE filled == [j \in 1 .. len[l] |-> Gathered(l)[map[j]]]
<1>15. /\ filled \in Seq(Cells) /\ Len(filled) = len[l]
       /\ \A j \in 1 .. len[l] : Right(filled[j], codes'[l][j])
  <2>1. /\ Gathered(l) \in Seq(Cells) /\ Len(Gathered(l)) = len[l]
        /\ \A k \in 1 .. len[l] : Right(Gathered(l)[k], codes[l][k])
    BY <1>1, GatheredRight
  <2>2. \A j \in 1 .. len[l] : Right(Gathered(l)[map[j]], codes'[l][j])
    BY <1>5, <1>6, <2>1
  <2>3. \A j \in 1 .. len[l] : Right(filled[j], codes'[l][j])
    BY <2>2
  <2>4. \A j \in 1 .. size : filled[j] \in Cells
    BY <1>4, <2>3 DEF Right
  <2>5. filled = [j \in 1 .. size |-> filled[j]]
    BY <1>4
  <2> HIDE DEF filled
  <2>6. filled \in Seq(Cells) /\ Len(filled) = size
    BY <2>4, <2>5, MadeSeq
  <2> QED BY <1>4, <2>3, <2>6
<1>16. buffers' = Append(buffers, Padded(filled))
  BY <1>2
<1> HIDE DEF filled
<1>17. /\ Padded(filled) \in Seq(Cells)
       /\ Len(Padded(filled)) = PageCount(len[l]) * PageVectors
       /\ \A j \in 1 .. len[l] : Right(Padded(filled)[j], codes'[l][j])
  <2>1. /\ Padded(filled) \in Seq(Cells)
        /\ Len(Padded(filled)) = PageCount(Len(filled)) * PageVectors
        /\ \A j \in 1 .. Len(filled) : Padded(filled)[j] = filled[j]
    BY <1>15, PaddedProps
  <2> QED BY <1>15, <2>1
<1>18. /\ buffers' \in Seq(Seq(Cells)) /\ Len(buffers') = l
       /\ buffers'[l] = Padded(filled)
       /\ \A m \in Lists : m < l => buffers'[m] = buffers[m]
  <2>1. buffers \in Seq(Seq(Cells)) /\ l \in Nat /\ l >= 1
    BY DEF Buffers, Lists
  <2>2. PICK b \in Seq(Seq(Cells)), x \in Seq(Cells) : b = buffers /\ x = Padded(filled)
    BY <1>17, <2>1
  <2>3. /\ Append(b, x) \in Seq(Seq(Cells)) /\ Len(Append(b, x)) = Len(b) + 1
        /\ Append(b, x)[Len(b) + 1] = x
        /\ \A m \in 1 .. Len(b) : Append(b, x)[m] = b[m]
    OBVIOUS
  <2>4. Len(b) = l - 1 /\ Len(b) + 1 = l
    BY <1>1, <2>1, <2>2
  <2>5. \A m \in Lists : m < l => m \in 1 .. Len(b)
    BY <2>1, <2>4 DEF Lists
  <2> QED BY <1>16, <2>2, <2>3, <2>4, <2>5
<1>20. \A m \in Lists : m > l => m # l /\ m > Len(buffers)
  BY <1>1 DEF Lists
<1>21. Ids'
  <2>1. ASSUME IsLast \/ actual_batch_num < add_batch_num,
               NEW m \in Lists, NEW j \in 1 .. Len(codes'[m])
        PROVE  ids'[m][j] = id_of[codes'[m][j]]
    <3>1. \A k \in 1 .. Len(codes[m]) : ids[m][k] = id_of[codes[m][k]]
      BY <1>1, <2>1 DEF Ids
    <3>2. CASE m = l
      <4>1. j \in 1 .. len[l] /\ map[j] \in 1 .. Len(codes[l])
        BY <1>3, <1>5, <1>6, <3>2
      <4>2. ids[l][map[j]] = id_of[codes[l][map[j]]]
        BY <3>1, <3>2, <4>1
      <4>3. ids'[l][j] = ids[l][map[j]] /\ codes'[l][j] = codes[l][map[j]]
        BY <1>5, <1>6, <4>1
      <4> QED BY <3>2, <4>2, <4>3
    <3>3. CASE m # l
      BY <1>7, <3>1, <3>3
    <3> QED BY <3>2, <3>3
  <2>2. ASSUME NEW m \in Lists, m > l PROVE FreshIds(m, old_len[m])'
    <3>1. FreshIds(m, old_len[m])
      BY <1>1, <1>20, <2>2 DEF Ids
    <3>2. ids'[m] = ids[m] /\ codes'[m] = codes[m]
      BY <1>7, <1>20, <2>2
    <3> QED BY <1>1, <3>1, <3>2 DEF FreshIds, added, info
  <2>3. /\ id_of' = id_of /\ ntotal' = ntotal /\ phase' = "filling"
        /\ actual_batch_num' = actual_batch_num /\ add_batch_num' = add_batch_num
    BY <1>1 DEF added, options
  <2>4. \A m \in Lists : m > Len(buffers') => FreshIds(m, old_len[m])'
    BY <1>18, <2>2
  <2>5. id_of \in [0 .. ntotal - 1 -> Nat]
    BY DEF Ids
  <2>6. GivenIds = {} => \A v \in 0 .. ntotal - 1 : id_of[v] = v
    BY DEF Ids
  <2>7. (actual_batch_num < add_batch_num \/ (IsLast /\ phase # "idle"))' =>
          \A m \in Lists : \A j \in 1 .. Len(codes'[m]) : ids'[m][j] = id_of[codes'[m][j]]
    BY <2>1, <2>3 DEF IsLast
  <2> QED BY <2>3, <2>4, <2>5, <2>6, <2>7 DEF Ids
<1>22. Files'
  <2>1. ASSUME NEW m \in Lists, m > l PROVE StoresList(saved, m, old_start, old_len)'
    <3>1. StoresList(saved, m, old_start, old_len)
      BY <1>1, <1>20, <2>1 DEF Files
    <3>2. codes'[m] = codes[m]
      BY <1>7, <1>20, <2>1
    <3> QED BY <1>1, <3>1, <3>2 DEF StoresList, Right, info
  <2>2. \A m \in Lists : m > Len(buffers') => StoresList(saved, m, old_start, old_len)'
    BY <1>18, <2>1
  <2>3. Laid' /\ (~IsFirst => saved \in Seq(Cells))'
    BY <1>1 DEF Files, Laid, IsFirst, info, added
  <2> QED BY <1>1, <2>2, <2>3 DEF Files, Complete
<1>23. Buffers'
  <2>1. ASSUME NEW m \in Lists, m <= l
        PROVE  /\ Len(buffers'[m]) = PageCount(len[m]) * PageVectors
               /\ \A j \in 1 .. len[m] : Right(buffers'[m][j], codes'[m][j])
    <3>1. CASE m = l
      BY <1>17, <1>18, <3>1
    <3>2. CASE m # l
      <4>1. m < l /\ m <= Len(buffers)
        BY <1>1, <2>1, <3>2 DEF Lists
      <4> QED BY <1>1, <1>7, <1>18, <3>2, <4>1 DEF Buffers
    <3> QED BY <3>1, <3>2
  <2>2. l <= nlist
    BY DEF Lists
  <2> QED BY <1>1, <1>18, <2>1, <2>2 DEF Buffers, Right, info
<1>24. Kept'
  BY <1>1 DEF Kept, Holds, added
<1>25. Appended'
  BY <1>1 DEF Appended
<1> QED BY <1>9, <1>10, <1>12, <1>13, <1>14, <1>21, <1>22, <1>23, <1>24, <1>25

LEMMA WriteStep ==
  ASSUME IInv, WriteLists PROVE IInv'
<1> USE DEF IInv
<1>1. /\ phase = "filling" /\ phase' = "written" /\ Len(buffers) = nlist
      /\ file' = FlattenSeq(buffers)
      /\ UNCHANGED <<options, lists, added, info, inv_start, quantizer, graph, saved, buffers>>
  BY DEF WriteLists
<1>2. len \in [Lists -> Nat] /\ \A l \in Lists : len[l] = Len(codes[l])
  BY <1>1 DEF ListsOK, Sizes
<1>3. Blocks(buffers, len)
  <2>1. DOMAIN buffers = Lists /\ buffers \in [Lists -> Seq(Cells)]
    BY <1>1 DEF Buffers, Lists
  <2>2. \A l \in Lists : l <= Len(buffers)
    BY <1>1 DEF Lists
  <2> QED BY <1>1, <2>1, <2>2 DEF Blocks, Buffers
<1>4. PICK b \in [Lists -> Seq(Cells)], size \in [Lists -> Nat] :
        b = buffers /\ size = len /\ Blocks(b, size)
  BY <1>2, <1>3 DEF Blocks
<1>5. /\ FlattenSeq(b) \in Seq(Cells)
      /\ 0 * PageVectors + Len(FlattenSeq(b)) = Aligned(size, 0)[nlist + 1] * PageVectors
      /\ \A l \in Lists : \A j \in 1 .. Len(b[l]) :
           \E i \in 1 .. Len(FlattenSeq(b)) :
             /\ Aligned(size, 0)[l] * PageVectors + j = 0 * PageVectors + i
             /\ FlattenSeq(b)[i] = b[l][j]
  <2> HIDE DEF IInv
  <2>1. 0 \in Nat /\ Blocks(b, size)
    BY <1>4
  <2>2. Located(b, size, 0)
    BY <2>1, BlocksFound
  <2> QED BY <2>2 DEF Located
<1>6. 0 * PageVectors = 0 /\ \A i \in Int : 0 + i = i
  BY LayoutAssumption
<1>7. Laid
  BY <1>1 DEF Files
<1>8. file' \in Seq(Cells) /\ Len(file') = total_page * PageVectors
  BY <1>1, <1>4, <1>5, <1>6, <1>7 DEF Laid
<1>9. ASSUME NEW l \in Lists PROVE StoresList(file, l, page_start, len)'
  <2>1. ASSUME NEW j \in 1 .. len[l]
        PROVE  /\ page_start[l] * PageVectors + j \in DOMAIN file'
               /\ Right(file'[page_start[l] * PageVectors + j], codes[l][j])
    <3>1. l <= Len(buffers)
      BY <1>1 DEF Lists
    <3>2. /\ Len(buffers[l]) = PageCount(len[l]) * PageVectors
          /\ Right(buffers[l][j], codes[l][j])
      BY <1>1, <3>1, <2>1 DEF Buffers
    <3>3. j \in 1 .. Len(b[l])
      <4>1. len[l] \in Nat
        BY <1>2
      <4>2. len[l] <= Len(b[l]) /\ Len(b[l]) \in Nat
        BY <1>4, <3>2, <4>1, PageCountHolds
      <4> QED BY <4>1, <4>2
    <3>4. PICK i \in 1 .. Len(FlattenSeq(b)) :
             /\ Aligned(size, 0)[l] * PageVectors + j = 0 * PageVectors + i
             /\ FlattenSeq(b)[i] = b[l][j]
      BY <1>5, <3>3
    <3>5. Aligned(size, 0)[l] = page_start[l]
      BY <1>4, <1>7 DEF Laid
    <3>6. page_start[l] * PageVectors + j = i
      BY <1>6, <3>4, <3>5
    <3>7. i \in DOMAIN file' /\ file'[i] = buffers[l][j]
      BY <1>1, <1>4, <1>5, <3>4
    <3> QED BY <3>2, <3>6, <3>7
  <2> QED BY <1>1, <2>1 DEF StoresList, Right, info, lists
<1>10. Counts'
  BY <1>1 DEF Counts, options, added
<1>11. ListsOK'
  BY <1>1 DEF ListsOK, lists, added, info
<1>12. Sizes'
  BY <1>1 DEF Sizes, lists, info
<1>13. Centroids'
  BY <1>1 DEF Centroids
<1>14. Homes'
  BY <1>1 DEF Homes, lists, added
<1>15. Ids'
  BY <1>1 DEF Ids, IsLast, options, lists, added
<1>16. Files'
  BY <1>1, <1>7, <1>8, <1>9 DEF Files, Laid, Complete, info
<1>17. Buffers'
  BY <1>1 DEF Buffers
<1>18. Kept'
  BY <1>1 DEF Kept
<1>19. Appended'
  BY <1>1 DEF Appended
<1> QED BY <1>10, <1>11, <1>12, <1>13, <1>14, <1>15, <1>16, <1>17, <1>18, <1>19

LEMMA RemoveStep ==
  ASSUME IInv, RemoveSaved PROVE IInv'
<1> USE DEF IInv
<1>1. /\ phase = "written" /\ phase' \in {"ordering", "finishing"}
      /\ buffers' = <<>>
      /\ UNCHANGED <<options, lists, added, info, inv_start, quantizer, graph, file>>
  BY DEF RemoveSaved
<1>2. Counts'
  BY <1>1 DEF Counts, options, added
<1>3. ListsOK'
  BY <1>1 DEF ListsOK, lists, added, info
<1>4. Sizes'
  BY <1>1 DEF Sizes, lists, info
<1>5. Centroids'
  BY <1>1 DEF Centroids
<1>6. Homes'
  BY <1>1 DEF Homes, lists, added
<1>7. Ids'
  BY <1>1 DEF Ids, IsLast, options, lists, added
<1>8. Files'
  BY <1>1 DEF Files, Laid, Complete, StoresList, Right, info, lists
<1>9. Buffers'
  BY <1>1 DEF Buffers
<1>10. Kept' /\ Appended'
  BY <1>1 DEF Kept, Appended
<1> QED BY <1>2, <1>3, <1>4, <1>5, <1>6, <1>7, <1>8, <1>9, <1>10

LEMMA TrainStep ==
  ASSUME IInv, TrainGraph PROVE IInv'
<1> USE DEF IInv
<1>1. /\ phase = "ordered" /\ phase' = "finishing" /\ graph' = quantizer
      /\ UNCHANGED <<options, lists, added, info, inv_start, quantizer, file, buffers>>
  BY DEF TrainGraph
<1>2. Counts'
  BY <1>1 DEF Counts, options, added
<1>3. ListsOK'
  BY <1>1 DEF ListsOK, lists, added, info
<1>4. Sizes'
  BY <1>1 DEF Sizes, lists, info
<1>5. Centroids'
  BY <1>1 DEF Centroids
<1>6. Homes'
  BY <1>1 DEF Homes, lists, added
<1>7. Ids'
  BY <1>1 DEF Ids, IsLast, options, lists, added
<1>8. Files'
  BY <1>1 DEF Files, Laid, Complete, StoresList, Right, info, lists
<1>9. Buffers'
  BY <1>1 DEF Buffers
<1>10. Kept' /\ Appended'
  BY <1>1 DEF Kept, Appended
<1> QED BY <1>2, <1>3, <1>4, <1>5, <1>6, <1>7, <1>8, <1>9, <1>10

(* The order of the centroids is a permutation of the lists.               *)
LEMMA OrdersPermute ==
  ASSUME NEW map \in Orders
  PROVE  Permutes(map, Lists)
<1>1. IsFiniteSet(Lists)
  BY LayoutAssumption, FS_Interval DEF Lists
<1>2. map \in [Lists -> Lists] /\ \A i, j \in Lists : map[i] = map[j] => i = j
  BY DEF Orders
<1> QED BY <1>1, <1>2, InjectionPermutes

(* The pages of a list lie inside the file.                                *)
LEMMA PagesInside ==
  ASSUME IInv, Complete, NEW l \in Lists,
         NEW j \in 1 .. PageCount(len[l]) * PageVectors
  PROVE  page_start[l] * PageVectors + j \in DOMAIN file
<1> USE DEF IInv
<1>1. len \in [Lists -> Nat]
  BY DEF ListsOK
<1>2. PICK size \in [Lists -> Nat] : size = len
  BY <1>1
<1>3. /\ file \in Seq(Cells) /\ Len(file) = total_page * PageVectors /\ Laid
  BY DEF Files
<1>4. /\ Aligned(size, 0) \in [1 .. nlist + 1 -> Nat]
      /\ Aligned(size, 0)[l + 1] = Aligned(size, 0)[l] + PageCount(size[l])
  BY AlignedProps
<1>5. Aligned(size, 0)[l + 1] <= Aligned(size, 0)[nlist + 1]
  BY AlignedGrows
<1>6. l \in 1 .. nlist + 1 /\ nlist + 1 \in 1 .. nlist + 1
  BY LayoutAssumption DEF Lists
<1>7. PICK p \in Nat, q \in Nat, t \in Nat :
        p = page_start[l] /\ q = PageCount(len[l]) /\ t = total_page /\ p + q <= t
  <2>1. page_start[l] = Aligned(size, 0)[l] /\ total_page = Aligned(size, 0)[nlist + 1]
    BY <1>2, <1>3 DEF Laid
  <2>2. page_start[l] \in Nat /\ total_page \in Nat
    BY <1>4, <1>6, <2>1
  <2>3. PageCount(len[l]) \in Nat
    BY <1>1, PageCountHolds
  <2>4. page_start[l] + PageCount(len[l]) <= total_page
    BY <1>2, <1>4, <1>5, <2>1
  <2> QED BY <2>2, <2>3, <2>4
<1>8. /\ PageVectors \in Nat /\ p * PageVectors \in Nat /\ q * PageVectors \in Nat
      /\ t * PageVectors \in Nat
      /\ t * PageVectors = (p + q) * PageVectors + (t - (p + q)) * PageVectors
      /\ (p + q) * PageVectors = p * PageVectors + q * PageVectors
      /\ t - (p + q) \in Nat
      /\ (t - (p + q)) * PageVectors \in Nat
  <2>1. PageVectors \in Nat /\ t - (p + q) \in Nat
    BY <1>7, LayoutAssumption
  <2>2. \A x \in Nat : x * PageVectors \in Nat
    BY <2>1
  <2>3. \A x, y \in Int : (x + y) * PageVectors = x * PageVectors + y * PageVectors
    BY <2>1
  <2>4. t = (p + q) + (t - (p + q)) /\ p + q \in Nat
    OBVIOUS
  <2> QED BY <2>1, <2>2, <2>3, <2>4
<1>9. j \in 1 .. q * PageVectors
  BY <1>7
<1>10. p * PageVectors + j \in 1 .. t * PageVectors
  <2> DEFINE a == p * PageVectors
             b == q * PageVectors
             c == t * PageVectors
             d == (t - (p + q)) * PageVectors
  <2>1. a \in Nat /\ b \in Nat /\ c \in Nat /\ d \in Nat /\ c = (a + b) + d /\ j \in 1 .. b
    BY <1>8, <1>9
  <2> HIDE DEF a, b, c, d
  <2>2. a + j \in 1 .. c
    BY <2>1
  <2> QED BY <2>2 DEF a, c
<1>11. DOMAIN file = 1 .. t * PageVectors
  BY <1>3, <1>7
<1> QED BY <1>7, <1>10, <1>11

LEMMA OrderStep ==
  ASSUME IInv, OrderCentroids PROVE IInv'
<1> USE DEF IInv
<1>1. /\ phase = "ordering"
      /\ UNCHANGED <<options, added, inv_start, graph, buffers>>
  BY DEF OrderCentroids
<1>2. PICK map \in Orders :
        /\ quantizer' = [l \in Lists |-> quantizer[map[l]]]
        /\ IF IsFirst
           THEN phase' = "failed" /\ UNCHANGED <<lists, info, file, saved>>
           ELSE /\ saved' = file
                /\ file' = FlattenSeq([l \in Lists |->
                     CellsAt(file, page_start[map[l]],
                             PageCount(len[map[l]]) * PageVectors)])
                /\ PermuteInvlists(map)
                /\ LayOut([l \in Lists |-> Len(ids'[l])])
                /\ phase' = "ordered"
                /\ UNCHANGED <<old_len, old_start>>
  BY DEF OrderCentroids
<1>3. /\ map \in [Lists -> Lists]
      /\ \A i, j \in Lists : map[i] = map[j] => i = j
      /\ \A m \in Lists : \E l \in Lists : map[l] = m
  BY OrdersPermute DEF Permutes
<1>4. Counts'
  BY <1>1, <1>2 DEF Counts, options, added
<1>5. Centroids'
  <2>1. /\ quantizer' \in [Lists -> Lists]
        /\ \A l \in Lists : quantizer'[l] = quantizer[map[l]]
    BY <1>2, <1>3 DEF Centroids
  <2>2. \A l, m \in Lists : quantizer'[l] = quantizer'[m] => l = m
    BY <1>3, <2>1 DEF Centroids
  <2> QED BY <1>1, <1>2, <2>1, <2>2 DEF Centroids
<1>6. Buffers'
  BY <1>1, <1>2 DEF Buffers
<1>7. Kept' /\ Appended'
  BY <1>1, <1>2 DEF Kept, Appended
<1>8. CASE IsFirst
  <2>1. phase' = "failed" /\ UNCHANGED <<lists, info, file, saved>>
    BY <1>2, <1>8
  <2>2. ListsOK' /\ Sizes'
    BY <1>1, <2>1 DEF ListsOK, Sizes, lists, added, info
  <2>3. Homes'
    BY <1>1, <2>1 DEF Homes, lists, added
  <2>4. Ids'
    BY <1>1, <2>1 DEF Ids, IsLast, options, lists, added
  <2>5. Files'
    BY <1>1, <2>1 DEF Files, Laid, Complete, StoresList, Right, info, lists
  <2> QED BY <1>4, <1>5, <1>6, <1>7, <2>2, <2>3, <2>4, <2>5
<1>9. CASE ~IsFirst
  <2> DEFINE size == [l \in Lists |-> Len(ids'[l])]
             cells == [l \in Lists |-> CellsAt(file, page_start[map[l]],
                             PageCount(len[map[l]]) * PageVectors)]
  <2>1. /\ file' = FlattenSeq(cells) /\ phase' = "ordered"
        /\ ids' = [l \in Lists |-> ids[map[l]]] /\ codes' = [l \in Lists |-> codes[map[l]]]
        /\ len' = size /\ page_start' = [l \in Lists |-> Aligned(size, 0)[l]]
        /\ total_page' = Aligned(size, 0)[nlist + 1]
        /\ UNCHANGED <<old_len, old_start>>
    BY <1>2, <1>9 DEF PermuteInvlists, LayOut
  <2>2. /\ len \in [Lists -> Nat] /\ page_start \in [Lists -> Nat]
        /\ \A l \in Lists : len[l] = Len(codes[l]) /\ Len(ids[l]) = len[l]
    BY <1>1 DEF ListsOK, Sizes
  <2>3. size \in [Lists -> Nat] /\ \A l \in Lists : size[l] = len[map[l]]
    <3>1. \A l \in Lists : map[l] \in Lists /\ Len(ids'[l]) = Len(ids[map[l]])
      BY <1>3, <2>1
    <3>2. \A l \in Lists : Len(ids'[l]) = len[map[l]] /\ len[map[l]] \in Nat
      BY <2>2, <3>1
    <3> QED BY <3>2
  <2> HIDE DEF size
  <2>4. \A l \in Lists : map[l] \in Lists /\ ids'[l] = ids[map[l]] /\ codes'[l] = codes[map[l]]
    BY <1>3, <2>1
  <2>5. ListsOK'
    <3>1. ids' \in [Lists -> Seq(Nat)] /\ codes' \in [Lists -> Seq(0 .. ntotal - 1)]
      BY <2>1, <2>4 DEF ListsOK
    <3>2. \A l \in Lists : Len(ids'[l]) = Len(codes'[l])
      BY <2>4 DEF ListsOK
    <3>3. /\ Aligned(size, 0) \in [1 .. nlist + 1 -> Nat]
      BY <2>3, AlignedProps
    <3>4. Lists \subseteq 1 .. nlist + 1 /\ nlist + 1 \in 1 .. nlist + 1
      BY LayoutAssumption DEF Lists
    <3>5. page_start' \in [Lists -> Nat] /\ total_page' \in Nat
      BY <2>1, <3>3, <3>4
    <3> QED BY <1>1, <2>1, <2>3, <3>1, <3>2, <3>5 DEF ListsOK, added
  <2>6. Sizes'
    BY <2>1, <2>2, <2>3, <2>4 DEF Sizes
  <2>7. Homes'
    <3>1. \A l \in Lists, v \in 0 .. ntotal - 1 :
            quantizer'[l] \in home[v] <=> Has(codes'[l], v)
      <4>1. \A l \in Lists, v \in 0 .. ntotal - 1 :
              quantizer[l] \in home[v] <=> Has(codes[l], v)
        BY <1>1 DEF Homes
      <4> QED BY <1>2, <2>4, <4>1
    <3>2. \A v \in 0 .. ntotal - 1 : \E l \in Lists : Has(codes'[l], v)
      <4> TAKE v \in 0 .. ntotal - 1
      <4>1. PICK m \in Lists : Has(codes[m], v)
        BY DEF Homes
      <4>2. PICK l \in Lists : map[l] = m
        BY <1>3
      <4> QED BY <2>4, <4>1, <4>2
    <3> QED BY <1>1, <3>1, <3>2 DEF Homes, added
  <2>8. Ids'
    <3>1. /\ id_of \in [0 .. ntotal - 1 -> Nat]
          /\ GivenIds = {} => \A v \in 0 .. ntotal - 1 : id_of[v] = v
      BY DEF Ids
    <3>2. ASSUME actual_batch_num < add_batch_num \/ IsLast
          PROVE  \A l \in Lists : \A j \in 1 .. Len(codes'[l]) : ids'[l][j] = id_of[codes'[l][j]]
      <4>1. \A l \in Lists : \A j \in 1 .. Len(codes[l]) : ids[l][j] = id_of[codes[l][j]]
        BY <1>1, <3>2 DEF Ids
      <4> QED BY <2>4, <4>1
    <3> QED BY <1>1, <2>1, <3>1, <3>2 DEF Ids, IsLast, added, options
  <2>9. ASSUME NEW l \in Lists
        PROVE  /\ cells[l] \in Seq(Cells)
               /\ Len(cells[l]) = PageCount(size[l]) * PageVectors
               /\ \A j \in 1 .. size[l] : j \in 1 .. Len(cells[l]) /\ Right(cells[l][j], codes'[l][j])
    <3>1. PICK m \in Lists : m = map[l] /\ size[l] = len[m] /\ codes'[l] = codes[m]
      BY <2>3, <2>4
    <3>2. PICK page \in Nat, k \in Nat, count \in Nat, f \in Seq(Cells) :
            /\ page = page_start[m] /\ k = len[m] /\ f = file
            /\ count = PageCount(len[m]) * PageVectors
      <4>1. file \in Seq(Cells)
        BY <1>1 DEF Files, Complete
      <4>2. PageCount(len[m]) * PageVectors \in Nat
        BY <2>2, PageCountHolds
      <4> QED BY <2>2, <4>1, <4>2
    <3>3. \A j \in 1 .. count : page * PageVectors + j \in DOMAIN f
      <4>1. Complete
        BY <1>1 DEF Complete
      <4> QED BY <3>2, <4>1, PagesInside
    <3>4. /\ CellsAt(f, page, count) \in Seq(Cells)
          /\ Len(CellsAt(f, page, count)) = count
          /\ \A j \in 1 .. count : CellsAt(f, page, count)[j] = f[page * PageVectors + j]
      BY <3>3, CellsAtProps
    <3>5. cells[l] = CellsAt(f, page, count)
      BY <3>1, <3>2
    <3>6. k <= count
      BY <2>2, <3>2, PageCountHolds
    <3>7. ASSUME NEW j \in 1 .. k PROVE Right(f[page * PageVectors + j], codes[m][j])
      <4>1. StoresList(file, m, page_start, len)
        BY <1>1 DEF Files
      <4> QED BY <3>2, <4>1 DEF StoresList
    <3>8. \A j \in 1 .. k : j \in 1 .. count
      BY <3>6
    <3> HIDE DEF cells
    <3> QED BY <3>1, <3>2, <3>4, <3>5, <3>7, <3>8
  <2>10. cells = [l \in Lists |-> cells[l]] /\ DOMAIN cells = Lists
    OBVIOUS
  <2> HIDE DEF cells
  <2>11. Blocks(cells, size)
    BY <2>9, <2>10 DEF Blocks
  <2>12. /\ FlattenSeq(cells) \in Seq(Cells)
         /\ 0 * PageVectors + Len(FlattenSeq(cells)) = Aligned(size, 0)[nlist + 1] * PageVectors
         /\ \A l \in Lists : \A j \in 1 .. Len(cells[l]) :
              \E i \in 1 .. Len(FlattenSeq(cells)) :
                /\ Aligned(size, 0)[l] * PageVectors + j = 0 * PageVectors + i
                /\ FlattenSeq(cells)[i] = cells[l][j]
    <3>1. Located(cells, size, 0)
      BY <2>3, <2>11, BlocksFound
    <3> QED BY <3>1 DEF Located
  <2>13. 0 * PageVectors = 0 /\ \A i \in Int : 0 + i = i
    BY LayoutAssumption
  <2>14. file' \in Seq(Cells) /\ Len(file') = total_page' * PageVectors
    BY <2>1, <2>12, <2>13
  <2>15. ASSUME NEW l \in Lists PROVE StoresList(file, l, page_start, len)'
    <3>1. ASSUME NEW j \in 1 .. size[l]
          PROVE  /\ page_start'[l] * PageVectors + j \in DOMAIN file'
                 /\ Right(file'[page_start'[l] * PageVectors + j], codes'[l][j])
      <4>1. PICK i \in 1 .. Len(FlattenSeq(cells)) :
              /\ Aligned(size, 0)[l] * PageVectors + j = 0 * PageVectors + i
              /\ FlattenSeq(cells)[i] = cells[l][j]
        BY <2>9, <2>12
      <4>2. page_start'[l] = Aligned(size, 0)[l]
        BY <2>1
      <4>3. page_start'[l] * PageVectors + j = i
        BY <2>13, <4>1, <4>2
      <4>4. i \in DOMAIN file' /\ file'[i] = cells[l][j]
        BY <2>1, <2>12, <4>1
      <4> QED BY <2>9, <4>3, <4>4
    <3> QED BY <2>1, <3>1 DEF StoresList, Right
  <2>16. Laid'
    BY <2>1 DEF Laid
  <2>17. Files'
    BY <2>1, <2>14, <2>15, <2>16 DEF Files, Complete
  <2> QED BY <1>4, <1>5, <1>6, <1>7, <2>5, <2>6, <2>7, <2>8, <2>17
<1> QED BY <1>8, <1>9

LEMMA FinishStep ==
  ASSUME IInv, FinishBatch PROVE IInv'
<1> USE DEF IInv
<1>1. /\ phase = "finishing" /\ phase' = "idle"
      /\ UNCHANGED <<options, codes, added, info, quantizer, graph, saved, buffers>>
  BY DEF FinishBatch
<1>2. /\ \A l \in Lists : len[l] = Len(codes[l]) /\ Len(ids[l]) = len[l] /\ len[l] \in Nat
      /\ \A l \in Lists : ids[l] \in Seq(Nat) /\ codes[l] \in Seq(0 .. ntotal - 1)
      /\ len \in [Lists -> Nat] /\ total_page \in Nat
  BY <1>1 DEF ListsOK, Sizes
<1>3. /\ file \in Seq(Cells) /\ Len(file) = total_page * PageVectors
      /\ \A l \in Lists : StoresList(file, l, page_start, len)
  BY <1>1 DEF Files, Complete
<1>4. Counts' /\ Centroids' /\ Buffers' /\ Kept'
  BY <1>1 DEF Counts, Centroids, Buffers, Kept, options, added
<1>5. Sizes' /\ Homes'
  BY <1>1 DEF Sizes, Homes, added, info
<1>6. CASE ~IsLast
  <2>1. UNCHANGED <<ids, inv_start, file>>
    BY <1>6 DEF FinishBatch
  <2>2. ListsOK'
    BY <1>1, <2>1 DEF ListsOK, added, info
  <2>3. Ids'
    BY <1>1, <1>6, <2>1 DEF Ids, IsLast, options, added
  <2>4. Files'
    BY <1>1, <1>3, <2>1 DEF Files, Complete, StoresList, Right, info
  <2>5. Appended'
    BY <1>1, <1>6 DEF Appended, IsLast, options, added
  <2> QED BY <1>4, <1>5, <2>2, <2>3, <2>4, <2>5
<1>7. CASE IsLast
  <2> DEFINE start == Aligned(len, total_page)
             entries(l) == [j \in DOMAIN ids[l] |-> Entry(ids'[l][j], codes[l][j])]
             cells == [l \in Lists |-> Padded(entries(l))]
  <2>1. /\ ids' = [l \in Lists |->
                     [j \in DOMAIN ids[l] |-> ids[l][j] * partition_num + order]]
        /\ inv_start' = [l \in Lists |-> start[l]]
        /\ file' = file \o FlattenSeq(cells)
    BY <1>7 DEF FinishBatch
  <2>2. ASSUME NEW l \in Lists
        PROVE  /\ ids'[l] \in Seq(Nat) /\ Len(ids'[l]) = len[l]
               /\ \A j \in 1 .. len[l] : ids'[l][j] = ids[l][j] * partition_num + order
    <3>1. PICK m \in Nat : m = len[l]
      BY <1>2
    <3>2. DOMAIN ids[l] = 1 .. m /\ \A j \in 1 .. m : ids[l][j] \in Nat
      BY <1>2, <3>1, WithinSeq
    <3>3. \A x \in Nat : x * partition_num + order \in Nat
      BY LayoutAssumption
    <3>4. ids'[l] = [j \in 1 .. m |-> ids[l][j] * partition_num + order]
      BY <2>1, <3>2
    <3>5. ids'[l] = [j \in 1 .. m |-> ids'[l][j]] /\ \A j \in 1 .. m : ids'[l][j] \in Nat
      BY <3>2, <3>3, <3>4
    <3>6. ids'[l] \in Seq(Nat) /\ Len(ids'[l]) = m
      BY <3>5, MadeSeq
    <3> QED BY <3>1, <3>4, <3>6
  <2>3. ASSUME NEW l \in Lists
        PROVE  /\ cells[l] \in Seq(Cells)
               /\ Len(cells[l]) = PageCount(len[l]) * PageVectors
               /\ \A j \in 1 .. len[l] : /\ j \in 1 .. Len(cells[l])
                                         /\ cells[l][j] = Entry(ids'[l][j], codes[l][j])
    <3> DEFINE s == entries(l)
    <3>1. PICK m \in Nat : m = len[l]
      BY <1>2
    <3>2. /\ DOMAIN ids[l] = 1 .. m
          /\ \A j \in 1 .. m : ids'[l][j] \in Nat /\ codes[l][j] \in Nat
      <4>1. /\ \A j \in 1 .. Len(ids'[l]) : ids'[l][j] \in Nat
        BY <2>2, WithinSeq
      <4>2. \A j \in 1 .. Len(codes[l]) : codes[l][j] \in 0 .. ntotal - 1
        BY <1>2, WithinSeq
      <4>3. ntotal \in Nat
        BY DEF Counts
      <4> QED BY <1>2, <2>2, <3>1, <4>1, <4>2, <4>3
    <3>3. s = [j \in 1 .. m |-> Entry(ids'[l][j], codes[l][j])]
      BY <3>2
    <3>4. \A i, c \in Nat : Entry(i, c) \in Cells
      BY DEF Entry, Cells
    <3>5. s = [j \in 1 .. m |-> s[j]] /\ \A j \in 1 .. m : s[j] \in Cells
      BY <3>2, <3>3, <3>4
    <3>6. s \in Seq(Cells) /\ Len(s) = m
      BY <3>5, MadeSeq
    <3>7. /\ Padded(s) \in Seq(Cells)
          /\ Len(Padded(s)) = PageCount(Len(s)) * PageVectors
          /\ \A j \in 1 .. Len(s) : Padded(s)[j] = s[j]
      BY <3>6, PaddedProps
    <3>8. cells[l] = Padded(s)
      OBVIOUS
    <3>9. \A j \in 1 .. m : j \in 1 .. Len(Padded(s))
      <4>1. m <= PageCount(m) * PageVectors /\ PageCount(m) * PageVectors \in Nat
        BY PageCountHolds
      <4> QED BY <3>6, <3>7, <4>1
    <3> HIDE DEF cells, s
    <3> QED BY <3>1, <3>3, <3>6, <3>7, <3>8, <3>9
  <2>4. cells = [l \in Lists |-> cells[l]]
    OBVIOUS
  <2> HIDE DEF cells, start
  <2>5. PICK size \in [Lists -> Nat], first \in Nat :
          size = len /\ first = total_page /\ start = Aligned(size, first) /\ Blocks(cells, size)
    BY <1>2, <2>3, <2>4 DEF Blocks, start
  <2>6. /\ FlattenSeq(cells) \in Seq(Cells)
        /\ first * PageVectors + Len(FlattenSeq(cells)) =
             Aligned(size, first)[nlist + 1] * PageVectors
        /\ \A l \in Lists : \A j \in 1 .. Len(cells[l]) :
             \E i \in 1 .. Len(FlattenSeq(cells)) :
               /\ Aligned(size, first)[l] * PageVectors + j = first * PageVectors + i
               /\ FlattenSeq(cells)[i] = cells[l][j]
    <3>1. Blocks(cells, size)
      BY <2>5
    <3>2. Located(cells, size, first)
      BY <3>1, BlocksFound
    <3> QED BY <3>2 DEF Located
  <2>7. /\ file' \in Seq(Cells)
        /\ \A k \in DOMAIN file : k \in DOMAIN file' /\ file'[k] = file[k]
        /\ \A i \in 1 .. Len(FlattenSeq(cells)) :
             file'[total_page * PageVectors + i] = FlattenSeq(cells)[i]
    <3>1. PICK f \in Seq(Cells), g \in Seq(Cells) : f = file /\ g = FlattenSeq(cells)
      BY <1>3, <2>6
    <3>2. /\ f \o g \in Seq(Cells) /\ Len(f \o g) = Len(f) + Len(g)
          /\ \A k \in 1 .. Len(f) : (f \o g)[k] = f[k]
          /\ \A k \in 1 .. Len(g) : (f \o g)[Len(f) + k] = g[k]
      BY TwoParts
    <3>3. /\ DOMAIN f = 1 .. Len(f) /\ DOMAIN (f \o g) = 1 .. Len(f) + Len(g)
          /\ Len(f) \in Nat /\ Len(g) \in Nat
      BY <3>2
    <3>4. \A k \in DOMAIN f : k \in DOMAIN (f \o g) /\ (f \o g)[k] = f[k]
      BY <3>2, <3>3
    <3> QED BY <1>3, <2>1, <3>1, <3>2, <3>4
  <2>8. ListsOK'
    <3>1. ids' \in [Lists -> Seq(Nat)]
      BY <2>1, <2>2
    <3> QED BY <1>1, <1>2, <2>2, <3>1 DEF ListsOK, added, info
  <2>9. Ids'
    <3>1. ~(actual_batch_num < add_batch_num)
      BY <1>7 DEF IsLast, Counts
    <3> QED BY <1>1, <3>1 DEF Ids, IsLast, options, added
  <2>10. Files'
    <3>1. ASSUME NEW l \in Lists PROVE StoresList(file, l, page_start, len)'
      BY <1>1, <1>3, <2>7 DEF StoresList, Right, info
    <3> QED BY <1>1, <2>7, <3>1 DEF Files, Complete
  <2>11. Appended'
    <3>1. ASSUME NEW l \in Lists, NEW j \in 1 .. len[l]
          PROVE  /\ file'[inv_start'[l] * PageVectors + j] =
                      Entry(id_of[codes[l][j]] * partition_num + order, codes[l][j])
                 /\ ids'[l][j] = id_of[codes[l][j]] * partition_num + order
      <4>1. ids[l][j] = id_of[codes[l][j]]
        BY <1>1, <1>2, <1>7 DEF Ids
      <4>2. ids'[l][j] = id_of[codes[l][j]] * partition_num + order
        BY <2>2, <4>1
      <4>3. PICK i \in 1 .. Len(FlattenSeq(cells)) :
              /\ Aligned(size, first)[l] * PageVectors + j = first * PageVectors + i
              /\ FlattenSeq(cells)[i] = cells[l][j]
        BY <2>3, <2>6
      <4>4. inv_start'[l] = Aligned(size, first)[l]
        BY <2>1, <2>5
      <4>5. inv_start'[l] * PageVectors + j = total_page * PageVectors + i
        BY <2>5, <4>3, <4>4
      <4>6. file'[inv_start'[l] * PageVectors + j] = cells[l][j]
        BY <2>7, <4>3, <4>5
      <4> QED BY <2>3, <4>2, <4>6
    <3> QED BY <1>1, <3>1 DEF Appended, added, info
  <2> QED BY <1>4, <1>5, <2>8, <2>9, <2>10, <2>11
<1> QED BY <1>6, <1>7

LEMMA NextIInv ==
  ASSUME IInv, [Next]_vars PROVE IInv'
<1>1. CASE AddWithIds
  BY <1>1, AddStep
<1>2. CASE StartRewrite
  BY <1>2, StartStep
<1>3. CASE \E l \in Lists : FillBuffer(l)
  BY <1>3, FillStep
<1>4. CASE WriteLists
  BY <1>4, WriteStep
<1>5. CASE RemoveSaved
  BY <1>5, RemoveStep
<1>6. CASE OrderCentroids
  BY <1>6, OrderStep
<1>7. CASE TrainGraph
  BY <1>7, TrainStep
<1>8. CASE FinishBatch
  BY <1>8, FinishStep
<1>9. CASE UNCHANGED vars
  <2> USE <1>9 DEF IInv, vars, options, lists, added, info
  <2>1. Counts' /\ ListsOK' /\ Sizes' /\ Centroids' /\ Homes'
    BY DEF Counts, ListsOK, Sizes, IsFirst, Centroids, Homes
  <2>2. Ids'
    BY DEF Ids, FreshIds, IsLast
  <2>3. Files'
    BY DEF Files, Complete, Laid, StoresList, Right, IsFirst
  <2>4. Buffers' /\ Kept' /\ Appended'
    BY DEF Buffers, Right, Kept, Holds, Appended, IsLast
  <2> QED BY <2>1, <2>2, <2>3, <2>4
<1> QED BY <1>1, <1>2, <1>3, <1>4, <1>5, <1>6, <1>7, <1>8, <1>9 DEF Next

THEOREM Invariant == Spec => []IInv
<1> QED BY InitIInv, NextIInv, PTL DEF Spec

(* Ids and codes of a list are of one length, and no list of a batch is    *)
(* shorter than before, so that len - old_len never wraps.                 *)
THEOREM TypeCorrect == Spec => []TypeOK
<1>1. IInv => TypeOK
  BY DEF IInv, TypeOK, Counts, ListsOK, Sizes, Centroids
<1> QED BY <1>1, Invariant, PTL

(* Quantizer, graph and lists number the centroids alike between batches.  *)
THEOREM CentroidsNumbered == Spec => []HomeLists
<1>1. IInv => HomeLists
  BY DEF IInv, HomeLists, Centroids, Homes, Has
<1> QED BY <1>1, Invariant, PTL

(* After the batch numbered add_batch_num every entry, in memory and in    *)
(* the lists appended to the file, has its vector's id, renumbered once.   *)
THEOREM EntriesAppended == Spec => []EntriesMatch
<1>1. ASSUME IInv PROVE EntriesMatch
  <2> SUFFICES ASSUME phase = "idle", actual_batch_num = add_batch_num, NEW l \in Lists
               PROVE  LET entries == [j \in 1 .. len[l] |->
                            Entry(id_of[codes[l][j]] * partition_num + order, codes[l][j])]
                      IN  /\ CellsAt(file, inv_start[l], len[l]) = entries
                          /\ \A j \in 1 .. len[l] : ids[l][j] = entries[j].id
    BY DEF EntriesMatch
  <2>1. \A j \in 1 .. len[l] :
          /\ file[inv_start[l] * PageVectors + j] =
               Entry(id_of[codes[l][j]] * partition_num + order, codes[l][j])
          /\ ids[l][j] = id_of[codes[l][j]] * partition_num + order
    BY <1>1 DEF IInv, Appended, IsLast
  <2>2. \A i, c : Entry(i, c).id = i
    BY DEF Entry
  <2> QED BY <2>1, <2>2 DEF CellsAt
<1> QED BY <1>1, Invariant, PTL

(* Without ids of the caller, the place of every entry in the file holds   *)
(* its vector between batches.                                             *)
THEOREM FileMatches ==
  ASSUME GivenIds = {} PROVE Spec => []DiskMatches
<1>1. ASSUME IInv PROVE DiskMatches
  <2> SUFFICES ASSUME phase = "idle", actual_batch_num > 0, NEW l \in Lists
               PROVE  /\ len[l] = Len(codes[l])
                      /\ CellsAt(file, page_start[l], len[l]) =
                         [j \in 1 .. len[l] |-> Vector(codes[l][j])]
    BY DEF DiskMatches
  <2>1. len[l] = Len(codes[l])
    BY <1>1 DEF IInv, Sizes
  <2>2. StoresList(file, l, page_start, len)
    BY <1>1 DEF IInv, Files
  <2>3. \A j \in 1 .. len[l] : file[page_start[l] * PageVectors + j] = Vector(codes[l][j])
    BY <1>1, <2>2 DEF StoresList, Right
  <2> QED BY <2>1, <2>3 DEF CellsAt
<1> QED BY <1>1, Invariant, PTL

(* Without ids of the caller, no step of a rewrite leaves a vector of an   *)
(* earlier batch, or once written of this one, in neither file.            *)
THEOREM NothingLost ==
  ASSUME GivenIds = {} PROVE Spec => []DataKept
<1>1. ASSUME IInv PROVE DataKept
  <2> USE DEF IInv
  <2>1. CASE phase = "added" \/ phase = "filling"
    BY <1>1, <2>1 DEF Kept, DataKept
  <2>2. CASE Complete \/ phase = "idle"
    <3>1. ntotal \in Nat /\ (0 .. ntotal - 0 - 1) = 0 .. ntotal - 1
      BY <1>1 DEF Counts
    <3>2. CASE ntotal = 0
      BY <2>2, <3>1, <3>2 DEF DataKept, Complete
    <3>3. CASE ntotal # 0
      <4>1. file \in Seq(Cells)
        BY <1>1, <2>2, <3>3 DEF Files, Counts
      <4>2. \A l \in Lists : len[l] = Len(codes[l]) /\ StoresList(file, l, page_start, len)
        BY <1>1, <2>2 DEF Files, Sizes, Complete
      <4>3. \A v \in 0 .. ntotal - 1 : Holds(file, v)
        BY <1>1, <4>1, <4>2, StoredHolds
      <4> QED BY <2>2, <3>1, <4>3 DEF DataKept, Complete
    <3> QED BY <3>2, <3>3
  <2> QED BY <1>1, <2>1, <2>2 DEF Counts, Complete
<1> QED BY <1>1, Invariant, PTL
=============================================================================
