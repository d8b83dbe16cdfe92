------------------------- MODULE PageRequestsProofs -------------------------
(***************************************************************************)
(* Proofs about PageRequests, for every page size, dimension, list size    *)
(* and gap, and every set of wanted vectors.                               *)
(***************************************************************************)
EXTENDS PageRequests, TLAPS

(* The geometry does not change.                                           *)
Geometry ==
  /\ stage \in {"full", "partial"} /\ metric \in {"L2", "IP"}
  /\ per_page_element \in Nat \ {0} /\ d \in Nat \ {0}
  /\ list_size \in Nat \ {0} /\ max_pages \in Nat \ {0}
  /\ wanted \subseteq 0 .. list_size - 1 /\ wanted # {}

-----------------------------------------------------------------------------
(* Division: quotient and remainder, and what they compare with.           *)
LEMMA DivMod ==
  ASSUME NEW a \in Nat, NEW b \in Nat \ {0}
  PROVE  /\ a \div b \in Nat /\ (a % b) \in 0 .. b - 1
         /\ a = b * (a \div b) + (a % b)
OBVIOUS

(* There is one quotient and one remainder.                                *)
LEMMA DivUnique ==
  ASSUME NEW b \in Nat \ {0}, NEW k \in Nat, NEW e \in 0 .. b - 1
  PROVE  (k * b + e) \div b = k /\ (k * b + e) % b = e
OBVIOUS

(* A quotient compares as the dividend does with the multiples.            *)
LEMMA DivLe ==
  ASSUME NEW a \in Nat, NEW b \in Nat \ {0}, NEW k \in Nat
  PROVE  /\ k <= a \div b <=> k * b <= a
         /\ a \div b < k <=> a < k * b
OBVIOUS

(* Multiples of one number are ordered like their factors.                 *)
LEMMA Monotone ==
  ASSUME NEW a \in Int, NEW b \in Int, NEW c \in Nat \ {0}
  PROVE  a <= b <=> a * c <= b * c
OBVIOUS

(* Products of naturals, and one more.                                     *)
LEMMA Product ==
  ASSUME NEW a \in Nat, NEW b \in Nat
  PROVE  a * b \in Nat /\ (a + 1) * b = a * b + b
OBVIOUS

(* Products distribute.                                                    *)
LEMMA Distribute ==
  ASSUME NEW a \in Int, NEW b \in Int, NEW c \in Int
  PROVE  (a + b) * c = a * c + b * c /\ (a - b) * c = a * c - b * c
OBVIOUS

(* The elements from one vector to the end of another.                     *)
LEMMA Stretch ==
  ASSUME NEW a \in Int, NEW b \in Int, NEW c \in Int
  PROVE  (a + 1 - b) * c = a * c + c - b * c
OBVIOUS

(* The pages of one vector: the first holds its first element, the last    *)
(* its last, and both are pages of the list.                               *)
LEMMA PagesOf ==
  ASSUME Geometry, NEW v \in 0 .. list_size - 1
  PROVE  /\ FirstPage(v) \in Nat /\ LastPage(v) \in Nat
         /\ FirstPage(v) * per_page_element <= v * d
         /\ v * d < (FirstPage(v) + 1) * per_page_element
         /\ LastPage(v) * per_page_element <= v * d + d - 1
         /\ v * d + d - 1 < (LastPage(v) + 1) * per_page_element
         /\ FirstPage(v) <= LastPage(v) /\ LastPage(v) < ListPages
         /\ ListPages \in Nat
<1> DEFINE p == per_page_element
           e == v * d + d - 1
<1>1. p \in Nat \ {0} /\ d \in Nat \ {0} /\ v \in Nat /\ v * d \in Nat /\ e \in Nat
      /\ v * d <= e
  BY Product DEF Geometry
<1>2. /\ FirstPage(v) \in Nat
      /\ FirstPage(v) * p <= v * d /\ v * d < (FirstPage(v) + 1) * p
  <2>1. FirstPage(v) = (v * d) \div p
    BY DEF FirstPage
  <2>2. (v * d) \div p \in Nat
    BY <1>1, DivMod
  <2> QED BY <1>1, <2>1, <2>2, DivLe
<1>3. /\ LastPage(v) \in Nat
      /\ LastPage(v) * p <= e /\ e < (LastPage(v) + 1) * p
  <2>1. LastPage(v) = e \div p
    BY DEF LastPage
  <2>2. e \div p \in Nat
    BY <1>1, DivMod
  <2> QED BY <1>1, <2>1, <2>2, DivLe
<1>4. FirstPage(v) <= LastPage(v)
  <2>1. FirstPage(v) * p <= e
    BY <1>1, <1>2
  <2>2. LastPage(v) = e \div p
    BY DEF LastPage
  <2> QED BY <1>1, <1>2, <2>1, <2>2, DivLe
<1>5. ListPages \in Nat /\ LastPage(v) + 1 <= ListPages
  <2>1. list_size \in Nat /\ list_size * d \in Nat /\ e + 1 <= list_size * d
    <3>1. v + 1 <= list_size
      BY DEF Geometry
    <3>2. (v + 1) * d <= list_size * d
      BY <1>1, <3>1, Monotone DEF Geometry
    <3>3. (v + 1) * d = v * d + d
      BY <1>1, Product
    <3> QED BY <1>1, <3>2, <3>3, Product DEF Geometry
  <2>2. list_size * d + p - 1 \in Nat
    BY <1>1, <2>1
  <2>3. (LastPage(v) + 1) * p <= list_size * d + p - 1
    <3>1. (LastPage(v) + 1) * p = LastPage(v) * p + p
      BY <1>1, <1>3, Product
    <3>2. LastPage(v) * p \in Nat
      BY <1>1, <1>3, Product
    <3> QED BY <1>1, <1>3, <2>1, <3>1, <3>2
  <2>4. ListPages = (list_size * d + p - 1) \div p
    BY DEF ListPages
  <2>5. ListPages \in Nat
    BY <1>1, <2>2, <2>4, DivMod
  <2>6. LastPage(v) + 1 \in Nat
    BY <1>3
  <2> HIDE DEF p, e
  <2>7. LastPage(v) + 1 <= (list_size * d + p - 1) \div p
    BY <1>1, <2>2, <2>3, <2>6, DivLe
  <2> QED BY <2>4, <2>5, <2>7
<1> QED BY <1>2, <1>3, <1>4, <1>5

(* Of two vectors the later one begins no earlier than the other ends.     *)
LEMMA PagesInOrder ==
  ASSUME Geometry, NEW v \in 0 .. list_size - 1, NEW w \in 0 .. list_size - 1, v < w
  PROVE  LastPage(v) <= FirstPage(w)
<1>1. per_page_element \in Nat \ {0} /\ d \in Nat \ {0} /\ v \in Nat /\ w \in Nat
      /\ w * d \in Nat
  BY Product DEF Geometry
<1>2. v * d + d <= w * d
  <2>1. (v + 1) * d <= w * d
    BY <1>1, Monotone
  <2> QED BY <1>1, <2>1, Product
<1>3. LastPage(v) \in Nat /\ LastPage(v) * per_page_element <= w * d
  <2>1. LastPage(v) * per_page_element \in Nat
    BY <1>1, PagesOf, Product
  <2>2. v * d \in Nat
    BY <1>1, Product
  <2> QED BY <1>1, <1>2, <2>1, <2>2, PagesOf
<1>4. FirstPage(w) = (w * d) \div per_page_element
  BY DEF FirstPage
<1> QED BY <1>1, <1>3, <1>4, DivLe

(* At the start of a page, Skip elements belong to a vector that began     *)
(* before; the one after them is FirstWhole.                               *)
LEMMA Align ==
  ASSUME Geometry, NEW g \in Nat
  PROVE  /\ Skip(g) \in 0 .. d - 1 /\ FirstWhole(g) \in Nat
         /\ g * per_page_element + Skip(g) = FirstWhole(g) * d
<1> DEFINE x == g * per_page_element
           q == x \div d
           r == x % d
<1>1. d \in Nat \ {0} /\ x \in Nat
  BY Product DEF Geometry
<1>2. q \in Nat /\ r \in 0 .. d - 1 /\ x = q * d + r
  <2> HIDE DEF x
  <2>1. x \div d \in Nat /\ (x % d) \in 0 .. d - 1 /\ x = d * (x \div d) + (x % d)
    BY <1>1, DivMod
  <2> QED BY <1>1, <2>1
<1>3. Skip(g) = (d - r) % d /\ FirstWhole(g) = (x + d - 1) \div d
  BY DEF Skip, FirstWhole
<1> HIDE DEF x, q, r
<1>4. CASE r = 0
  <2>1. (d - r) % d = 0
    <3>1. (1 * d + 0) % d = 0
      BY <1>1, DivUnique
    <3> QED BY <1>1, <1>4, <3>1
  <2>2. (q * d + (d - 1)) \div d = q
    BY <1>1, <1>2, DivUnique
  <2>3. x + d - 1 = q * d + (d - 1)
    BY <1>1, <1>2, <1>4
  <2>4. FirstWhole(g) = q
    BY <1>3, <2>2, <2>3
  <2> QED BY <1>1, <1>2, <1>3, <1>4, <2>1, <2>4 DEF x
<1>5. CASE r # 0
  <2>1. (d - r) % d = d - r
    <3>1. d - r \in 0 .. d - 1
      BY <1>1, <1>2, <1>5
    <3>2. (0 * d + (d - r)) % d = d - r
      BY <1>1, <3>1, DivUnique
    <3> QED BY <1>1, <1>2, <3>2
  <2>2. ((q + 1) * d + (r - 1)) \div d = q + 1
    BY <1>1, <1>2, <1>5, DivUnique
  <2>3. (q + 1) * d = q * d + d
    BY <1>1, <1>2, Product
  <2>4. x + d - 1 = (q + 1) * d + (r - 1)
    BY <1>1, <1>2, <2>3, Product
  <2>5. FirstWhole(g) = q + 1
    BY <1>3, <2>2, <2>4
  <2> QED BY <1>1, <1>2, <1>3, <1>5, <2>1, <2>3, <2>5 DEF x
<1> QED BY <1>2, <1>4, <1>5

-----------------------------------------------------------------------------
(* What a request asks for lies inside its list, and it ranks the vectors  *)
(* that lie whole in its pages, those it was made for among them.          *)
Covers(r, v) == r.first <= v /\ v < r.first + r.vectors

GoodRequest(r) ==
  /\ r.start \in Nat /\ r.pages \in Nat \ {0} /\ r.start + r.pages <= ListPages
  /\ r.skip = Skip(r.start) /\ r.first = FirstWhole(r.start)
  /\ r.vectors \in Nat /\ r.first + r.vectors <= list_size
  /\ r.skip + r.vectors * d <= r.pages * per_page_element
  /\ \A x \in r.wants :
       /\ x.id \in 0 .. list_size - 1
       /\ x.offset = x.id * d - per_page_element * r.start
       /\ x.offset + d <= r.pages * per_page_element
       /\ Covers(r, x.id)

(* Vectors built into a segment of n pages from page g on                  *)
Inside(W, g, n) ==
  \A x \in W :
    /\ x.id \in 0 .. list_size - 1
    /\ x.offset = x.id * d - per_page_element * g
    /\ g <= FirstPage(x.id) /\ LastPage(x.id) <= g + n - 1

(* The first whole vector of a page comes no later than any vector that    *)
(* begins on it or after.                                                  *)
LEMMA FirstWholeLeast ==
  ASSUME Geometry, NEW g \in Nat, NEW v \in 0 .. list_size - 1, g <= FirstPage(v)
  PROVE  FirstWhole(g) <= v /\ FirstWhole(g) * d <= v * d
<1>1. d \in Nat \ {0} /\ per_page_element \in Nat \ {0} /\ v \in Nat /\ v * d \in Nat
  BY Product DEF Geometry
<1>2. g * per_page_element <= v * d
  <2>1. g * per_page_element <= FirstPage(v) * per_page_element
    BY <1>1, PagesOf, Monotone
  <2> QED BY <1>1, <2>1, PagesOf, Product
<1>3. FirstWhole(g) \in Nat /\ FirstWhole(g) * d < (v + 1) * d
  <2>1. (v + 1) * d = v * d + d
    BY <1>1, Product
  <2>2. g * per_page_element \in Nat
    BY <1>1, Product
  <2> QED BY <1>1, <1>2, <2>1, <2>2, Align
<1>4. FirstWhole(g) <= v
  <2>1. CASE v + 1 <= FirstWhole(g)
    <3>1. (v + 1) * d <= FirstWhole(g) * d
      BY <1>1, <1>3, <2>1, Monotone
    <3> QED BY <1>1, <1>3, <3>1, Product
  <2> QED BY <1>1, <1>3, <2>1
<1> QED BY <1>1, <1>3, <1>4, Monotone

(* A closed segment asks for pages of the list and covers all it was made  *)
(* for.                                                                    *)
LEMMA Segment ==
  ASSUME Geometry, NEW g \in Nat, NEW n \in Nat \ {0}, NEW W, W # {},
         g + n <= ListPages, Inside(W, g, n)
  PROVE  GoodRequest(SegmentRequest(g, n, W))
<1> DEFINE p == per_page_element
           r == SegmentRequest(g, n, W)
           total == (n * p - Skip(g)) \div d
<1>1. /\ p \in Nat \ {0} /\ d \in Nat \ {0} /\ list_size \in Nat \ {0}
      /\ g * p \in Nat /\ n * p \in Nat /\ (g + n) * p = g * p + n * p
  BY Product, Distribute DEF Geometry
<1>2. /\ Skip(g) \in 0 .. d - 1 /\ FirstWhole(g) \in Nat
      /\ g * p + Skip(g) = FirstWhole(g) * d
  BY Align
<1>3. ASSUME NEW x \in W
      PROVE  /\ x.id \in 0 .. list_size - 1 /\ x.id * d \in Nat
             /\ FirstWhole(g) <= x.id /\ FirstWhole(g) * d <= x.id * d
             /\ x.id * d + d <= g * p + n * p
             /\ x.offset = x.id * d - p * g /\ x.offset = x.id * d - g * p
  <2>1. /\ x.id \in 0 .. list_size - 1 /\ x.offset = x.id * d - p * g
        /\ g <= FirstPage(x.id) /\ LastPage(x.id) <= g + n - 1
    BY DEF Inside
  <2>2. x.id * d \in Nat
    BY <1>1, <2>1, Product
  <2>3. x.id * d + d <= (LastPage(x.id) + 1) * p
    <3>1. (LastPage(x.id) + 1) * p \in Nat
      BY <1>1, <2>1, PagesOf, Product
    <3> QED BY <1>1, <2>1, <2>2, <3>1, PagesOf
  <2>4. (LastPage(x.id) + 1) * p <= (g + n) * p
    <3>1. LastPage(x.id) + 1 \in Int /\ g + n \in Int /\ LastPage(x.id) + 1 <= g + n
      BY <2>1, PagesOf
    <3> HIDE DEF p
    <3> QED BY <1>1, <3>1, Monotone
  <2>5. (LastPage(x.id) + 1) * p \in Nat
    BY <1>1, <2>1, PagesOf, Product
  <2>6. p * g = g * p
    BY <1>1
  <2> QED BY <1>1, <2>1, <2>2, <2>3, <2>4, <2>5, <2>6, FirstWholeLeast
<1>4. n * p - Skip(g) \in Nat /\ total \in Nat /\ total * d <= n * p - Skip(g)
  <2>1. n * p - Skip(g) \in Nat
    <3>1. PICK x \in W : TRUE
      OBVIOUS
    <3>2. FirstWhole(g) * d \in Nat
      BY <1>1, <1>2, Product
    <3> QED BY <1>1, <1>2, <1>3, <3>1, <3>2
  <2>2. total \in Nat
    BY <1>1, <2>1, DivMod
  <2> QED BY <1>1, <2>1, <2>2, DivLe
<1>5. ASSUME NEW x \in W PROVE x.id < FirstWhole(g) + total
  <2>1. x.id + 1 - FirstWhole(g) \in Nat
    BY <1>2, <1>3
  <2>2. (x.id + 1 - FirstWhole(g)) * d = x.id * d + d - FirstWhole(g) * d
    <3>1. PICK i \in Int : i = x.id
      BY <1>3
    <3>2. PICK k \in Int : k = FirstWhole(g)
      BY <1>2
    <3>3. (i + 1 - k) * d = i * d + d - k * d
      BY <1>1, Stretch
    <3> QED BY <3>1, <3>2, <3>3
  <2>3. (x.id + 1 - FirstWhole(g)) * d <= n * p - Skip(g)
    <3>1. FirstWhole(g) * d \in Nat
      BY <1>1, <1>2, Product
    <3> QED BY <1>1, <1>2, <1>3, <2>2, <3>1
  <2>4. x.id + 1 - FirstWhole(g) <= total
    BY <1>1, <1>4, <2>1, <2>3, DivLe
  <2> QED BY <1>2, <1>3, <1>4, <2>4
<1>6. /\ r.start = g /\ r.pages = n /\ r.skip = Skip(g) /\ r.first = FirstWhole(g)
      /\ r.wants = W
      /\ r.vectors = IF FirstWhole(g) + total > list_size
                     THEN list_size - FirstWhole(g) ELSE total
  BY DEF SegmentRequest
<1>7. /\ r.vectors \in 0 .. total /\ FirstWhole(g) + r.vectors <= list_size
      /\ \A x \in W : x.id < FirstWhole(g) + r.vectors
  <2>1. FirstWhole(g) < list_size
    <3>1. PICK x \in W : TRUE
      OBVIOUS
    <3> QED BY <1>1, <1>2, <1>3, <3>1
  <2> HIDE DEF r, total
  <2>2. CASE FirstWhole(g) + total > list_size
    BY <1>1, <1>2, <1>3, <1>4, <1>6, <2>1, <2>2
  <2>3. CASE ~(FirstWhole(g) + total > list_size)
    BY <1>1, <1>2, <1>3, <1>4, <1>5, <1>6, <2>1, <2>3
  <2> QED BY <2>2, <2>3
<1> HIDE DEF r, total
<1>8. Skip(g) + r.vectors * d <= n * p
  <2>1. r.vectors * d <= total * d
    BY <1>1, <1>4, <1>7, Monotone
  <2>2. r.vectors * d \in Nat /\ total * d \in Nat
    BY <1>1, <1>4, <1>7, Product
  <2> QED BY <1>1, <1>2, <1>4, <2>1, <2>2
<1>9. \A x \in W : x.offset + d <= n * p
  BY <1>1, <1>3
<1> QED BY <1>2, <1>3, <1>4, <1>6, <1>7, <1>8, <1>9 DEF GoodRequest, Covers, r

(* The single request of the full stage covers all positions from the      *)
(* first to the last wanted one, but for the last if it goes on.           *)
LEMMA Span ==
  ASSUME Geometry, NEW min \in 0 .. list_size - 1, NEW max \in 0 .. list_size - 1,
         min <= max
  PROVE  /\ GoodRequest(SpanRequest(min, max))
         /\ \A v \in min .. max :
              \/ Covers(SpanRequest(min, max), v)
              \/ v = max /\ LastPage(max) > FirstPage(max)
<1> DEFINE p == per_page_element
           r == SpanRequest(min, max)
           g == FirstPage(min)
           end == FirstPage(max)
           bytes == IF (end + 1) * p <= list_size * d
                    THEN (end + 1) * p ELSE list_size * d
<1>1. /\ p \in Nat \ {0} /\ d \in Nat \ {0} /\ list_size \in Nat \ {0}
      /\ g \in Nat /\ end \in Nat /\ g <= end /\ end < ListPages /\ ListPages \in Nat
  <2>1. g <= end
    <3>1. CASE min = max
      BY <3>1, PagesOf
    <3>2. CASE min < max
      BY <3>2, PagesOf, PagesInOrder
    <3> QED BY <3>1, <3>2
  <2> QED BY <2>1, PagesOf DEF Geometry
<1>2. /\ Skip(g) \in 0 .. d - 1 /\ FirstWhole(g) \in Nat
      /\ g * p + Skip(g) = FirstWhole(g) * d
      /\ FirstWhole(g) <= min /\ FirstWhole(g) * d <= min * d
  <2>1. g \in Nat /\ g <= FirstPage(min)
    BY <1>1
  <2> HIDE DEF g
  <2>2. /\ Skip(g) \in 0 .. d - 1 /\ FirstWhole(g) \in Nat
        /\ g * p + Skip(g) = FirstWhole(g) * d
    BY <2>1, Align
  <2>3. FirstWhole(g) <= min /\ FirstWhole(g) * d <= min * d
    BY <2>1, FirstWholeLeast
  <2> QED BY <2>2, <2>3
<1>3. /\ r.start = g /\ r.pages = end - g + 1 /\ r.skip = Skip(g)
      /\ r.first = FirstWhole(g) /\ r.vectors = (bytes \div d) - FirstWhole(g)
      /\ r.wants = {}
  BY DEF SpanRequest
<1>4. /\ list_size * d \in Nat /\ (end + 1) * p \in Nat /\ g * p \in Nat
      /\ min * d \in Nat /\ max * d \in Nat /\ FirstWhole(g) * d \in Nat
      /\ min * d <= max * d /\ max * d + d <= list_size * d
      /\ max * d < (end + 1) * p
      /\ (end - g + 1) * p = (end + 1) * p - g * p
  <2>1. max * d + d <= list_size * d
    <3>1. (max + 1) * d <= list_size * d
      BY <1>1, Monotone
    <3> QED BY <1>1, <3>1, Product
  <2>2. (end + 1 - g) * p = (end + 1) * p - g * p
    BY <1>1, Distribute
  <2>3. end + 1 - g = end - g + 1
    BY <1>1
  <2> QED BY <1>1, <1>2, <2>1, <2>2, <2>3, Product, Monotone, PagesOf
<1> HIDE DEF r, g, end
<1>5. /\ bytes \in Nat /\ bytes <= (end + 1) * p /\ bytes <= list_size * d
      /\ max * d <= bytes
  BY <1>1, <1>4
<1> HIDE DEF bytes
<1>6. /\ bytes \div d \in Nat /\ (bytes \div d) * d <= bytes
      /\ \A k \in Nat : k * d <= bytes => k <= bytes \div d
  BY <1>1, <1>5, DivMod, DivLe
<1>7. FirstWhole(g) <= bytes \div d
  BY <1>1, <1>2, <1>4, <1>5, <1>6
<1>8. bytes \div d <= list_size
  <2>1. (bytes \div d) * d <= list_size * d
    BY <1>1, <1>4, <1>5, <1>6, Product
  <2> QED BY <1>1, <1>6, <2>1, Monotone
<1>9. Skip(g) + r.vectors * d <= (end - g + 1) * p
  <2>1. r.vectors * d = (bytes \div d) * d - FirstWhole(g) * d
    BY <1>1, <1>2, <1>3, <1>6, Distribute
  <2>2. (bytes \div d) * d \in Nat
    BY <1>1, <1>6, Product
  <2> QED BY <1>1, <1>2, <1>4, <1>5, <1>6, <2>1, <2>2
<1>10. GoodRequest(r)
  <2>1. g + (end - g + 1) <= ListPages /\ end - g + 1 \in Nat \ {0}
    BY <1>1
  <2>2. r.vectors \in Nat /\ r.first + r.vectors <= list_size
    BY <1>1, <1>2, <1>3, <1>6, <1>7, <1>8
  <2> QED BY <1>1, <1>3, <1>9, <2>1, <2>2 DEF GoodRequest
<1>11. ASSUME NEW v \in min .. max
       PROVE  Covers(r, v) \/ (v = max /\ LastPage(max) > FirstPage(max))
  <2>1. FirstWhole(g) <= v /\ v \in Nat /\ v + 1 \in Nat
    BY <1>2
  <2>2. (v + 1) * d <= bytes => Covers(r, v)
    <3>1. (v + 1) * d <= bytes => v + 1 <= bytes \div d
      BY <1>6, <2>1
    <3> QED BY <1>2, <1>3, <1>6, <2>1, <3>1 DEF Covers
  <2>3. CASE v < max
    <3>1. (v + 1) * d <= max * d
      BY <1>1, <2>1, <2>3, Monotone
    <3>2. (v + 1) * d <= bytes
      BY <1>1, <1>4, <1>5, <2>1, <3>1, Product
    <3> QED BY <2>2, <3>2
  <2>4. CASE v = max /\ LastPage(max) <= FirstPage(max)
    <3>1. max * d + d - 1 < (end + 1) * p
      <4>1. LastPage(max) = end
        BY <2>4, PagesOf DEF end
      <4> QED BY <4>1, PagesOf
    <3>2. max * d + d <= bytes
      BY <1>1, <1>4, <3>1 DEF bytes
    <3>3. (v + 1) * d = max * d + d
      BY <1>1, <2>1, <2>4, Product
    <3> QED BY <2>2, <3>2, <3>3
  <2> QED BY <2>3, <2>4, PagesOf
<1> QED BY <1>10, <1>11 DEF r

(* In pages, and with it in vectors, r is read out before s begins.        *)
Before(r, s) == r.start + r.pages <= s.start

(* Requests apart in pages are apart in vectors.                           *)
LEMMA Apart ==
  ASSUME Geometry, NEW r, NEW s, GoodRequest(r), GoodRequest(s), Before(r, s)
  PROVE  r.first + r.vectors <= s.first
<1> DEFINE p == per_page_element
<1>1. PICK a \in Nat : a = r.first
  BY Align DEF GoodRequest
<1>2. PICK b \in Nat : b = s.first
  BY Align DEF GoodRequest
<1>3. PICK n \in Nat : n = r.vectors
  BY DEF GoodRequest
<1>4. PICK g \in Nat, k \in Nat : g = r.start /\ k = r.pages
  BY DEF GoodRequest
<1>5. PICK h \in Nat : h = s.start
  BY DEF GoodRequest
<1>6. /\ d \in Nat \ {0} /\ p \in Nat \ {0} /\ g + k <= h
      /\ Skip(g) + n * d <= k * p /\ a = FirstWhole(g) /\ b = FirstWhole(h)
  BY <1>1, <1>2, <1>3, <1>4, <1>5 DEF Geometry, GoodRequest, Before
<1>7. /\ g * p + Skip(g) = a * d /\ h * p + Skip(h) = b * d
      /\ Skip(g) \in Nat /\ Skip(h) \in Nat
  BY <1>6, Align
<1> HIDE DEF p
<1>8. (g + k) * p <= h * p /\ (g + k) * p = g * p + k * p
  BY <1>6, Monotone, Distribute
<1>9. /\ g * p \in Nat /\ k * p \in Nat /\ h * p \in Nat /\ n * d \in Nat
      /\ a * d \in Nat /\ b * d \in Nat
  BY <1>6, Product
<1>10. a * d + n * d <= b * d
  BY <1>6, <1>7, <1>8, <1>9
<1>11. (a + n) * d <= b * d
  BY <1>6, <1>10, Distribute
<1>12. a + n <= b
  BY <1>6, <1>11, Monotone
<1> QED BY <1>1, <1>2, <1>3, <1>12

-----------------------------------------------------------------------------
(* The inductive invariant.                                                *)
Phases ==
  /\ phase # "reading" => ranked = {} /\ inserted = {} /\ id_dis_map = {}
  /\ phase = "chosen" => todo = wanted /\ in_buffer = {} /\ pending = {}
  /\ phase = "merging" => stage = "partial"

(* While segments are built: the one in hand ends on current_page, which   *)
(* either the next wanted vector begins on, or the last one taken ends on. *)
Merging ==
  /\ page_count \in Nat \ {0}
  /\ current_page = record_begin_page + page_count - 1
  /\ current_page < ListPages
  /\ Inside(in_buffer, record_begin_page, page_count)
  /\ \A v \in todo, u \in InBufferIds : u < v
  /\ \A v \in todo : current_page <= FirstPage(v)
  /\ \/ \E v \in todo : IsLeast(v, todo) /\ FirstPage(v) = current_page
     \/ \E u \in InBufferIds : IsLast(u, InBufferIds) /\ LastPage(u) = current_page
  /\ \A r \in pending : r.start + r.pages <= record_begin_page

Requests ==
  /\ \A r \in pending : GoodRequest(r)
  /\ \A r, s \in pending : r = s \/ Before(r, s) \/ Before(s, r)

Ranks ==
  /\ OwnBytes /\ RankedOnce
  /\ \A x \in ranked, r \in pending : ~ Covers(r, x.at)

(* No wanted vector is lost between the chosen set and those considered.   *)
Considered(v) == v \in id_dis_map /\ (stage = "partial" => \E x \in ranked : x.at = v)

Kept ==
  \A v \in wanted :
    \/ phase # "reading" /\ v \in todo \cup InBufferIds
    \/ \E r \in pending : Covers(r, v)
    \/ Considered(v)
    \/ stage = "full" /\ IsLast(v, wanted) /\ LastPage(v) > FirstPage(v)

IInv ==
  /\ Geometry /\ TypeOK /\ Phases /\ (phase = "merging" => Merging)
  /\ Requests /\ Ranks /\ Kept

(* What only depends on the geometry does not change.                      *)
LEMMA SameGeometry ==
  ASSUME UNCHANGED geometry
  PROVE  /\ Geometry <=> Geometry'
         /\ ListPages' = ListPages
         /\ \A v : FirstPage(v)' = FirstPage(v) /\ LastPage(v)' = LastPage(v)
         /\ \A r : GoodRequest(r)' <=> GoodRequest(r)
         /\ \A W, g, n : Inside(W, g, n)' <=> Inside(W, g, n)
BY DEF geometry, Geometry, ListPages, FirstPage, LastPage, GoodRequest, Inside,
       Covers, Skip, FirstWhole

(* The invariant holds at first.                                           *)
LEMMA Initially == ASSUME Init PROVE IInv
<1>1. Geometry
  BY GeometryAssumption DEF Init, Geometry
<1> QED BY <1>1 DEF Init, IInv, TypeOK, Phases, Requests, Ranks, Kept, Considered,
               OwnBytes, RankedOnce, InBufferIds

(* The ranges the invariant gives.                                         *)
LEMMA Numbers ==
  ASSUME IInv
  PROVE  /\ per_page_element \in Nat \ {0} /\ d \in Nat \ {0} /\ max_pages \in Nat \ {0}
         /\ list_size \in Nat \ {0} /\ Geometry /\ ListPages \in Nat
         /\ wanted \subseteq 0 .. list_size - 1 /\ todo \subseteq wanted
         /\ record_begin_page \in Nat /\ current_page \in Nat /\ page_count \in Nat
<1>1. PICK v \in wanted : v \in 0 .. list_size - 1
  BY DEF IInv, Geometry
<1>2. ListPages \in Nat
  BY <1>1, PagesOf DEF IInv
<1> QED BY <1>2 DEF IInv, Geometry, TypeOK

(* The wanted positions lie in a buffer that begins no later than they do. *)
LEMMA Offset ==
  ASSUME Geometry, NEW v \in 0 .. list_size - 1, NEW g \in Nat, g <= FirstPage(v)
  PROVE  v * d - per_page_element * g \in Nat
<1>1. d \in Nat \ {0} /\ per_page_element \in Nat \ {0} /\ v \in Nat /\ v * d \in Nat
  BY Product DEF Geometry
<1>2. PICK f \in Nat : f = FirstPage(v) /\ f * per_page_element <= v * d
  BY PagesOf
<1>3. g * per_page_element <= f * per_page_element
  BY <1>1, <1>2, Monotone
<1>4. g * per_page_element \in Nat /\ f * per_page_element \in Nat
  BY <1>1, <1>2, Product
<1>5. per_page_element * g = g * per_page_element
  BY <1>1
<1> QED BY <1>1, <1>2, <1>3, <1>4, <1>5

(* A segment's request is a request.                                       *)
LEMMA SegmentType ==
  ASSUME Geometry, NEW g \in Nat, NEW n \in Nat \ {0},
         NEW W \in SUBSET [id : Nat, offset : Nat],
         GoodRequest(SegmentRequest(g, n, W))
  PROVE  SegmentRequest(g, n, W) \in Request
<1>1. Skip(g) \in Nat /\ FirstWhole(g) \in Nat
  BY Align DEF Geometry
<1>2. SegmentRequest(g, n, W).vectors \in Nat
  BY DEF GoodRequest
<1> DEFINE k == (IF FirstWhole(g) + ((n * per_page_element - Skip(g)) \div d) > list_size
                 THEN list_size - FirstWhole(g)
                 ELSE (n * per_page_element - Skip(g)) \div d)
<1>3. SegmentRequest(g, n, W)
        = [start |-> g, pages |-> n, skip |-> Skip(g), first |-> FirstWhole(g),
           vectors |-> k, wants |-> W]
  BY DEF SegmentRequest
<1> HIDE DEF k
<1>4. k \in Nat
  BY <1>2, <1>3
<1> QED BY <1>1, <1>3, <1>4 DEF Request

(* A segment that is closed is not empty and makes a good request, apart   *)
(* from those closed before and from those that begin further on.          *)
LEMMA Closing ==
  ASSUME IInv, phase = "merging",
         \A v \in todo : IsLeast(v, todo) => FirstPage(v) # current_page
  PROVE  LET r == SegmentRequest(record_begin_page, page_count, in_buffer)
         IN  /\ GoodRequest(r) /\ r \in Request
             /\ r.start + r.pages = current_page + 1
             /\ \A q \in pending : Before(q, r)
             /\ \A v \in InBufferIds : Covers(r, v)
<1> DEFINE r == SegmentRequest(record_begin_page, page_count, in_buffer)
<1>1. Merging
  BY DEF IInv
<1>2. in_buffer # {}
  BY <1>1 DEF Merging, IsLast, InBufferIds
<1>3. /\ record_begin_page \in Nat /\ page_count \in Nat \ {0}
      /\ record_begin_page + page_count <= ListPages
  BY <1>1, Numbers DEF Merging
<1>4. GoodRequest(r)
  BY <1>1, <1>2, <1>3, Segment, Numbers DEF Merging
<1>5. in_buffer \in SUBSET [id : Nat, offset : Nat]
  <2>1. in_buffer \subseteq [id : wanted, offset : Nat] /\ wanted \subseteq Nat
    BY Numbers DEF IInv, TypeOK
  <2>2. \A x \in in_buffer : x \in [id : Nat, offset : Nat]
    BY <2>1
  <2> QED BY <2>2
<1>6. r \in Request
  BY <1>3, <1>4, <1>5, SegmentType, Numbers
<1>7. /\ r.start = record_begin_page /\ r.pages = page_count /\ r.wants = in_buffer
  BY DEF SegmentRequest
<1>8. r.start + r.pages = current_page + 1
  BY <1>1, <1>3, <1>7, Numbers DEF Merging
<1>9. \A q \in pending : Before(q, r)
  BY <1>1, <1>7 DEF Merging, Before
<1>10. \A v \in InBufferIds : Covers(r, v)
  BY <1>4, <1>7 DEF GoodRequest, InBufferIds
<1> QED BY <1>4, <1>6, <1>8, <1>9, <1>10

-----------------------------------------------------------------------------
(* Every step preserves it.                                                *)
LEMMA RequestFullKeeps == ASSUME IInv, RequestFull PROVE IInv'
<1>1. PICK min, max \in wanted :
        /\ IsLeast(min, wanted) /\ IsLast(max, wanted)
        /\ pending' = {SpanRequest(min, max)}
  BY DEF RequestFull
<1>r. PICK r : r = SpanRequest(min, max)
  OBVIOUS
<1>2. /\ UNCHANGED <<geometry, merge, ranked, inserted, id_dis_map>> /\ phase' = "reading"
      /\ UNCHANGED <<stage, list_size, wanted, todo, in_buffer, record_begin_page,
                     current_page, page_count>>
      /\ stage = "full" /\ phase = "chosen" /\ ranked = {} /\ inserted = {} /\ id_dis_map = {}
  BY DEF RequestFull, geometry, results, merge, IInv, Phases
<1>3. min \in 0 .. list_size - 1 /\ max \in 0 .. list_size - 1 /\ min <= max
  BY <1>1, Numbers DEF IsLeast
<1>4. GoodRequest(r)
  BY <1>3, <1>r, Span, Numbers
<1>5. r \in Request
  <2>1. /\ r.start \in Nat /\ r.pages \in Nat /\ r.vectors \in Nat
        /\ r.skip = Skip(r.start) /\ r.first = FirstWhole(r.start)
    BY <1>4 DEF GoodRequest
  <2>2. r.skip \in Nat /\ r.first \in Nat
    BY <2>1, Align, Numbers
  <2>3. r = [start |-> r.start, pages |-> r.pages, skip |-> r.skip, first |-> r.first,
             vectors |-> r.vectors, wants |-> {}]
    BY <1>r DEF SpanRequest
  <2> QED BY <2>1, <2>2, <2>3 DEF Request
<1>6. Geometry' /\ GoodRequest(r)'
  BY <1>2, <1>4, SameGeometry, Numbers
<1>7. TypeOK'
  BY <1>1, <1>r, <1>2, <1>5, Numbers DEF IInv, TypeOK
<1>8. Phases' /\ (phase = "merging" => Merging)'
  BY <1>2 DEF Phases
<1>9. Requests'
  BY <1>1, <1>r, <1>6 DEF Requests
<1>10. Ranks'
  BY <1>2 DEF Ranks, OwnBytes, RankedOnce
<1>11. Kept'
  <2> SUFFICES ASSUME NEW v \in wanted
               PROVE  \/ Covers(r, v)
                      \/ /\ IsLast(v, wanted)
                         /\ LastPage(v)' > FirstPage(v)'
    BY <1>1, <1>r, <1>2 DEF Kept, Considered, Covers, IsLast
  <2>1. v \in min .. max
    BY <1>1, Numbers DEF IsLeast, IsLast
  <2>2. Covers(r, v) \/ (v = max /\ LastPage(max) > FirstPage(max))
    BY <1>3, <1>r, <2>1, Span, Numbers
  <2> QED BY <1>1, <1>2, <2>2, SameGeometry
<1> QED BY <1>6, <1>7, <1>8, <1>9, <1>10, <1>11 DEF IInv

(* The first segment begins where the first wanted vector does.            *)
LEMMA StartMergeKeeps == ASSUME IInv, StartMerge PROVE IInv'
<1>1. PICK v \in todo :
        /\ IsLeast(v, todo)
        /\ record_begin_page' = FirstPage(v) /\ current_page' = FirstPage(v)
  BY DEF StartMerge
<1>2. /\ UNCHANGED <<geometry, todo, in_buffer, pending, ranked, inserted, id_dis_map>>
      /\ UNCHANGED <<stage, metric, d, list_size, wanted>>
      /\ page_count' = 1 /\ phase = "chosen" /\ phase' = "merging" /\ stage = "partial"
      /\ todo = wanted /\ in_buffer = {} /\ pending = {} /\ ranked = {} /\ inserted = {} /\ id_dis_map = {}
  BY DEF StartMerge, geometry, results, IInv, Phases
<1>3. todo \subseteq 0 .. list_size - 1
  BY Numbers
<1>4. FirstPage(v) \in Nat /\ FirstPage(v) < ListPages /\ ListPages \in Nat
  BY <1>3, PagesOf, Numbers
<1>5. \A w \in todo : FirstPage(v) <= FirstPage(w)
  <2> SUFFICES ASSUME NEW w \in todo PROVE FirstPage(v) <= FirstPage(w)
    OBVIOUS
  <2>1. CASE w = v
    BY <1>4, <2>1
  <2>2. CASE v < w
    BY <1>3, <2>2, PagesOf, PagesInOrder, Numbers
  <2> QED BY <1>1, <1>3, <2>1, <2>2 DEF IsLeast
<1>6. Geometry' /\ ListPages' = ListPages
      /\ \A w : FirstPage(w)' = FirstPage(w)
  BY <1>2, SameGeometry, Numbers
<1>7. TypeOK'
  BY <1>1, <1>2, <1>4, Numbers DEF IInv, TypeOK
<1>8. Phases'
  BY <1>2 DEF Phases
<1>9. Merging'
  BY <1>1, <1>2, <1>4, <1>5, <1>6 DEF Merging, Inside, InBufferIds, IsLeast
<1>10. Requests' /\ Ranks'
  BY <1>2 DEF Requests, Ranks, OwnBytes, RankedOnce
<1>11. Kept'
  BY <1>2 DEF Kept
<1> QED BY <1>6, <1>7, <1>8, <1>9, <1>10, <1>11 DEF IInv

(* The next wanted vector begins no later than the others, and ends no     *)
(* later than they begin.                                                  *)
LEMMA NextInOrder ==
  ASSUME IInv, NEW v \in todo, IsLeast(v, todo)
  PROVE  /\ v \in 0 .. list_size - 1 /\ FirstPage(v) \in Nat /\ LastPage(v) \in Nat
         /\ FirstPage(v) <= LastPage(v) /\ LastPage(v) < ListPages
         /\ \A w \in todo : /\ FirstPage(w) \in Nat /\ FirstPage(v) <= FirstPage(w)
                            /\ w # v => v < w /\ LastPage(v) <= FirstPage(w)
<1>1. todo \subseteq 0 .. list_size - 1
  BY Numbers
<1>2. /\ v \in 0 .. list_size - 1 /\ FirstPage(v) \in Nat /\ LastPage(v) \in Nat
      /\ FirstPage(v) <= LastPage(v) /\ LastPage(v) < ListPages
  BY <1>1, PagesOf, Numbers
<1>3. ASSUME NEW w \in todo, w # v
      PROVE  FirstPage(w) \in Nat /\ v < w /\ LastPage(v) <= FirstPage(w)
  <2>1. v < w
    BY <1>1, <1>3 DEF IsLeast
  <2> QED BY <1>1, <2>1, PagesOf, PagesInOrder, Numbers
<1> QED BY <1>2, <1>3

(* The segment grows by the pages of the vector that joins it.             *)
LEMMA JoinSegmentKeeps == ASSUME IInv, JoinSegment PROVE IInv'
<1>1. PICK v \in todo :
        /\ IsLeast(v, todo) /\ FirstPage(v) = current_page
        /\ todo' = todo \ {v}
        /\ in_buffer' = in_buffer \cup
             {[id |-> v, offset |-> v * d - per_page_element * record_begin_page]}
        /\ page_count' = page_count + (LastPage(v) - FirstPage(v))
        /\ current_page' = LastPage(v)
  BY DEF JoinSegment
<1>2. /\ UNCHANGED <<geometry, phase, record_begin_page, pending, ranked, inserted, id_dis_map>>
      /\ UNCHANGED <<stage, metric, per_page_element, d, list_size, wanted>>
      /\ phase = "merging"
  BY DEF JoinSegment, geometry, results
<1>3. Merging /\ page_count \in Nat \ {0} /\ record_begin_page \in Nat /\ current_page \in Nat
      /\ current_page = record_begin_page + page_count - 1
  BY <1>2, Numbers DEF IInv, Merging
<1>4. /\ v \in 0 .. list_size - 1 /\ FirstPage(v) \in Nat /\ LastPage(v) \in Nat
      /\ FirstPage(v) <= LastPage(v) /\ LastPage(v) < ListPages
      /\ \A w \in todo' : /\ FirstPage(w) \in Nat /\ v < w /\ LastPage(v) <= FirstPage(w)
  BY <1>1, NextInOrder
<1>5. PICK o \in Nat : o = v * d - per_page_element * record_begin_page
  BY <1>1, <1>3, <1>4, Offset, Numbers
<1>6. in_buffer' = in_buffer \cup {[id |-> v, offset |-> o]}
  BY <1>1, <1>5
<1>7. InBufferIds' = InBufferIds \cup {v}
  <2>1. \A u : u \in InBufferIds' <=> \E x \in in_buffer' : u = x.id
    BY DEF InBufferIds
  <2>2. \A u : u \in InBufferIds <=> \E x \in in_buffer : u = x.id
    BY DEF InBufferIds
  <2>3. \A u : u \in InBufferIds' <=> u \in InBufferIds \/ u = v
    <3>1. [id |-> v, offset |-> o].id = v
      OBVIOUS
    <3> QED BY <1>6, <2>1, <2>2, <3>1
  <2> QED BY <2>3
<1>8. Geometry' /\ ListPages' = ListPages
      /\ \A w : FirstPage(w)' = FirstPage(w) /\ LastPage(w)' = LastPage(w)
  BY <1>2, SameGeometry, Numbers
<1>9. page_count' \in Nat \ {0} /\ current_page' \in Nat
      /\ current_page' = record_begin_page + page_count' - 1
      /\ page_count <= page_count'
  BY <1>1, <1>3, <1>4
<1>10. TypeOK'
  BY <1>1, <1>2, <1>6, <1>9, Numbers DEF IInv, TypeOK
<1>11. Phases'
  BY <1>2 DEF IInv, Phases
<1>12. Merging'
  <2>1. Inside(in_buffer', record_begin_page, page_count')
    <3>1. ASSUME NEW x \in in_buffer
          PROVE  /\ x.id \in 0 .. list_size - 1
                 /\ x.offset = x.id * d - per_page_element * record_begin_page
                 /\ record_begin_page <= FirstPage(x.id)
                 /\ LastPage(x.id) <= record_begin_page + page_count' - 1
      <4>1. /\ x.id \in 0 .. list_size - 1
            /\ x.offset = x.id * d - per_page_element * record_begin_page
            /\ record_begin_page <= FirstPage(x.id)
            /\ LastPage(x.id) <= record_begin_page + page_count - 1
        BY <1>3 DEF Merging, Inside
      <4>2. LastPage(x.id) \in Nat
        BY <4>1, PagesOf, Numbers
      <4> QED BY <1>3, <1>9, <4>1, <4>2
    <3>2. record_begin_page <= FirstPage(v) /\ LastPage(v) <= record_begin_page + page_count' - 1
      BY <1>1, <1>3, <1>4, <1>9
    <3> QED BY <1>4, <1>5, <1>6, <3>1, <3>2 DEF Inside
  <2>2. Inside(in_buffer, record_begin_page, page_count)'
    BY <1>2, <2>1, SameGeometry DEF Inside
  <2>3. \A w \in todo', u \in InBufferIds' : u < w
    BY <1>1, <1>3, <1>4, <1>7 DEF Merging
  <2>4. IsLast(v, InBufferIds')
    <3>1. \A u \in InBufferIds : u <= v
      <4> SUFFICES ASSUME NEW u \in InBufferIds PROVE u <= v
        OBVIOUS
      <4>1. u < v /\ u \in Nat
        BY <1>3, Numbers DEF Merging, IInv, TypeOK, InBufferIds
      <4> QED BY <1>4, <4>1
    <3> QED BY <1>4, <1>7, <3>1 DEF IsLast
  <2>5. \E u \in InBufferIds' : IsLast(u, InBufferIds') /\ LastPage(u) = current_page'
    BY <1>1, <1>7, <2>4
  <2> QED BY <1>1, <1>2, <1>3, <1>4, <1>8, <1>9, <2>2, <2>3, <2>5 DEF Merging, IsLast
<1>13. Requests'
  BY <1>2, SameGeometry DEF IInv, Requests, Before
<1>14. Ranks'
  BY <1>2 DEF IInv, Phases, Ranks, OwnBytes, RankedOnce
<1>15. Kept'
  BY <1>1, <1>2, <1>7, <1>8 DEF IInv, Kept, Considered, Covers, IsLast
<1> QED BY <1>2, <1>8, <1>10, <1>11, <1>12, <1>13, <1>14, <1>15 DEF IInv

(* It grows up to the page the next vector begins on.                      *)
LEMMA BridgeGapKeeps == ASSUME IInv, BridgeGap PROVE IInv'
<1>1. PICK v \in todo, u \in InBufferIds :
        /\ IsLeast(v, todo) /\ FirstPage(v) # current_page
        /\ IsLast(u, InBufferIds)
        /\ page_count' = page_count + (FirstPage(v) - LastPage(u))
        /\ current_page' = FirstPage(v)
  BY DEF BridgeGap
<1>2. /\ UNCHANGED <<geometry, phase, todo, record_begin_page, in_buffer,
                     pending, ranked, inserted, id_dis_map>>
      /\ UNCHANGED <<stage, metric, per_page_element, d, list_size, wanted>>
      /\ phase = "merging"
  BY DEF BridgeGap, geometry, results
<1>3. Merging /\ page_count \in Nat \ {0} /\ record_begin_page \in Nat /\ current_page \in Nat
      /\ current_page = record_begin_page + page_count - 1
  BY <1>2, Numbers DEF IInv, Merging
<1>4. /\ v \in 0 .. list_size - 1 /\ FirstPage(v) \in Nat /\ FirstPage(v) < ListPages
      /\ \A w \in todo : FirstPage(w) \in Nat /\ FirstPage(v) <= FirstPage(w)
  BY <1>1, NextInOrder, Numbers
<1>5. LastPage(u) = current_page
  <2>1. \A w \in InBufferIds : w \in Nat
    <3>1. wanted \subseteq Nat
      BY Numbers
    <3>2. \A x \in in_buffer : x.id \in wanted
      BY DEF IInv, TypeOK
    <3> QED BY <3>1, <3>2 DEF InBufferIds
  <2>2. \A w \in todo : IsLeast(w, todo) => w = v
    BY <1>1, Numbers DEF IsLeast
  <2>3. PICK w \in InBufferIds : IsLast(w, InBufferIds) /\ LastPage(w) = current_page
    BY <1>1, <1>3, <2>2 DEF Merging
  <2> QED BY <1>1, <2>1, <2>3 DEF IsLast
<1>6. current_page < FirstPage(v)
  BY <1>1, <1>3, <1>4 DEF Merging
<1>7. /\ page_count' \in Nat \ {0} /\ page_count <= page_count' /\ current_page' \in Nat
      /\ current_page' = record_begin_page + page_count' - 1
  BY <1>1, <1>3, <1>4, <1>5, <1>6
<1>8. Geometry' /\ ListPages' = ListPages /\ InBufferIds' = InBufferIds
      /\ \A w : FirstPage(w)' = FirstPage(w) /\ LastPage(w)' = LastPage(w)
  BY <1>2, SameGeometry, Numbers DEF InBufferIds
<1>9. TypeOK'
  BY <1>2, <1>7, Numbers DEF IInv, TypeOK
<1>10. Phases'
  BY <1>2 DEF IInv, Phases
<1>11. Merging'
  <2>1. Inside(in_buffer, record_begin_page, page_count')
    <3> SUFFICES ASSUME NEW x \in in_buffer
                 PROVE  /\ x.id \in 0 .. list_size - 1
                        /\ x.offset = x.id * d - per_page_element * record_begin_page
                        /\ record_begin_page <= FirstPage(x.id)
                        /\ LastPage(x.id) <= record_begin_page + page_count' - 1
      BY DEF Inside
    <3>1. /\ x.id \in 0 .. list_size - 1
          /\ x.offset = x.id * d - per_page_element * record_begin_page
          /\ record_begin_page <= FirstPage(x.id)
          /\ LastPage(x.id) <= record_begin_page + page_count - 1
      BY <1>3 DEF Merging, Inside
    <3>2. LastPage(x.id) \in Nat
      BY <3>1, PagesOf, Numbers
    <3> QED BY <1>3, <1>7, <3>1, <3>2
  <2>2. Inside(in_buffer, record_begin_page, page_count)'
    BY <1>2, <2>1, SameGeometry DEF Inside
  <2> QED BY <1>1, <1>2, <1>3, <1>4, <1>7, <1>8, <2>2 DEF Merging, IsLeast
<1>12. Requests'
  BY <1>2, SameGeometry DEF IInv, Requests, Before
<1>13. Ranks'
  BY <1>2 DEF IInv, Phases, Ranks, OwnBytes, RankedOnce
<1>14. Kept'
  BY <1>1, <1>2, <1>8 DEF IInv, Kept, Considered, Covers, IsLast
<1> QED BY <1>2, <1>8, <1>9, <1>10, <1>11, <1>12, <1>13, <1>14 DEF IInv

(* It is closed before the page the next one begins on.                    *)
LEMMA CutSegmentKeeps == ASSUME IInv, CutSegment PROVE IInv'
<1>1. PICK v \in todo :
        /\ IsLeast(v, todo) /\ FirstPage(v) # current_page
        /\ record_begin_page' = FirstPage(v) /\ current_page' = FirstPage(v)
  BY DEF CutSegment
<1>2. /\ UNCHANGED <<geometry, phase, todo, ranked, inserted, id_dis_map>>
      /\ UNCHANGED <<stage, metric, per_page_element, d, list_size, wanted>>
      /\ page_count' = 1 /\ in_buffer' = {} /\ phase = "merging"
  BY DEF CutSegment, geometry, results
<1>3. Merging /\ ranked = {} /\ inserted = {} /\ id_dis_map = {}
  BY <1>2 DEF IInv, Phases
<1>4. /\ FirstPage(v) \in Nat /\ FirstPage(v) < ListPages
      /\ \A w \in todo : FirstPage(v) <= FirstPage(w)
  BY <1>1, NextInOrder, Numbers
<1>5. current_page < FirstPage(v)
  BY <1>1, <1>3, <1>4, Numbers DEF Merging
<1>6. \A w \in todo : IsLeast(w, todo) => w = v
  BY <1>1, Numbers DEF IsLeast
<1>7. PICK r : r = SegmentRequest(record_begin_page, page_count, in_buffer)
  OBVIOUS
<1>8. /\ GoodRequest(r) /\ r \in Request /\ r.start + r.pages = current_page + 1
      /\ \A q \in pending : Before(q, r)
      /\ \A w \in InBufferIds : Covers(r, w)
  BY <1>1, <1>2, <1>6, <1>7, Closing
<1>9. pending' = pending \cup {r}
  BY <1>7 DEF CutSegment
<1>10. Geometry' /\ ListPages' = ListPages
       /\ \A w : FirstPage(w)' = FirstPage(w) /\ LastPage(w)' = LastPage(w)
       /\ \A q : GoodRequest(q)' <=> GoodRequest(q)
  BY <1>2, SameGeometry, Numbers
<1>11. TypeOK'
  BY <1>1, <1>2, <1>4, <1>8, <1>9, Numbers DEF IInv, TypeOK
<1>12. Phases'
  BY <1>2 DEF IInv, Phases
<1>13. Merging'
  <2>1. \A q \in pending' : q.start + q.pages <= record_begin_page'
    <3>1. r.start + r.pages <= FirstPage(v)
      BY <1>4, <1>5, <1>8, Numbers
    <3>2. ASSUME NEW q \in pending PROVE q.start + q.pages <= FirstPage(v)
      <4>1. q.start + q.pages <= record_begin_page /\ q.start + q.pages \in Nat
        BY <1>3 DEF Merging, IInv, Requests, GoodRequest
      <4>2. record_begin_page <= current_page
        BY <1>3, Numbers DEF Merging
      <4> QED BY <1>4, <1>5, <4>1, <4>2, Numbers
    <3> QED BY <1>1, <1>9, <3>1, <3>2
  <2>2. InBufferIds' = {}
    BY <1>2 DEF InBufferIds
  <2> QED BY <1>1, <1>2, <1>4, <1>10, <2>1, <2>2, Numbers DEF Merging, Inside, IsLeast
<1>14. Requests'
  BY <1>8, <1>9, <1>10 DEF IInv, Requests, Before
<1>15. Ranks'
  BY <1>2, <1>3 DEF Ranks, OwnBytes, RankedOnce
<1>16. Kept'
  <2>1. InBufferIds' = {}
    BY <1>2 DEF InBufferIds
  <2> QED BY <1>2, <1>8, <1>9, <1>10, <2>1 DEF IInv, Kept, Considered, Covers, IsLast
<1> QED BY <1>10, <1>11, <1>12, <1>13, <1>14, <1>15, <1>16 DEF IInv

(* The last one is closed when no vector is left.                          *)
LEMMA SubmitRequestsKeeps == ASSUME IInv, SubmitRequests PROVE IInv'
<1>1. /\ UNCHANGED <<geometry, merge, ranked, inserted, id_dis_map>>
      /\ UNCHANGED <<stage, metric, per_page_element, d, list_size, wanted,
                     todo, in_buffer, record_begin_page, current_page, page_count>>
      /\ todo = {} /\ phase = "merging" /\ phase' = "reading"
  BY DEF SubmitRequests, geometry, results, merge
<1>2. ranked = {} /\ inserted = {} /\ id_dis_map = {}
  BY <1>1 DEF IInv, Phases
<1>3. PICK r : r = SegmentRequest(record_begin_page, page_count, in_buffer)
  OBVIOUS
<1>4. /\ GoodRequest(r) /\ r \in Request
      /\ \A q \in pending : Before(q, r)
      /\ \A w \in InBufferIds : Covers(r, w)
  BY <1>1, <1>3, Closing
<1>5. pending' = pending \cup {r}
  BY <1>3 DEF SubmitRequests
<1>6. Geometry' /\ \A q : GoodRequest(q)' <=> GoodRequest(q)
  BY <1>1, SameGeometry, Numbers
<1>7. TypeOK'
  BY <1>1, <1>4, <1>5, Numbers DEF IInv, TypeOK
<1>8. Phases' /\ (phase = "merging" => Merging)'
  BY <1>1 DEF Phases
<1>9. Requests'
  BY <1>4, <1>5, <1>6 DEF IInv, Requests, Before
<1>10. Ranks'
  BY <1>1, <1>2 DEF Ranks, OwnBytes, RankedOnce
<1>11. Kept'
  <2> SUFFICES ASSUME NEW v \in wanted
               PROVE  \/ \E q \in pending' : Covers(q, v)
                      \/ stage = "full" /\ IsLast(v, wanted) /\ LastPage(v)' > FirstPage(v)'
    BY <1>1, <1>2 DEF Kept, Considered, Covers, IsLast
  <2> QED BY <1>1, <1>2, <1>4, <1>5, SameGeometry DEF IInv, Kept, Considered
<1> QED BY <1>6, <1>7, <1>8, <1>9, <1>10, <1>11 DEF IInv

(* In a request that lies well, the m-th vector is read from its own bytes *)
(* -- but for the full stage with the inner product.                       *)
LEMMA Element ==
  ASSUME Geometry, NEW r, GoodRequest(r), NEW m \in 0 .. r.vectors - 1
  PROVE  /\ r.first + m \in 0 .. list_size - 1 /\ ElementOf(r, m) \in Nat
         /\ Covers(r, r.first + m)
         /\ FromRightBuffer => ElementOf(r, m) = (r.first + m) * d
<1>1. PICK g \in Nat, a \in Nat, n \in Nat :
        /\ g = r.start /\ a = r.first /\ n = r.vectors /\ r.skip = Skip(g)
        /\ a = FirstWhole(g) /\ a + n <= list_size
  BY Align DEF GoodRequest
<1>2. /\ d \in Nat \ {0} /\ per_page_element \in Nat \ {0} /\ m \in Nat /\ m < n
      /\ list_size \in Nat
  BY <1>1 DEF Geometry
<1>3. g * per_page_element + Skip(g) = a * d /\ Skip(g) \in Nat
  BY <1>1, Align
<1>4. (a + m) * d = a * d + m * d
  BY <1>1, <1>2, Distribute
<1>5. /\ g * per_page_element \in Nat /\ m * d \in Nat /\ a * d \in Nat
      /\ (a + m) * d \in Nat
  BY <1>1, <1>2, Product
<1>6. ElementOf(r, m) = IF stage = "full" /\ metric = "IP"
                        THEN g * per_page_element + (a + m) * d
                        ELSE g * per_page_element + Skip(g) + m * d
  BY <1>1 DEF ElementOf
<1>7. ElementOf(r, m) \in Nat
  BY <1>3, <1>5, <1>6
<1>8. FromRightBuffer => ElementOf(r, m) = (a + m) * d
  BY <1>3, <1>4, <1>5, <1>6 DEF Geometry, FromRightBuffer
<1> QED BY <1>1, <1>2, <1>7, <1>8 DEF Covers

(* What a buffer holds has not been ranked out of another one, whichever   *)
(* of its vectors are ranked; all of it is considered.                     *)
LEMMA RankKeeps ==
  ASSUME IInv, NEW r \in pending, NEW passing \in SUBSET Indices(r),
         phase = "reading", UNCHANGED <<geometry, phase, merge>>,
         pending' = pending \ {r},
         ranked' = ranked \cup Places(r, passing),
         id_dis_map' = id_dis_map \cup Positions(r),
         stage = "partial" => passing = Indices(r),
         NEW copied,
         copied = {[at |-> x.id, by |-> r.start,
                    from |-> r.start * per_page_element + x.offset] : x \in r.wants},
         inserted' = inserted \/ inserted' = inserted \cup copied
  PROVE  IInv'
<1> DEFINE new == Places(r, passing)
<1>1. /\ UNCHANGED <<geometry, phase, merge>> /\ phase = "reading"
      /\ UNCHANGED <<stage, metric, per_page_element, d, list_size, wanted,
                     todo, in_buffer, record_begin_page, current_page, page_count>>
      /\ pending' = pending \ {r} /\ ranked' = ranked \cup new
      /\ inserted' \subseteq inserted \cup copied
  BY DEF geometry, merge
<1>2. GoodRequest(r)
  BY DEF IInv, Requests
<1>3. ASSUME NEW y \in new
      PROVE  /\ y \in [at : 0 .. list_size - 1, from : Nat, by : Nat]
             /\ Covers(r, y.at)
             /\ FromRightBuffer => y.from = y.at * d
             /\ y.at - r.first \in Int
             /\ y = [at |-> y.at, from |-> ElementOf(r, y.at - r.first), by |-> r.start]
  <2>1. PICK m \in 0 .. r.vectors - 1 :
          y = [at |-> r.first + m, from |-> ElementOf(r, m), by |-> r.start]
    BY DEF Places, Indices
  <2>2. /\ r.first + m \in 0 .. list_size - 1 /\ ElementOf(r, m) \in Nat
        /\ Covers(r, r.first + m)
        /\ FromRightBuffer => ElementOf(r, m) = (r.first + m) * d
    BY <1>2, Element, Numbers
  <2>3. r.start \in Nat /\ r.first \in Nat /\ (r.first + m) - r.first = m /\ m \in Int
    BY <1>2, Align, Numbers DEF GoodRequest
  <2> QED BY <2>1, <2>2, <2>3
<1>4. ASSUME NEW y \in copied
      PROVE  /\ y \in [at : 0 .. list_size - 1, from : Nat, by : Nat]
             /\ y.from = y.at * d
  <2>1. PICK x \in r.wants :
          y = [at |-> x.id, by |-> r.start,
               from |-> r.start * per_page_element + x.offset]
    OBVIOUS
  <2>2. /\ x.id \in 0 .. list_size - 1 /\ r.start \in Nat
        /\ x.offset = x.id * d - per_page_element * r.start
    BY <1>2 DEF GoodRequest
  <2>3. PICK i \in Nat, g \in Nat : i = x.id /\ g = r.start
    BY <2>2, Numbers
  <2>4. i * d \in Nat /\ per_page_element * g = g * per_page_element
        /\ g * per_page_element \in Nat
    BY Product, Numbers
  <2>5. r.start * per_page_element + x.offset = i * d
    BY <2>2, <2>3, <2>4
  <2> QED BY <2>1, <2>2, <2>3, <2>4, <2>5
<1> HIDE DEF new
<1>5. \A x \in ranked : ~ Covers(r, x.at)
  BY DEF IInv, Ranks
<1>6. ASSUME NEW s \in pending' PROVE \A v \in Nat : Covers(r, v) => ~ Covers(s, v)
  <2>1. s \in pending /\ GoodRequest(s) /\ (Before(r, s) \/ Before(s, r))
    BY <1>1 DEF IInv, Requests
  <2>2. r.first + r.vectors <= s.first \/ s.first + s.vectors <= r.first
    BY <1>2, <2>1, Apart, Numbers
  <2>3. r.first \in Nat /\ r.vectors \in Nat /\ s.first \in Nat /\ s.vectors \in Nat
    BY <1>2, <2>1, Align, Numbers DEF GoodRequest
  <2> QED BY <2>2, <2>3 DEF Covers
<1>7. /\ Geometry' /\ InBufferIds' = InBufferIds
      /\ \A w : FirstPage(w)' = FirstPage(w) /\ LastPage(w)' = LastPage(w)
      /\ \A q : GoodRequest(q)' <=> GoodRequest(q)
  BY <1>1, SameGeometry, Numbers DEF InBufferIds
<1>8. TypeOK'
  <2>1. (ranked \cup inserted)' \subseteq [at : 0 .. list_size - 1, from : Nat, by : Nat]
    BY <1>1, <1>3, <1>4 DEF IInv, TypeOK
  <2>2. id_dis_map' \subseteq 0 .. list_size - 1
    <3>1. Positions(r) \subseteq 0 .. list_size - 1
      BY <1>2, Element, Numbers DEF Positions, Indices
    <3> QED BY <3>1 DEF IInv, TypeOK
  <2> QED BY <1>1, <2>1, <2>2, Numbers DEF IInv, TypeOK
<1>9. Phases' /\ (phase = "merging" => Merging)'
  BY <1>1 DEF Phases
<1>10. Requests'
  BY <1>1, <1>7 DEF IInv, Requests, Before
<1>11. Ranks'
  <2>1. OwnBytes'
    BY <1>1, <1>3, <1>4 DEF IInv, Ranks, OwnBytes, FromRightBuffer
  <2>2. RankedOnce'
    <3> SUFFICES ASSUME NEW x \in ranked', NEW y \in ranked', x.at = y.at PROVE x = y
      BY DEF RankedOnce
    <3>1. CASE x \in ranked /\ y \in ranked
      BY <3>1 DEF IInv, Ranks, RankedOnce
    <3>2. CASE x \in new /\ y \in new
      BY <1>3, <3>2
    <3>3. CASE x \in ranked /\ y \in new
      BY <1>3, <1>5, <3>3
    <3>4. CASE x \in new /\ y \in ranked
      BY <1>3, <1>5, <3>4
    <3> QED BY <1>1, <3>1, <3>2, <3>3, <3>4
  <2>3. ASSUME NEW x \in ranked', NEW s \in pending' PROVE ~ Covers(s, x.at)
    <3>1. CASE x \in ranked
      BY <1>1, <3>1 DEF IInv, Ranks
    <3>2. CASE x \in new
      <4>1. x.at \in Nat /\ Covers(r, x.at)
        BY <1>3, <3>2, Numbers
      <4> QED BY <1>6, <4>1
    <3> QED BY <1>1, <3>1, <3>2
  <2> QED BY <2>1, <2>2, <2>3 DEF Ranks, Covers
<1>12. Kept'
  <2> SUFFICES ASSUME NEW v \in wanted
               PROVE  \/ \E q \in pending' : Covers(q, v)
                      \/ Considered(v)'
                      \/ stage = "full" /\ IsLast(v, wanted) /\ LastPage(v)' > FirstPage(v)'
    BY <1>1 DEF Kept, Considered, Covers, IsLast
  <2>1. CASE Covers(r, v)
    <3>1. v \in Nat /\ r.first \in Nat /\ r.vectors \in Nat
      BY <1>2, Align, Numbers DEF GoodRequest
    <3>2. v - r.first \in Indices(r) /\ r.first + (v - r.first) = v
      BY <2>1, <3>1 DEF Covers, Indices
    <3>3. v \in id_dis_map'
      BY <3>2 DEF Positions
    <3>4. ASSUME stage = "partial" PROVE \E x \in ranked' : x.at = v
      <4>1. PICK x \in new : x = [at |-> r.first + (v - r.first),
                                  from |-> ElementOf(r, v - r.first), by |-> r.start]
        BY <3>2, <3>4 DEF new, Places
      <4>2. x.at = v
        BY <3>2, <4>1
      <4> QED BY <1>1, <4>2
    <3> QED BY <1>1, <3>3, <3>4 DEF Considered
  <2>2. CASE ~ Covers(r, v)
    BY <1>1, <1>7, <2>2 DEF IInv, Kept, Considered
  <2> QED BY <2>1, <2>2
<1> QED BY <1>7, <1>8, <1>9, <1>10, <1>11, <1>12 DEF IInv

(* The full stage ranks the vectors whose estimate passes, a round all of  *)
(* them.                                                                   *)
LEMMA RankFullKeeps ==
  ASSUME IInv, NEW r \in pending, NEW passing \in SUBSET Indices(r), RankFull(r, passing)
  PROVE  IInv'
<1>1. /\ phase = "reading" /\ stage = "full" /\ UNCHANGED <<geometry, phase, merge>>
      /\ pending' = pending \ {r} /\ ranked' = ranked \cup Places(r, passing)
      /\ id_dis_map' = id_dis_map \cup Positions(r) /\ inserted' = inserted
  BY DEF RankFull
<1> QED BY <1>1, RankKeeps

LEMMA RankPartialKeeps ==
  ASSUME IInv, NEW r \in pending, RankPartial(r)
  PROVE  IInv'
<1> DEFINE copied == {[at |-> x.id, by |-> r.start,
                       from |-> r.start * per_page_element + x.offset] : x \in r.wants}
<1>1. /\ phase = "reading" /\ UNCHANGED <<geometry, phase, merge>>
      /\ pending' = pending \ {r} /\ ranked' = ranked \cup Places(r, Indices(r))
      /\ id_dis_map' = id_dis_map \cup Positions(r)
      /\ inserted' = inserted \cup copied
  BY DEF RankPartial
<1> QED BY <1>1, RankKeeps

(* No step leaves the invariant.                                           *)
LEMMA Step == ASSUME IInv, [Next]_vars PROVE IInv'
<1>1. CASE RequestFull
  BY <1>1, RequestFullKeeps
<1>2. CASE StartMerge
  BY <1>2, StartMergeKeeps
<1>3. CASE JoinSegment
  BY <1>3, JoinSegmentKeeps
<1>4. CASE BridgeGap
  BY <1>4, BridgeGapKeeps
<1>5. CASE CutSegment
  BY <1>5, CutSegmentKeeps
<1>6. CASE SubmitRequests
  BY <1>6, SubmitRequestsKeeps
<1>7. ASSUME NEW r \in pending, NEW passing \in SUBSET Indices(r), RankFull(r, passing)
      PROVE  IInv'
  BY <1>7, RankFullKeeps
<1>9. ASSUME NEW r \in pending, RankPartial(r) PROVE IInv'
  BY <1>9, RankPartialKeeps
<1>8. CASE UNCHANGED vars
  <2>1. UNCHANGED <<stage, metric, per_page_element, d, list_size, max_pages, wanted, phase,
                    todo, record_begin_page, current_page, page_count, in_buffer,
                    pending, ranked, inserted, id_dis_map>> /\ UNCHANGED geometry
    BY <1>8 DEF vars, geometry, merge, results
  <2>2. /\ Geometry' /\ ListPages' = ListPages /\ InBufferIds' = InBufferIds
        /\ \A w : FirstPage(w)' = FirstPage(w) /\ LastPage(w)' = LastPage(w)
        /\ \A q : GoodRequest(q)' <=> GoodRequest(q)
        /\ \A W, g, n : Inside(W, g, n)' <=> Inside(W, g, n)
    BY <2>1, SameGeometry, Numbers DEF InBufferIds
  <2>3. TypeOK' /\ Phases'
    BY <2>1 DEF IInv, TypeOK, Phases
  <2>4. (phase = "merging" => Merging)'
    BY <2>1, <2>2 DEF IInv, Merging, IsLeast, IsLast, Inside
  <2>5. Requests' /\ Ranks'
    BY <2>1, <2>2 DEF IInv, Requests, Before, Ranks, OwnBytes, FromRightBuffer,
       RankedOnce, Covers
  <2>6. Kept'
    BY <2>1, <2>2 DEF IInv, Kept, Considered, Covers, IsLast
  <2> QED BY <2>2, <2>3, <2>4, <2>5, <2>6 DEF IInv
<1> QED BY <1>1, <1>2, <1>3, <1>4, <1>5, <1>6, <1>7, <1>8, <1>9 DEF Next

-----------------------------------------------------------------------------
(* The types and the inductive invariant hold for every page size,         *)
(* dimension, list size and gap: no unsigned subtraction of the request    *)
(* arithmetic of search_o wraps.                                           *)
THEOREM Invariant == Spec => []IInv
BY Initially, Step, PTL DEF Spec

(* In the rounds, and with L2 in the full stage, every vector search_o     *)
(* ranks is read from its own bytes, and in every case whatever it copies  *)
(* into a cache.  The full stage with the inner product is exempt: it      *)
(* reads other bytes.                                                      *)
THEOREM VectorsOwnBytes == Spec => []OwnBytes
<1>1. IInv => OwnBytes
  BY DEF IInv, Ranks
<1> QED BY <1>1, Invariant, PTL

(* The m-th vector of a request lies in its pages.                         *)
LEMMA ElementInside ==
  ASSUME Geometry, FromRightBuffer, NEW r, GoodRequest(r), NEW m \in Indices(r)
  PROVE  InPages(r, ElementOf(r, m))
<1> DEFINE p == per_page_element
<1>a. /\ r.start \in Nat /\ r.vectors \in Nat /\ r.pages \in Nat /\ r.skip \in Nat
  BY Align, SMTT(30) DEF GoodRequest, Geometry
<1>1. PICK g \in Nat, n \in Nat, k \in Nat, s \in Nat :
        g = r.start /\ n = r.vectors /\ k = r.pages /\ s = r.skip
  BY <1>a
<1>2. /\ d \in Nat \ {0} /\ p \in Nat \ {0} /\ m \in Nat /\ m + 1 <= n
      /\ s + n * d <= k * p
  BY <1>1 DEF Geometry, GoodRequest, Indices
<1>3. /\ m * d \in Nat /\ n * d \in Nat /\ g * p \in Nat /\ k * p \in Nat
      /\ (m + 1) * d = m * d + d /\ (m + 1) * d <= n * d
      /\ (g + k) * p = g * p + k * p
  BY <1>1, <1>2, Product, Monotone, Distribute
<1>4. ElementOf(r, m) = g * p + s + m * d
  BY <1>1 DEF ElementOf, FromRightBuffer, Geometry
<1> HIDE DEF p
<1>5. g * p <= g * p + s + m * d /\ g * p + s + m * d + d <= (g + k) * p
  BY <1>1, <1>2, <1>3
<1> QED BY <1>1, <1>4, <1>5 DEF InPages, p

(* So does every vector to be copied.                                      *)
LEMMA WantInside ==
  ASSUME Geometry, NEW r, GoodRequest(r), NEW x \in r.wants
  PROVE  InPages(r, r.start * per_page_element + x.offset)
<1> DEFINE p == per_page_element
<1>a. /\ r.start \in Nat /\ r.first \in Nat /\ r.pages \in Nat /\ r.skip \in Nat
      /\ r.start * p + r.skip = r.first * d
  BY Align, SMTT(30) DEF GoodRequest, Geometry
<1>b. x.id \in Nat
  BY DEF GoodRequest, Geometry
<1>1. PICK g \in Nat, a \in Nat, k \in Nat, s \in Nat, i \in Nat :
        /\ g = r.start /\ a = r.first /\ k = r.pages /\ s = r.skip /\ i = x.id
        /\ g * p + s = a * d
  BY <1>a, <1>b
<1>2. /\ d \in Nat \ {0} /\ p \in Nat \ {0} /\ a <= i
      /\ x.offset = i * d - p * g /\ x.offset + d <= k * p
  BY <1>1 DEF Geometry, GoodRequest, Covers
<1>3. /\ i * d \in Nat /\ a * d \in Nat /\ g * p \in Nat /\ k * p \in Nat
      /\ p * g = g * p /\ a * d <= i * d /\ (g + k) * p = g * p + k * p
  BY <1>1, <1>2, Product, Monotone, Distribute
<1> HIDE DEF p
<1>4. g * p <= g * p + x.offset /\ g * p + x.offset + d <= (g + k) * p
  BY <1>1, <1>2, <1>3
<1> QED BY <1>1, <1>4 DEF InPages, p

(* No request leaves the pages of its list or goes past its end, and       *)
(* begin_idx never lies past the end of the list.  What is copied out of a *)
(* buffer, and in the rounds and with L2 what is ranked out of it, lies in *)
(* the pages read.  The full stage with the inner product is exempt: it    *)
(* may read past them.                                                     *)
THEOREM RequestsInside == Spec => []ReadsInside
<1>1. IInv => ReadsInside
  <2> SUFFICES ASSUME IInv, NEW r \in pending
               PROVE  /\ r.pages > 0 /\ r.start + r.pages <= ListPages
                      /\ r.vectors >= 0 /\ r.first + r.vectors <= list_size
                      /\ FromRightBuffer => \A m \in Indices(r) : InPages(r, ElementOf(r, m))
                      /\ \A x \in r.wants : InPages(r, r.start * per_page_element + x.offset)
    BY DEF ReadsInside
  <2>1. Geometry /\ GoodRequest(r)
    BY DEF IInv, Requests
  <2>2. /\ r.pages > 0 /\ r.start + r.pages <= ListPages
        /\ r.vectors >= 0 /\ r.first + r.vectors <= list_size
    BY <2>1 DEF GoodRequest
  <2> QED BY <2>1, <2>2, ElementInside, WantInside
<1> QED BY <1>1, Invariant, PTL

(* The segments merge_pages_transpage cuts share no vector: none is ranked *)
(* twice.                                                                  *)
THEOREM NoneRankedTwice == Spec => []RankedOnce
<1>1. IInv => RankedOnce
  BY DEF IInv, Ranks
<1> QED BY <1>1, Invariant, PTL

(* And none that was wanted is passed over: a round ranks it, the full     *)
(* stage compares it with the heap, but for the last one of a full stage   *)
(* if it goes on on the next page.                                         *)
THEOREM AllWantedConsidered == Spec => []AllConsidered
<1>1. IInv => AllConsidered
  <2> SUFFICES ASSUME IInv, Ranked, NEW v \in wanted
               PROVE  \/ v \in id_dis_map /\ (stage = "partial" => \E x \in ranked : x.at = v)
                      \/ stage = "full" /\ IsLast(v, wanted) /\ LastPage(v) > FirstPage(v)
    BY DEF AllConsidered
  <2> QED BY DEF IInv, Kept, Considered, Ranked
<1> QED BY <1>1, Invariant, PTL
=============================================================================
