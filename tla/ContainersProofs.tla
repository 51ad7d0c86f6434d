------------------------- MODULE ContainersProofs -------------------------
(***************************************************************************)
(* Proofs about vectors, lists and forward lists, any number of them and   *)
(* any elements, as long as an int can hold the capacity of each vector    *)
(* and the number of the nodes: vector_swap and forward_list_swap keep     *)
(* sizes in an int.  No call makes the array of a vector too small, and    *)
(* its sort without a comparator sorts, for any number of bytes and of     *)
(* values of a byte.  The merge sorts of the lists sort fewer than 2^32    *)
(* nodes, the one of list.c stably; rings and chains stay linked without a *)
(* leak; and vectors and lists implement sequences.                        *)
(***************************************************************************)
EXTENDS Containers, MergeSort, SequenceTheorems, FunctionTheorems, FiniteSetTheorems,
        WellFoundedInduction, TLAPS

-----------------------------------------------------------------------------
(* The inductive invariant. *)

Attribute == [min_cap : Nat \ {0}, shrink_factor : Nat \ {0}, comp : BOOLEAN]
Cells == Elems \cup {NoElem}
Arrays == UNION {[0 .. cap - 1 -> Cells] : cap \in Nat}
Struct == [live : BOOLEAN, attr : Attribute, cap : Nat, size : Nat, buf : Arrays]

\* The array is as large as cap says, which an int can hold, and the used cells
\* hold elements.
Good(q) ==
  /\ q \in Struct /\ q.cap >= 1 /\ q.size <= q.cap /\ q.cap <= IntMax
  /\ q.buf \in [0 .. q.cap - 1 -> Cells]
  /\ \A i \in Used(q) : q.buf[i] \in Elems

AllGood == DOMAIN vec = Vectors /\ \A v \in Vectors : Good(vec[v])

\* s holds what t holds, in another order.
Permuted(D, s, t) == \E p \in Bijection(D, D) : \A i \in D : s[i] = t[p[i]]

\* In order as far as the bytes below k go.
SortedBelow(D, s, k) == \A i, j \in D : i < j => s[i] % Weight[k] <= s[j] % Weight[k]

Passes == [of : Vectors, byte : 0 .. ElemSize, src : Arrays]

\* After k passes the elements are sorted by their k low bytes.
Radix ==
  radix # NoRadix =>
    LET D == Used(vec[radix.of]) IN
    /\ radix \in Passes /\ radix.src \in [D -> Elems]
    /\ Permuted(D, radix.src, vec[radix.of].buf)
    /\ SortedBelow(D, radix.src, radix.byte)

VectorInv == AllGood /\ Radix

-----------------------------------------------------------------------------
(* Division. *)

(* What the quotient and the remainder are. *)
LEMMA DivisionFacts ==
  ASSUME NEW a \in Nat, NEW b \in Nat, b >= 1
  PROVE  a \div b \in Nat /\ a % b \in Nat /\ a % b < b /\ a = (a \div b) * b + (a % b)
BY SMTT(60)

(* Multiples of different numbers are at least one factor apart. *)
LEMMA TimesMonotonic ==
  ASSUME NEW x \in Int, NEW y \in Int, NEW b \in Nat, x + 1 <= y
  PROVE  x * b + b <= y * b
BY SMTT(60)

(* There is one quotient and one remainder. *)
LEMMA RemainderUnique ==
  ASSUME NEW a \in Nat, NEW m \in Nat, m >= 1, NEW q \in Nat, NEW r \in Nat, r < m, a = q * m + r
  PROVE  a \div m = q /\ a % m = r
<1> DEFINE q2 == a \div m
           r2 == a % m
<1>1. q2 \in Nat /\ r2 \in Nat /\ r2 < m /\ a = q2 * m + r2
  BY DivisionFacts
<1> HIDE DEF q2, r2
<1>2. ~(q < q2)
  <2>1. SUFFICES ASSUME q + 1 <= q2 PROVE FALSE
    BY <1>1
  <2>2. q * m + m <= q2 * m
    BY <1>1, <2>1, TimesMonotonic
  <2>3. QED
    BY <1>1, <2>2
<1>3. ~(q2 < q)
  <2>1. SUFFICES ASSUME q2 + 1 <= q PROVE FALSE
    BY <1>1
  <2>2. q2 * m + m <= q * m
    BY <1>1, <2>1, TimesMonotonic
  <2>3. QED
    BY <1>1, <2>2
<1>4. q = q2
  BY <1>1, <1>2, <1>3
<1>5. QED
  BY <1>1, <1>4 DEF q2, r2

(* A number below w * b is its digit of weight w and what is below w. *)
LEMMA Digits ==
  ASSUME NEW e \in Nat, NEW w \in Nat, w >= 1, NEW b \in Nat, b >= 1
  PROVE  e % (w * b) = ((e \div w) % b) * w + (e % w)
<1> DEFINE q == e \div w
           r == e % w
           q2 == q \div b
           r2 == q % b
<1>1. q \in Nat /\ r \in Nat /\ r < w /\ e = q * w + r
  BY DivisionFacts
<1> HIDE DEF q
<1>2. q2 \in Nat /\ r2 \in Nat /\ r2 < b /\ q = q2 * b + r2
  BY <1>1, DivisionFacts
<1> HIDE DEF r, q2, r2
<1>3. q * w = q2 * (w * b) + r2 * w
  BY <1>1, <1>2
<1>4. e = q2 * (w * b) + (r2 * w + r)
  BY <1>1, <1>2, <1>3
<1>5. r2 * w + w <= b * w
  BY <1>1, <1>2, TimesMonotonic
<1>6. r2 * w + r < w * b /\ r2 * w + r \in Nat /\ w * b \in Nat /\ w * b >= 1
  BY <1>1, <1>2, <1>5
<1>7. e % (w * b) = r2 * w + r
  BY <1>2, <1>4, <1>6, RemainderUnique
<1>8. QED
  BY <1>7 DEF q, r, q2, r2

(* Half of the least capacity to shrink at leaves room for the elements. *)
LEMMA ShrinkingRoom ==
  ASSUME NEW cap \in Nat, NEW sf \in Nat, sf >= 1
  PROVE  cap \div sf \in Nat /\ cap \div (sf * 2) \in Nat /\ cap \div (sf * 2) <= cap \div sf
<1> DEFINE a == cap \div (sf * 2)
           b == cap \div sf
<1>1. a \in Nat /\ cap = a * (sf * 2) + (cap % (sf * 2)) /\ cap % (sf * 2) \in Nat
  <2> DEFINE m == sf * 2
  <2>1. m \in Nat /\ m >= 1
    OBVIOUS
  <2> HIDE DEF m
  <2>2. cap \div m \in Nat /\ cap = (cap \div m) * m + (cap % m) /\ cap % m \in Nat
    BY <2>1, DivisionFacts
  <2>3. QED
    BY <2>2 DEF m
<1>2. b \in Nat /\ cap = b * sf + (cap % sf) /\ cap % sf \in Nat /\ cap % sf < sf
  BY DivisionFacts
<1> HIDE DEF a, b
<1>3. ~(b < a)
  <2>1. SUFFICES ASSUME b + 1 <= a PROVE FALSE
    BY <1>1, <1>2
  <2>2. b * sf + sf <= a * sf
    BY <1>1, <1>2, <2>1, TimesMonotonic
  <2>3. a * (sf * 2) = a * sf + a * sf /\ a * sf \in Nat
    BY <1>1
  <2>4. QED
    BY <1>1, <1>2, <2>2, <2>3
<1>4. QED
  BY <1>1, <1>2, <1>3 DEF a, b

(* A capacity that is divided does not grow. *)
LEMMA DividedIsLess == ASSUME NEW cap \in Nat, NEW sf \in Nat, sf >= 1 PROVE cap \div sf <= cap
<1> DEFINE b == cap \div sf
<1>1. b \in Nat /\ cap = b * sf + (cap % sf) /\ cap % sf \in Nat
  BY DivisionFacts
<1> HIDE DEF b
<1>2. b * sf >= b /\ b * sf \in Nat
  BY <1>1
<1>3. b <= cap
  BY <1>1, <1>2
<1>4. QED
  BY <1>3 DEF b

-----------------------------------------------------------------------------
(* The array. *)

(* What a good structure offers. *)
LEMMA GoodFacts ==
  ASSUME NEW q, Good(q)
  PROVE  /\ q.cap \in Nat /\ q.size \in Nat /\ q.cap >= 1 /\ q.size <= q.cap /\ q.cap <= IntMax
         /\ q.attr \in Attribute /\ q.live \in BOOLEAN
         /\ q.buf \in [0 .. q.cap - 1 -> Cells] /\ DOMAIN q.buf = 0 .. q.cap - 1
         /\ \A i \in Used(q) : q.buf[i] \in Elems /\ i \in 0 .. q.cap - 1 /\ i \in Nat
BY DEF Good, Struct, Used

(* A structure with a new array is as good as the array. *)
LEMMA GoodBuilt ==
  ASSUME NEW q, Good(q), NEW cap \in Nat, cap >= 1, cap <= IntMax, NEW size \in Nat, size <= cap,
         NEW buf \in [0 .. cap - 1 -> Cells], \A i \in 0 .. size - 1 : buf[i] \in Elems
  PROVE  Good([q EXCEPT !.cap = cap, !.size = size, !.buf = buf])
<1> DEFINE n == [q EXCEPT !.cap = cap, !.size = size, !.buf = buf]
<1>1. buf \in Arrays
  BY DEF Arrays
<1>2. n \in Struct /\ n.cap = cap /\ n.size = size /\ n.buf = buf
  BY <1>1 DEF Good, Struct
<1> HIDE DEF n
<1>3. QED
  BY <1>2 DEF Good, Used, n

(* realloc: any capacity that has room for the used cells will do. *)
LEMMA ReallocGood ==
  ASSUME NEW q, Good(q), NEW cap \in Nat, cap >= 1, cap <= IntMax, q.size <= cap, NEW r \in Realloc(q, cap)
  PROVE  /\ Good(r.q) /\ r.q.size = q.size
         /\ r.rc = "CS_SUCCESS" => r.q.cap = cap
<1> DEFINE buf == [i \in 0 .. cap - 1 |-> IF i \in DOMAIN q.buf THEN q.buf[i] ELSE NoElem]
           n == [q EXCEPT !.cap = cap, !.size = q.size, !.buf = buf]
<1>1. buf \in [0 .. cap - 1 -> Cells] /\ \A i \in 0 .. q.size - 1 : buf[i] \in Elems
  BY GoodFacts DEF Cells, Used
<1> HIDE DEF buf
<1>2. Good(n) /\ n.size = q.size /\ n.cap = cap
  BY <1>1, GoodFacts, GoodBuilt DEF Good, Struct
<1>3. Resized(q, cap) = n
  BY DEF Resized, buf, Good, Struct
<1> HIDE DEF n
<1>4. QED
  BY <1>2, <1>3 DEF Realloc, Answer

(* Room makes room, or fails. *)
LEMMA RoomGood ==
  ASSUME NEW q, Good(q), q.size = q.cap => q.cap * 2 <= IntMax, NEW r \in Room(q)
  PROVE  /\ Good(r.q) /\ r.q.size = q.size
         /\ r.rc = "CS_SUCCESS" => r.q.size < r.q.cap
<1>1. CASE q.size = q.cap
  <2>1. q.cap * 2 \in Nat /\ q.cap * 2 >= 1 /\ q.size <= q.cap * 2 /\ q.size < q.cap * 2
    BY <1>1, GoodFacts
  <2>2. r \in Realloc(q, q.cap * 2)
    BY <1>1 DEF Room
  <2>3. QED
    BY <1>1, <2>1, <2>2, ReallocGood
<1>2. CASE q.size # q.cap
  BY <1>2, GoodFacts DEF Room, Answer
<1>3. QED
  BY <1>1, <1>2

(* Shrinking leaves room for the used cells. *)
LEMMA ShrunkGood == ASSUME NEW q, Good(q), NEW r \in Shrunk(q) PROVE Good(r.q)
<1> DEFINE sf == q.attr.shrink_factor
           least == q.attr.min_cap
           cap == IF q.cap \div sf < least THEN least ELSE q.cap \div sf
<1>1. CASE sf > 1 /\ q.size < q.cap \div (sf * 2) /\ q.cap > least
  <2>1. q.cap \in Nat /\ q.size \in Nat /\ sf \in Nat /\ sf >= 1 /\ least \in Nat /\ least >= 1
    BY GoodFacts DEF Attribute
  <2>2. /\ q.cap \div sf \in Nat /\ q.cap \div (sf * 2) \in Nat
        /\ q.cap \div (sf * 2) <= q.cap \div sf
    BY <2>1, ShrinkingRoom
  <2>3. cap \in Nat /\ cap >= 1 /\ q.size <= cap
    BY <1>1, <2>1, <2>2
  <2>7. q.cap \div sf <= q.cap
    BY <2>1, DividedIsLess
  <2>8. cap <= q.cap /\ q.cap <= IntMax
    BY <1>1, <2>1, <2>2, <2>7, GoodFacts
  <2>9. cap <= IntMax
    BY <2>1, <2>3, <2>8, VectorAssumption
  <2>4. PICK a \in Realloc(q, cap) : r = Answer("CS_SUCCESS", a.q)
    BY <1>1 DEF Shrunk
  <2> HIDE DEF cap
  <2>5. Good(a.q)
    BY <2>3, <2>4, <2>9, ReallocGood
  <2>6. QED
    BY <2>4, <2>5 DEF Answer
<1>2. CASE ~(sf > 1 /\ q.size < q.cap \div (sf * 2) /\ q.cap > least)
  <2>1. Shrunk(q) = {Answer("CS_SUCCESS", q)}
    BY <1>2 DEF Shrunk
  <2>2. QED
    BY <2>1 DEF Answer
<1>3. QED
  BY <1>1, <1>2

(* An element goes in where there is room. *)
LEMMA OpenedGood ==
  ASSUME NEW q, Good(q), q.size < q.cap, NEW e \in Elems, NEW pos \in Nat, pos <= q.size
  PROVE  Good(Opened(q, e, pos))
<1> DEFINE buf == [i \in DOMAIN q.buf |-> CASE i = pos -> e
                                            [] i \in pos + 1 .. q.size -> q.buf[i - 1]
                                            [] OTHER -> q.buf[i]]
<1>1. q.size \in Nat /\ q.cap \in Nat /\ DOMAIN q.buf = 0 .. q.cap - 1
  BY GoodFacts
<1>2. ASSUME NEW i \in 0 .. q.cap - 1
      PROVE  buf[i] \in Cells /\ (i \in 0 .. q.size => buf[i] \in Elems)
  <2>1. CASE i = pos
    BY <1>1, <2>1 DEF Cells
  <2>2. CASE i \in pos + 1 .. q.size
    <3>1. i # pos /\ i - 1 \in Used(q)
      BY <1>1, <2>2 DEF Used
    <3>2. buf[i] = q.buf[i - 1]
      BY <1>1, <2>2, <3>1
    <3>3. QED
      BY <3>1, <3>2, GoodFacts DEF Cells
  <2>3. CASE i # pos /\ i \notin pos + 1 .. q.size
    <3>1. buf[i] = q.buf[i]
      BY <1>1, <2>3
    <3>2. i \in 0 .. q.size => i \in Used(q)
      BY <1>1, <2>3 DEF Used
    <3>3. QED
      BY <3>1, <3>2, GoodFacts
  <2>4. QED
    BY <2>1, <2>2, <2>3
<1>3. buf \in [0 .. q.cap - 1 -> Cells]
  BY <1>1, <1>2
<1> HIDE DEF buf
<1>4. \A i \in 0 .. (q.size + 1) - 1 : buf[i] \in Elems
  BY <1>1, <1>2
<1>5. Good([q EXCEPT !.cap = q.cap, !.size = q.size + 1, !.buf = buf])
  <2>1. q.size + 1 \in Nat /\ q.size + 1 <= q.cap /\ q.cap >= 1 /\ q.cap <= IntMax
    BY <1>1, GoodFacts
  <2>2. QED
    BY <1>1, <1>3, <1>4, <2>1, GoodBuilt
<1>6. Opened(q, e, pos) = [q EXCEPT !.cap = q.cap, !.size = q.size + 1, !.buf = buf]
  BY DEF Opened, buf, Good, Struct
<1>7. QED
  BY <1>5, <1>6

(* An element goes. *)
LEMMA ClosedGood ==
  ASSUME NEW q, Good(q), NEW pos \in Nat, pos < q.size
  PROVE  Good(Closed(q, pos))
<1> DEFINE buf == [i \in DOMAIN q.buf |-> CASE i \in pos .. q.size - 2 -> q.buf[i + 1]
                                            [] i = q.size - 1 -> NoElem
                                            [] OTHER -> q.buf[i]]
<1>1. q.size \in Nat /\ q.cap \in Nat /\ DOMAIN q.buf = 0 .. q.cap - 1 /\ q.size <= q.cap
  BY GoodFacts
<1>2. ASSUME NEW i \in 0 .. q.cap - 1
      PROVE  buf[i] \in Cells /\ (i \in 0 .. q.size - 2 => buf[i] \in Elems)
  <2>1. CASE i \in pos .. q.size - 2
    <3>1. i # q.size - 1 /\ i + 1 \in Used(q)
      BY <1>1, <2>1 DEF Used
    <3>2. buf[i] = q.buf[i + 1]
      BY <1>1, <2>1, <3>1
    <3>3. QED
      BY <3>1, <3>2, GoodFacts DEF Cells
  <2>2. CASE i = q.size - 1
    <3>1. i \notin pos .. q.size - 2 /\ i \notin 0 .. q.size - 2
      BY <1>1, <2>2
    <3>2. buf[i] = NoElem
      BY <1>1, <2>2, <3>1
    <3>3. QED
      BY <3>1, <3>2 DEF Cells
  <2>3. CASE i \notin pos .. q.size - 2 /\ i # q.size - 1
    <3>1. buf[i] = q.buf[i]
      BY <1>1, <2>3
    <3>2. i \in 0 .. q.size - 2 => i \in Used(q)
      BY <1>1 DEF Used
    <3>3. QED
      BY <3>1, <3>2, GoodFacts
  <2>4. QED
    BY <2>1, <2>2, <2>3
<1>3. buf \in [0 .. q.cap - 1 -> Cells]
  BY <1>1, <1>2
<1>4. q.size - 1 \in Nat /\ q.size - 1 <= q.cap
  BY <1>1
<1> HIDE DEF buf
<1>5. \A i \in 0 .. (q.size - 1) - 1 : buf[i] \in Elems
  BY <1>1, <1>2
<1>6. Good([q EXCEPT !.cap = q.cap, !.size = q.size - 1, !.buf = buf])
  BY <1>1, <1>3, <1>4, <1>5, GoodFacts, GoodBuilt
<1>7. Closed(q, pos) = [q EXCEPT !.cap = q.cap, !.size = q.size - 1, !.buf = buf]
  BY DEF Closed, buf, Good, Struct
<1>8. QED
  BY <1>6, <1>7

(* Other contents for the same array. *)
LEMMA RefilledGood ==
  ASSUME NEW q, Good(q), NEW buf \in [0 .. q.cap - 1 -> Cells], \A i \in Used(q) : buf[i] \in Elems
  PROVE  Good([q EXCEPT !.buf = buf])
<1>1. Good([q EXCEPT !.cap = q.cap, !.size = q.size, !.buf = buf])
  BY GoodFacts, GoodBuilt DEF Used
<1>2. [q EXCEPT !.buf = buf] = [q EXCEPT !.cap = q.cap, !.size = q.size, !.buf = buf]
  BY DEF Good, Struct
<1>3. QED
  BY <1>1, <1>2

(* The structure that init fills in. *)
LEMMA FreshGood == ASSUME NEW v \in Vectors PROVE Good(Fresh(v)) /\ Fresh(v) \in Struct
<1>1. Attr[v] \in Attribute
  BY VectorAssumption DEF Attribute
<1>7. Attr[v].min_cap <= IntMax
  BY VectorAssumption
<1>2. Attr[v].min_cap \in Nat /\ Attr[v].min_cap >= 1 /\ Attr[v].min_cap <= IntMax
  BY <1>1, <1>7 DEF Attribute
<1>3. Empty(Attr[v].min_cap) \in [0 .. Attr[v].min_cap - 1 -> Cells]
  BY DEF Empty, Cells
<1>4. Empty(Attr[v].min_cap) \in Arrays
  BY <1>2, <1>3 DEF Arrays
<1>5. Fresh(v) \in Struct
  BY <1>1, <1>2, <1>4 DEF Fresh, Struct
<1>6. QED
  BY <1>2, <1>3, <1>5 DEF Fresh, Good, Used

-----------------------------------------------------------------------------
(* A pass of the radix sort over byte k of the n elements of src. *)

(* The weights of the bytes are positive numbers. *)
LEMMA WeightFacts ==
  ASSUME NEW k \in 0 .. ElemSize
  PROVE  /\ Weight[k] \in Nat /\ Weight[k] >= 1
         /\ k < ElemSize => k + 1 \in 0 .. ElemSize /\ Weight[k + 1] = Weight[k] * Base
         /\ Base \in Nat /\ Base >= 1 /\ Elems \subseteq Nat
<1>1. /\ Weight \in [0 .. ElemSize -> Nat \ {0}] /\ Base \in Nat \ {0} /\ ElemSize \in Nat
      /\ Elems \subseteq 0 .. Weight[ElemSize] - 1
      /\ \A n \in 0 .. ElemSize - 1 : Weight[n + 1] = Weight[n] * Base
  BY VectorAssumption
<1>2. Weight[k] \in Nat \ {0} /\ (k < ElemSize => k \in 0 .. ElemSize - 1 /\ k + 1 \in 0 .. ElemSize)
  BY <1>1
<1>3. Elems \subseteq Nat
  BY <1>1
<1>4. QED
  BY <1>1, <1>2, <1>3

(* The byte decides, and below it the bytes before. *)
LEMMA ByteFacts ==
  ASSUME NEW k \in 0 .. ElemSize, k < ElemSize, NEW e \in Elems
  PROVE  /\ Byte(e, k) \in Nat /\ e % Weight[k] \in Nat /\ e % Weight[k] < Weight[k]
         /\ e % Weight[k + 1] = Byte(e, k) * Weight[k] + (e % Weight[k])
<1>1. /\ Weight[k] \in Nat /\ Weight[k] >= 1 /\ Weight[k + 1] = Weight[k] * Base
      /\ Base \in Nat /\ Base >= 1 /\ e \in Nat
  BY WeightFacts
<1> DEFINE w == Weight[k]
<1>2. e \div w \in Nat /\ e % w \in Nat /\ e % w < w
  BY <1>1, DivisionFacts
<1>3. (e \div w) % Base \in Nat
  BY <1>1, <1>2, DivisionFacts
<1>4. e % (w * Base) = ((e \div w) % Base) * w + (e % w)
  BY <1>1, Digits
<1>5. QED
  BY <1>1, <1>2, <1>3, <1>4 DEF Byte

\* Element i goes before element j: a smaller byte, or as good and seen before.
Before(src, k, i, j) ==
  Byte(src[i], k) < Byte(src[j], k) \/ (Byte(src[i], k) = Byte(src[j], k) /\ i < j)

(* The counts put an element behind all that go before it. *)
LEMMA PlaceIsCount ==
  ASSUME NEW n \in Nat, NEW k \in 0 .. ElemSize, k < ElemSize,
         NEW src \in [0 .. n - 1 -> Elems], NEW i \in 0 .. n - 1
  PROVE  /\ IsFiniteSet({j \in 0 .. n - 1 : Before(src, k, j, i)})
         /\ CountedPlace(src, k, i) = Cardinality({j \in 0 .. n - 1 : Before(src, k, j, i)})
<1> DEFINE D == 0 .. n - 1
           smaller == {j \in D : Byte(src[j], k) < Byte(src[i], k)}
           equal == {j \in D : Byte(src[j], k) = Byte(src[i], k) /\ j < i}
           all == {j \in D : Before(src, k, j, i)}
<1>1. IsFiniteSet(D) /\ DOMAIN src = D
  BY FS_Interval
<1>2. IsFiniteSet(smaller) /\ IsFiniteSet(equal) /\ IsFiniteSet(all)
  BY <1>1, FS_Subset
<1>3. \A j \in D : Byte(src[j], k) \in Nat
  BY ByteFacts
<1>4. smaller \cap equal = {}
  BY <1>3
<1>5. smaller \cup equal = all
  BY DEF Before
<1>6. Cardinality(smaller \cup equal) = Cardinality(smaller) + Cardinality(equal) - Cardinality(smaller \cap equal)
  BY <1>2, FS_Union
<1>7. Cardinality({}) = 0
  BY FS_EmptySet
<1>8. Cardinality(smaller) \in Nat /\ Cardinality(equal) \in Nat
  BY <1>2, FS_CardinalityType
<1>9. CountedPlace(src, k, i) = Cardinality(smaller) + Cardinality(equal)
  BY <1>1 DEF CountedPlace
<1> HIDE DEF smaller, equal, all
<1>10. Cardinality(all) = Cardinality(smaller) + Cardinality(equal)
  <2>1. Cardinality(all) = Cardinality(smaller) + Cardinality(equal) - 0
    BY <1>4, <1>5, <1>6, <1>7, Zenon
  <2>2. QED
    BY <1>8, <2>1
<1>11. QED
  BY <1>2, <1>9, <1>10 DEF all

(* The places are the indices of the array, and keep the order. *)
LEMMA PlaceFacts ==
  ASSUME NEW n \in Nat, NEW k \in 0 .. ElemSize, k < ElemSize,
         NEW src \in [0 .. n - 1 -> Elems]
  PROVE  /\ \A i \in 0 .. n - 1 : CountedPlace(src, k, i) \in 0 .. n - 1
         /\ \A i, j \in 0 .. n - 1 :
              Before(src, k, i, j) => CountedPlace(src, k, i) < CountedPlace(src, k, j)
         /\ \A i, j \in 0 .. n - 1 : i # j => Before(src, k, i, j) \/ Before(src, k, j, i)
<1> DEFINE D == 0 .. n - 1
           Below(i) == {j \in D : Before(src, k, j, i)}
           P(i) == CountedPlace(src, k, i)
<1>1. \A j \in D : Byte(src[j], k) \in Nat
  BY ByteFacts
<1>2. IsFiniteSet(D) /\ Cardinality(D) = n
  BY FS_Interval
<1>3. ASSUME NEW i \in D
      PROVE  IsFiniteSet(Below(i)) /\ P(i) = Cardinality(Below(i)) /\ P(i) \in Nat /\ i \notin Below(i)
  <2>1. IsFiniteSet(Below(i)) /\ P(i) = Cardinality(Below(i))
    BY PlaceIsCount
  <2>2. i \notin Below(i)
    BY <1>1 DEF Before
  <2>3. QED
    BY <2>1, <2>2, FS_CardinalityType
<1>4. ASSUME NEW i \in D PROVE P(i) \in D
  <2>1. Below(i) \subseteq D \ {i}
    BY <1>3
  <2>2. IsFiniteSet(D \ {i}) /\ Cardinality(D \ {i}) = Cardinality(D) - 1
    BY <1>2, FS_RemoveElement, Zenon
  <2>3. Cardinality(Below(i)) <= Cardinality(D \ {i})
    BY <2>1, <2>2, FS_Subset, Zenon
  <2>4. P(i) \in Nat /\ P(i) <= n - 1
    <3> HIDE DEF Below, P, D
    <3>1. QED
      BY <1>2, <1>3, <2>2, <2>3
  <2>5. QED
    BY <2>4
<1>5. ASSUME NEW i \in D, NEW j \in D, Before(src, k, i, j) PROVE P(i) < P(j)
  <2>1. Below(i) \cup {i} \subseteq Below(j)
    BY <1>1, <1>5 DEF Before
  <2>2. Cardinality(Below(i) \cup {i}) = Cardinality(Below(i)) + 1
    BY <1>3, FS_AddElement
  <2>3. Cardinality(Below(i) \cup {i}) <= Cardinality(Below(j))
    BY <1>3, <2>1, FS_Subset
  <2>4. QED
    <3> HIDE DEF Below, P, D
    <3>1. QED
      BY <1>3, <2>2, <2>3
<1>6. ASSUME NEW i \in D, NEW j \in D, i # j PROVE Before(src, k, i, j) \/ Before(src, k, j, i)
  BY <1>1, <1>6 DEF Before
<1>7. QED
  BY <1>4, <1>5, <1>6

\* The element that a pass puts at an index.
From(src, k, to) == CHOOSE i \in DOMAIN src : CountedPlace(src, k, i) = to

(* Every index gets one element, and every element one index. *)
LEMMA FromFacts ==
  ASSUME NEW n \in Nat, NEW k \in 0 .. ElemSize, k < ElemSize,
         NEW src \in [0 .. n - 1 -> Elems]
  PROVE  /\ \A to \in 0 .. n - 1 : /\ From(src, k, to) \in 0 .. n - 1
                                   /\ CountedPlace(src, k, From(src, k, to)) = to
         /\ [to \in 0 .. n - 1 |-> From(src, k, to)] \in Bijection(0 .. n - 1, 0 .. n - 1)
<1> DEFINE D == 0 .. n - 1
           P == [i \in D |-> CountedPlace(src, k, i)]
           C == [to \in D |-> From(src, k, to)]
<1>1. \A i \in D : P[i] \in D
  BY PlaceFacts
<1>2. ASSUME NEW i \in D, NEW j \in D, P[i] = P[j] PROVE i = j
  BY <1>1, <1>2, PlaceFacts
<1>3. P \in Injection(D, D)
  BY <1>1, <1>2, Fun_IsInj
<1>4. IsFiniteSet(D)
  BY FS_Interval
<1> HIDE DEF P
<1>5. P \in Surjection(D, D)
  BY <1>3, <1>4, FS_Injection
<1>6. \A to \in D : \E i \in D : P[i] = to
  BY <1>5 DEF Surjection
<1>7. \A to \in D : From(src, k, to) \in D /\ CountedPlace(src, k, From(src, k, to)) = to
  BY <1>6 DEF From, P
<1>8. C \in [D -> D]
  BY <1>7
<1>9. ASSUME NEW a \in D, NEW b \in D, C[a] = C[b] PROVE a = b
  BY <1>7, <1>9
<1>10. C \in Injection(D, D)
  BY <1>8, <1>9, Fun_IsInj
<1> HIDE DEF C
<1>11. C \in Surjection(D, D)
  BY <1>4, <1>10, FS_Injection
<1>12. C \in Bijection(D, D)
  BY <1>10, <1>11 DEF Bijection
<1>13. QED
  BY <1>7, <1>12 DEF C

(* A pass keeps the elements and sorts them by one byte more. *)
LEMMA PassSorts ==
  ASSUME NEW n \in Nat, NEW k \in 0 .. ElemSize, k < ElemSize,
         NEW src \in [0 .. n - 1 -> Elems], SortedBelow(0 .. n - 1, src, k),
         NEW t, Permuted(0 .. n - 1, src, t), NEW dst,
         dst = [to \in 0 .. n - 1 |-> src[From(src, k, to)]]
  PROVE  /\ dst \in [0 .. n - 1 -> Elems]
         /\ Permuted(0 .. n - 1, dst, t) /\ SortedBelow(0 .. n - 1, dst, k + 1)
<1> DEFINE D == 0 .. n - 1
           C == [to \in D |-> From(src, k, to)]
<1>1. \A to \in D : From(src, k, to) \in D /\ CountedPlace(src, k, From(src, k, to)) = to
  BY FromFacts
<1>2. C \in Bijection(D, D)
  BY FromFacts
<1>3. dst \in [D -> Elems] /\ \A to \in D : dst[to] = src[From(src, k, to)]
  BY <1>1
<1>4. Permuted(D, dst, t)
  <2>1. PICK p \in Bijection(D, D) : \A i \in D : src[i] = t[p[i]]
    BY DEF Permuted
  <2>2. [to \in D |-> p[C[to]]] \in Bijection(D, D)
    <3> HIDE DEF C, D
    <3>1. QED
      BY <1>2, <2>1, Fun_BijTransitive
  <2>3. \A to \in D : dst[to] = t[[x \in D |-> p[C[x]]][to]]
    BY <1>1, <1>3, <2>1
  <2>4. QED
    BY <2>2, <2>3 DEF Permuted
<1>5. ASSUME NEW a \in D, NEW b \in D, a < b PROVE dst[a] % Weight[k + 1] <= dst[b] % Weight[k + 1]
  <2> DEFINE i == From(src, k, a)
             j == From(src, k, b)
             w == Weight[k]
  <2>1. i \in D /\ j \in D /\ CountedPlace(src, k, i) = a /\ CountedPlace(src, k, j) = b
    BY <1>1
  <2>2. dst[a] = src[i] /\ dst[b] = src[j] /\ src[i] \in Elems /\ src[j] \in Elems
    BY <1>3, <2>1
  <2> HIDE DEF i, j
  <2>3. Before(src, k, i, j)
    <3>1. i # j
      BY <1>5, <2>1
    <3>2. ~Before(src, k, j, i)
      <4>1. SUFFICES ASSUME Before(src, k, j, i) PROVE FALSE
        OBVIOUS
      <4>2. b < a
        BY <2>1, <4>1, PlaceFacts
      <4>3. QED
        BY <1>5, <4>2
    <3>3. QED
      BY <2>1, <3>1, <3>2, PlaceFacts
  <2>4. /\ Byte(src[i], k) \in Nat /\ src[i] % w \in Nat /\ src[i] % w < w
        /\ src[i] % Weight[k + 1] = Byte(src[i], k) * w + (src[i] % w)
    BY <2>2, ByteFacts
  <2>5. /\ Byte(src[j], k) \in Nat /\ src[j] % w \in Nat /\ src[j] % w < w
        /\ src[j] % Weight[k + 1] = Byte(src[j], k) * w + (src[j] % w)
    BY <2>2, ByteFacts
  <2>6. w \in Nat
    BY WeightFacts
  <2>7. CASE Byte(src[i], k) < Byte(src[j], k)
    <3>1. Byte(src[i], k) * w + w <= Byte(src[j], k) * w
      <4> DEFINE x == Byte(src[i], k)
                 y == Byte(src[j], k)
      <4>1. x \in Int /\ y \in Int /\ x + 1 <= y
        BY <2>4, <2>5, <2>7
      <4> HIDE DEF x, y, w
      <4>2. x * w + w <= y * w
        BY <2>6, <4>1, TimesMonotonic
      <4>3. QED
        BY <4>2 DEF x, y
    <3>2. Byte(src[i], k) * w \in Nat /\ Byte(src[j], k) * w \in Nat
      BY <2>4, <2>5, <2>6
    <3> HIDE DEF w
    <3>3. QED
      BY <2>2, <2>4, <2>5, <2>6, <3>1, <3>2
  <2>8. CASE Byte(src[i], k) = Byte(src[j], k) /\ i < j
    <3>1. src[i] % w <= src[j] % w
      BY <2>1, <2>8 DEF SortedBelow
    <3>2. Byte(src[i], k) * w = Byte(src[j], k) * w /\ Byte(src[i], k) * w \in Nat
      BY <2>4, <2>6, <2>8
    <3> HIDE DEF w
    <3>3. QED
      BY <2>2, <2>4, <2>5, <3>1, <3>2
  <2>9. QED
    BY <2>3, <2>7, <2>8 DEF Before
<1>6. QED
  BY <1>3, <1>4, <1>5 DEF SortedBelow

-----------------------------------------------------------------------------
(* The steps. *)

(* A call that returns leaves good structures. *)
LEMMA ReplyGood ==
  ASSUME VectorInv, radix = NoRadix, NEW v \in Vectors, NEW answers, \A r \in answers : Good(r.q),
         Reply(v, answers)
  PROVE  VectorInv'
<1>1. PICK r \in answers : vec' = [vec EXCEPT ![v] = r.q] /\ UNCHANGED radix
  BY DEF Reply
<1>2. AllGood'
  BY <1>1 DEF VectorInv, AllGood
<1>3. QED
  BY <1>1, <1>2 DEF VectorInv, Radix

(* A call that refuses its arguments. *)
LEMMA RefuseGood == ASSUME VectorInv, NEW code, Refuse(code) PROVE VectorInv'
BY DEF VectorInv, AllGood, Radix, Refuse

(* push_back and insert_elem. *)
LEMMA PutGood ==
  ASSUME NEW q, Good(q), q.size = q.cap => q.cap * 2 <= IntMax,
         NEW e \in Elems, NEW pos \in Nat, pos <= q.size, NEW r \in Put(q, e, pos)
  PROVE  Good(r.q)
<1>1. PICK a \in Room(q) :
        r = IF a.rc = "CS_SUCCESS" THEN Answer("CS_SUCCESS", Opened(a.q, e, pos)) ELSE a
  BY DEF Put
<1>2. Good(a.q) /\ a.q.size = q.size /\ (a.rc = "CS_SUCCESS" => a.q.size < a.q.cap)
  BY <1>1, RoomGood
<1>3. a.rc = "CS_SUCCESS" => Good(Opened(a.q, e, pos))
  BY <1>2, OpenedGood
<1>4. QED
  BY <1>1, <1>2, <1>3 DEF Answer

(* What a call may count on. *)
LEMMA UsableFacts ==
  ASSUME VectorInv, NEW v \in Vectors, Usable(v)
  PROVE  radix = NoRadix /\ Good(vec[v]) /\ vec[v].size \in Nat /\ vec[v].cap \in Nat
BY GoodFacts DEF VectorInv, AllGood, Usable

(* push_back appends to an array with room. *)
LEMMA PushBackStep == ASSUME VectorInv, NEW v \in Vectors, NEW e \in Elems, PushBack(v, e) PROVE VectorInv'
<1>1. radix = NoRadix /\ Good(vec[v]) /\ vec[v].size \in Nat
      /\ (vec[v].size = vec[v].cap => vec[v].cap * 2 <= IntMax)
  BY UsableFacts DEF PushBack, Bounded
<1>2. \A r \in Put(vec[v], e, vec[v].size) : Good(r.q)
  BY <1>1, PutGood
<1>3. QED
  BY <1>1, <1>2, ReplyGood DEF PushBack

(* pop_back shrinks the array by no more than its elements allow. *)
LEMMA PopBackStep == ASSUME VectorInv, NEW v \in Vectors, PopBack(v) PROVE VectorInv'
<1>1. radix = NoRadix /\ Good(vec[v]) /\ vec[v].size \in Nat
  BY UsableFacts DEF PopBack
<1>2. CASE vec[v].size = 0
  BY <1>2, RefuseGood DEF PopBack
<1>3. CASE vec[v].size # 0
  <2>1. Good(Closed(vec[v], vec[v].size - 1))
    BY <1>1, <1>3, ClosedGood
  <2>2. \A r \in Shrunk(Closed(vec[v], vec[v].size - 1)) : Good(r.q)
    BY <2>1, ShrunkGood
  <2>3. QED
    BY <1>1, <1>3, <2>2, ReplyGood DEF PopBack
<1>4. QED
  BY <1>2, <1>3

(* insert_elem, erase and replace, at any index. *)
LEMMA EditStep == ASSUME VectorInv, NEW v \in Vectors, Edit(v) PROVE VectorInv'
<1>1. radix = NoRadix /\ Good(vec[v]) /\ vec[v].size \in Nat
  BY UsableFacts DEF Edit, Erase, InsertElem, Replace
<1> DEFINE q == vec[v]
<1>2. PICK pos \in 0 .. q.size + 1 :
        Erase(v, pos) \/ \E e \in Elems : InsertElem(v, e, pos) \/ Replace(v, e, pos)
  BY DEF Edit
<1>3. pos \in Nat
  BY <1>1
<1>4. CASE Erase(v, pos)
  <2>1. CASE q.size = 0
    BY <1>4, <2>1, RefuseGood DEF Erase
  <2>2. CASE q.size # 0 /\ pos >= q.size
    BY <1>4, <2>2, RefuseGood DEF Erase
  <2>3. CASE q.size # 0 /\ ~(pos >= q.size)
    <3>1. pos < q.size
      BY <1>1, <1>3, <2>3
    <3>2. \A r \in Shrunk(Closed(q, pos)) : Good(r.q)
      BY <1>1, <1>3, <3>1, ClosedGood, ShrunkGood
    <3>3. QED
      BY <1>1, <1>4, <2>3, <3>2, ReplyGood DEF Erase
  <2>4. QED
    BY <2>1, <2>2, <2>3
<1>5. ASSUME NEW e \in Elems, InsertElem(v, e, pos) PROVE VectorInv'
  <2>1. CASE pos > q.size
    BY <1>5, <2>1, RefuseGood DEF InsertElem
  <2>2. CASE ~(pos > q.size)
    <3>1. pos <= q.size
      BY <1>1, <1>3, <2>2
    <3>2. \A r \in Put(q, e, pos) : Good(r.q)
      <4>1. q.size = q.cap => q.cap * 2 <= IntMax
        BY <1>5 DEF InsertElem, Bounded
      <4>2. QED
        BY <1>1, <1>3, <3>1, <4>1, PutGood
    <3>3. QED
      BY <1>1, <1>5, <2>2, <3>2, ReplyGood DEF InsertElem
  <2>3. QED
    BY <2>1, <2>2
<1>6. ASSUME NEW e \in Elems, Replace(v, e, pos) PROVE VectorInv'
  <2>1. CASE q.size = 0
    BY <1>6, <2>1, RefuseGood DEF Replace
  <2>2. CASE q.size # 0 /\ pos >= q.size
    BY <1>6, <2>2, RefuseGood DEF Replace
  <2>3. CASE q.size # 0 /\ ~(pos >= q.size)
    <3> DEFINE buf == [q.buf EXCEPT ![pos] = e]
    <3>1. buf \in [0 .. q.cap - 1 -> Cells] /\ \A i \in Used(q) : buf[i] \in Elems
      BY <1>1, GoodFacts DEF Cells
    <3> HIDE DEF buf
    <3>2. Good([q EXCEPT !.buf = buf])
      BY <1>1, <3>1, RefilledGood
    <3>3. [q EXCEPT !.buf[pos] = e] = [q EXCEPT !.buf = buf]
      BY DEF buf
    <3>4. \A r \in {Answer("CS_SUCCESS", [q EXCEPT !.buf[pos] = e])} : Good(r.q)
      BY <3>2, <3>3 DEF Answer
    <3>5. Reply(v, {Answer("CS_SUCCESS", [q EXCEPT !.buf[pos] = e])})
      BY <1>6, <2>3 DEF Replace
    <3>6. QED
      BY <1>1, <3>4, <3>5, ReplyGood
  <2>4. QED
    BY <2>1, <2>2, <2>3
<1>7. QED
  BY <1>2, <1>4, <1>5, <1>6

(* reserve and shrink_to_fit. *)
LEMMA CapacityStep == ASSUME VectorInv, NEW v \in Vectors, Capacity(v) PROVE VectorInv'
<1> DEFINE q == vec[v]
<1>1. radix = NoRadix /\ Good(q) /\ q.size \in Nat /\ q.cap \in Nat /\ q.cap >= 1 /\ q.size <= q.cap
      /\ q.cap <= IntMax /\ IntMax \in Nat
  BY UsableFacts, GoodFacts, VectorAssumption DEF Capacity, ShrinkToFit, Reserve
<1>2. ASSUME NEW cap \in Reserves, Reserve(v, cap) PROVE VectorInv'
  <2>1. cap \in Nat /\ cap <= IntMax
    BY VectorAssumption
  <2>2. CASE cap = 0
    BY <1>2, <2>2, RefuseGood DEF Reserve
  <2>3. CASE cap # 0 /\ cap < q.cap
    BY <1>2, <2>3, RefuseGood DEF Reserve
  <2>4. CASE cap # 0 /\ ~(cap < q.cap)
    <3>1. cap >= 1 /\ q.size <= cap
      BY <1>1, <2>1, <2>4
    <3>2. \A r \in Realloc(q, cap) : Good(r.q)
      BY <1>1, <2>1, <3>1, ReallocGood
    <3>3. QED
      BY <1>1, <1>2, <2>4, <3>2, ReplyGood DEF Reserve
  <2>5. QED
    BY <2>2, <2>3, <2>4
<1>3. CASE ShrinkToFit(v)
  <2> DEFINE cap == IF q.size > 0 THEN q.size ELSE 1
  <2>1. CASE q.size >= q.cap
    BY <1>3, <2>1, RefuseGood DEF ShrinkToFit
  <2>2. CASE ~(q.size >= q.cap)
    <3>1. cap \in Nat /\ cap >= 1 /\ q.size <= cap /\ cap <= IntMax
      BY <1>1
    <3>2. Reply(v, Realloc(q, cap))
      BY <1>3, <2>2 DEF ShrinkToFit
    <3> HIDE DEF cap
    <3>3. \A r \in Realloc(q, cap) : Good(r.q)
      BY <1>1, <3>1, ReallocGood
    <3>4. QED
      BY <1>1, <3>2, <3>3, ReplyGood
  <2>3. QED
    BY <2>1, <2>2
<1>4. QED
  BY <1>2, <1>3 DEF Capacity

(* qsort exchanges the used cells among themselves. *)
LEMMA SortByCompStep == ASSUME VectorInv, NEW v \in Vectors, SortByComp(v) PROVE VectorInv'
<1> DEFINE q == vec[v]
<1>1. radix = NoRadix /\ Good(q)
  BY UsableFacts DEF SortByComp
<1>2. PICK p \in Bijection(Used(q), Used(q)) :
        Reply(v, {Answer("CS_SUCCESS", [q EXCEPT !.buf =
                   [i \in DOMAIN @ |-> IF i \in Used(q) THEN q.buf[p[i]] ELSE @[i]]])})
  BY DEF SortByComp
<1> DEFINE buf == [i \in DOMAIN q.buf |-> IF i \in Used(q) THEN q.buf[p[i]] ELSE q.buf[i]]
<1>3. p \in [Used(q) -> Used(q)]
  BY <1>2, Fun_BijectionProperties
<1>4. \A i \in Used(q) : buf[i] \in Elems
  BY <1>1, <1>3, GoodFacts
<1>5. buf \in [0 .. q.cap - 1 -> Cells]
  BY <1>1, <1>4, GoodFacts DEF Cells
<1> HIDE DEF buf
<1>6. Good([q EXCEPT !.buf = buf])
  BY <1>1, <1>4, <1>5, RefilledGood
<1>7. Reply(v, {Answer("CS_SUCCESS", [q EXCEPT !.buf = buf])})
  BY <1>2 DEF buf
<1>8. \A r \in {Answer("CS_SUCCESS", [q EXCEPT !.buf = buf])} : Good(r.q)
  BY <1>6 DEF Answer
<1>9. QED
  BY <1>1, <1>7, <1>8, ReplyGood

(* The radix sort starts from the used cells as they are. *)
LEMMA RadixStartStep == ASSUME VectorInv, NEW v \in Vectors, RadixStart(v) PROVE VectorInv'
<1> DEFINE q == vec[v]
           D == Used(q)
           src == [i \in D |-> q.buf[i]]
<1>1. radix = NoRadix /\ Good(q) /\ q.size \in Nat
  BY UsableFacts DEF RadixStart
<1>2. CASE Refuse("CS_SUCCESS")
  BY <1>2, RefuseGood
<1>3. CASE radix' = [of |-> v, byte |-> 0, src |-> src] /\ UNCHANGED << vec, ret >>
  <2>1. src \in [D -> Elems]
    BY <1>1, GoodFacts
  <2>2. src \in Arrays
    BY <1>1, <2>1 DEF Arrays, Cells, Used
  <2>3. 0 \in 0 .. ElemSize /\ Weight[0] = 1
    BY VectorAssumption
  <2>4. radix' \in Passes /\ radix'.of = v /\ radix'.byte = 0 /\ radix'.src = src
    BY <1>3, <2>2, <2>3 DEF Passes
  <2>5. Permuted(D, src, q.buf)
    <3>1. [i \in D |-> i] \in Bijection(D, D)
      BY Fun_IsBij
    <3>2. \A i \in D : src[i] = q.buf[[j \in D |-> j][i]]
      OBVIOUS
    <3>3. QED
      BY <3>1, <3>2 DEF Permuted
  <2>6. SortedBelow(D, src, 0)
    <3>1. ASSUME NEW e \in Elems PROVE e % Weight[0] = 0
      <4>1. e \in Nat
        BY <2>3, WeightFacts
      <4>2. e % 1 \in Nat /\ e % 1 < 1
        BY <4>1, DivisionFacts
      <4>3. QED
        BY <2>3, <4>2
    <3>2. QED
      BY <2>1, <3>1 DEF SortedBelow
  <2> HIDE DEF src
  <2>7. vec' = vec
    BY <1>3
  <2>8. Radix'
    BY <2>1, <2>4, <2>5, <2>6, <2>7 DEF Radix
  <2>9. QED
    BY <2>7, <2>8 DEF VectorInv, AllGood
<1>4. QED
  BY <1>2, <1>3 DEF RadixStart

(* What is known during a radix sort. *)
LEMMA RadixFacts ==
  ASSUME VectorInv, radix # NoRadix
  PROVE  LET q == vec[radix.of]
             D == Used(q)
         IN  /\ radix.of \in Vectors /\ Good(q) /\ q.size \in Nat /\ D = 0 .. q.size - 1
             /\ radix \in Passes /\ radix.byte \in 0 .. ElemSize
             /\ radix.src \in [D -> Elems] /\ DOMAIN radix.src = D
             /\ Permuted(D, radix.src, q.buf) /\ SortedBelow(D, radix.src, radix.byte)
<1>1. radix.of \in Vectors /\ radix.byte \in 0 .. ElemSize
  BY DEF VectorInv, Radix, Passes
<1>2. Good(vec[radix.of])
  BY <1>1 DEF VectorInv, AllGood
<1>3. QED
  BY <1>1, <1>2, GoodFacts DEF VectorInv, Radix, Used

(* One pass of the radix sort: the elements are sorted by one more byte. *)
LEMMA RadixPassStep == ASSUME VectorInv, RadixPass PROVE VectorInv'
<1> DEFINE q == vec[radix.of]
           n == q.size
           D == 0 .. n - 1
           src == radix.src
           k == radix.byte
           dst == [to \in D |-> src[From(src, k, to)]]
<1>1. radix # NoRadix /\ k < ElemSize /\ UNCHANGED << vec, ret >>
  BY DEF RadixPass
<1>2. /\ radix.of \in Vectors /\ Good(q) /\ n \in Nat /\ Used(q) = D
      /\ radix \in Passes /\ k \in 0 .. ElemSize /\ src \in [D -> Elems] /\ DOMAIN src = D
      /\ Permuted(D, src, q.buf) /\ SortedBelow(D, src, k)
  BY <1>1, RadixFacts
<1>3. dst \in [D -> Elems] /\ Permuted(D, dst, q.buf) /\ SortedBelow(D, dst, k + 1)
  <2> HIDE DEF n, src, k
  <2>1. QED
    BY <1>1, <1>2, PassSorts
<1>4. radix' = [radix EXCEPT !.byte = k + 1, !.src = dst]
  BY <1>2 DEF RadixPass, From
<1>5. dst \in Arrays /\ k + 1 \in 0 .. ElemSize
  <2>1. dst \in [D -> Cells]
    BY <1>3 DEF Cells
  <2>2. dst \in Arrays
    BY <1>2, <2>1 DEF Arrays
  <2>3. k + 1 \in 0 .. ElemSize
    BY <1>1, <1>2, WeightFacts
  <2>4. QED
    BY <2>2, <2>3
<1> HIDE DEF dst
<1>6. radix' \in Passes /\ radix'.of = radix.of /\ radix'.byte = k + 1 /\ radix'.src = dst
  BY <1>2, <1>4, <1>5 DEF Passes
<1>7. vec' = vec
  BY <1>1
<1>8. Used(vec'[radix'.of]) = D /\ vec'[radix'.of].buf = q.buf
  BY <1>2, <1>6, <1>7
<1>9. Radix'
  BY <1>3, <1>6, <1>7, <1>8 DEF Radix, Used
<1>10. QED
  BY <1>7, <1>9 DEF VectorInv, AllGood

(* What the radix sort leaves in the array. *)
LEMMA RadixEndFacts ==
  ASSUME VectorInv, RadixEnd
  PROVE  LET q == vec[radix.of]
             D == Used(q)
             buf == vec'[radix.of].buf
         IN  /\ Permuted(D, buf, q.buf)
             /\ \A i, j \in D : i < j => buf[i] <= buf[j]
             /\ VectorInv'
<1> DEFINE q == vec[radix.of]
           D == Used(q)
           src == radix.src
           buf == [i \in DOMAIN q.buf |-> IF i \in DOMAIN src THEN src[i] ELSE q.buf[i]]
<1>1. radix # NoRadix /\ radix.byte = ElemSize /\ radix' = NoRadix
  BY DEF RadixEnd
<1>2. /\ radix.of \in Vectors /\ Good(q) /\ q.size \in Nat /\ ElemSize \in 0 .. ElemSize
      /\ src \in [D -> Elems] /\ DOMAIN src = D
      /\ Permuted(D, src, q.buf) /\ SortedBelow(D, src, ElemSize)
  BY <1>1, RadixFacts
<1>3. vec' = [vec EXCEPT ![radix.of] = [q EXCEPT !.buf = buf]]
  BY <1>2 DEF RadixEnd, VectorInv, AllGood
<1>4. \A i \in D : buf[i] = src[i] /\ buf[i] \in Elems
  BY <1>2, GoodFacts
<1>5. buf \in [0 .. q.cap - 1 -> Cells]
  BY <1>2, GoodFacts DEF Cells
<1> HIDE DEF buf
<1>6. Good([q EXCEPT !.buf = buf])
  BY <1>2, <1>4, <1>5, RefilledGood
<1>7. vec'[radix.of].buf = buf
  BY <1>2, <1>3 DEF VectorInv, AllGood, Good, Struct
<1>8. VectorInv'
  <2>1. AllGood'
    BY <1>3, <1>6 DEF VectorInv, AllGood
  <2>2. QED
    BY <1>1, <2>1 DEF VectorInv, Radix
<1>9. ASSUME NEW e \in Elems PROVE e % Weight[ElemSize] = e
  <2>1. e \in Nat /\ Weight[ElemSize] \in Nat /\ Weight[ElemSize] >= 1
    BY <1>2, WeightFacts
  <2>2. e < Weight[ElemSize]
    <3>1. e \in 0 .. Weight[ElemSize] - 1
      BY VectorAssumption
    <3>2. QED
      BY <2>1, <3>1
  <2>3. e = 0 * Weight[ElemSize] + e
    BY <2>1
  <2>4. QED
    BY <2>1, <2>2, <2>3, RemainderUnique
<1>10. \A i, j \in D : i < j => buf[i] <= buf[j]
  BY <1>2, <1>4, <1>9 DEF SortedBelow
<1>11. Permuted(D, buf, q.buf)
  BY <1>2, <1>4 DEF Permuted
<1>12. QED
  BY <1>7, <1>8, <1>10, <1>11

(* clear, swap, free and init. *)
LEMMA ClearStep == ASSUME VectorInv, NEW v \in Vectors, Clear(v) PROVE VectorInv'
<1> DEFINE q == vec[v]
           n == [q EXCEPT !.size = 0, !.buf = Empty(q.cap)]
<1>1. radix = NoRadix /\ Good(q)
  BY UsableFacts DEF Clear
<1>2. Empty(q.cap) \in [0 .. q.cap - 1 -> Cells]
  BY DEF Empty, Cells
<1>3. Good([q EXCEPT !.cap = q.cap, !.size = 0, !.buf = Empty(q.cap)])
  <2> DEFINE buf == Empty(q.cap)
  <2>1. q.cap \in Nat /\ q.cap >= 1 /\ q.cap <= IntMax
    BY <1>1, GoodFacts
  <2>2. buf \in [0 .. q.cap - 1 -> Cells]
    BY <1>2
  <2>3. \A i \in 0 .. 0 - 1 : buf[i] \in Elems
    OBVIOUS
  <2> HIDE DEF buf
  <2> DEFINE cap == q.cap
             size == 0
  <2>4. /\ Good(q) /\ cap \in Nat /\ cap >= 1 /\ cap <= IntMax /\ size \in Nat /\ size <= cap
        /\ buf \in [0 .. cap - 1 -> Cells] /\ \A i \in 0 .. size - 1 : buf[i] \in Elems
    BY <1>1, <2>1, <2>2, <2>3
  <2> HIDE DEF cap, size
  <2>5. Good([q EXCEPT !.cap = cap, !.size = size, !.buf = buf])
    BY <2>4, GoodBuilt
  <2>6. QED
    BY <2>5 DEF buf, cap, size
<1>4. n = [q EXCEPT !.cap = q.cap, !.size = 0, !.buf = Empty(q.cap)]
  BY <1>1 DEF Good, Struct
<1> HIDE DEF n
<1>5. \A r \in {Answer("CS_SUCCESS", n)} : Good(r.q)
  BY <1>3, <1>4 DEF Answer
<1>6. Reply(v, {Answer("CS_SUCCESS", n)})
  BY DEF Clear, n
<1>7. QED
  BY <1>1, <1>5, <1>6, ReplyGood

(* The ints of swap hold the size and the capacity of a good structure. *)
LEMMA IntsHold ==
  ASSUME NEW q, Good(q)
  PROVE  [q EXCEPT !.size = ThroughInt(@), !.cap = ThroughInt(@)] = q
<1>1. q.size \in Nat /\ q.cap \in Nat /\ q.size <= q.cap /\ q.cap <= IntMax /\ IntMax \in Nat
  BY GoodFacts, VectorAssumption
<1>2. q.size <= IntMax
  BY <1>1
<1>3. ThroughInt(q.size) = q.size /\ ThroughInt(q.cap) = q.cap
  BY <1>1, <1>2 DEF ThroughInt
<1>4. [q EXCEPT !.size = q.size, !.cap = q.cap] = q
  BY DEF Good, Struct
<1>5. QED
  BY <1>3, <1>4

(* swap exchanges two good structures. *)
LEMMA SwapIs ==
  ASSUME NEW v, Good(vec[v]), NEW w, Swap(v, w)
  PROVE  /\ radix = NoRadix /\ radix' = NoRadix /\ v # w /\ ret' = "CS_SUCCESS"
         /\ vec' = [vec EXCEPT ![v] = vec[w], ![w] = vec[v]]
<1> DEFINE q == [vec[v] EXCEPT !.size = ThroughInt(@), !.cap = ThroughInt(@)]
<1>1. q = vec[v]
  BY IntsHold
<1>2. vec' = [vec EXCEPT ![v] = vec[w], ![w] = q]
  BY DEF Swap
<1> HIDE DEF q
<1>3. QED
  BY <1>1, <1>2 DEF Swap, Usable

(* So every structure stays good. *)
LEMMA SwapStep == ASSUME VectorInv, NEW v \in Vectors, NEW w \in Vectors, Swap(v, w) PROVE VectorInv'
<1>1. /\ radix = NoRadix /\ radix' = NoRadix
      /\ vec' = [vec EXCEPT ![v] = vec[w], ![w] = vec[v]]
  BY SwapIs DEF VectorInv, AllGood
<1>2. AllGood'
  BY <1>1 DEF VectorInv, AllGood
<1>3. QED
  BY <1>1, <1>2 DEF VectorInv, Radix

(* free leaves a structure without an array. *)
LEMMA FreeStep == ASSUME VectorInv, NEW v \in Vectors, Free(v) PROVE VectorInv'
<1> DEFINE n == [Fresh(v) EXCEPT !.live = FALSE]
<1>1. radix = NoRadix
  BY UsableFacts DEF Free
<1>2. Good(n)
  BY FreshGood DEF Good, Struct, Used
<1> HIDE DEF n
<1>3. \A r \in {Answer("CS_SUCCESS", n)} : Good(r.q)
  BY <1>2 DEF Answer
<1>4. Reply(v, {Answer("CS_SUCCESS", n)})
  BY DEF Free, n
<1>5. QED
  BY <1>1, <1>3, <1>4, ReplyGood

(* init after a free. *)
LEMMA StartStep == ASSUME VectorInv, NEW v \in Vectors, Start(v) PROVE VectorInv'
<1> DEFINE answers == {Answer("CS_SUCCESS", Fresh(v))}
                        \cup (IF AllocFails THEN {Answer("CS_MEM", vec[v])} ELSE {})
<1>1. radix = NoRadix /\ Reply(v, answers)
  BY DEF Start
<1>2. Good(vec[v])
  BY DEF VectorInv, AllGood
<1>3. \A r \in answers : Good(r.q)
  BY <1>2, FreshGood DEF Answer
<1> HIDE DEF answers
<1>4. QED
  BY <1>1, <1>3, ReplyGood

-----------------------------------------------------------------------------
(* The theorems. *)

(* The vectors are empty and cover their capacity. *)
LEMMA VectorStart == ASSUME Init PROVE VectorInv
BY FreshGood DEF Init, VectorInv, AllGood, Radix

(* Every step preserves the invariant. *)
LEMMA VectorStep == ASSUME VectorInv, [Next]_vars PROVE VectorInv'
<1>1. ASSUME NEW v \in Vectors, Sort(v) PROVE VectorInv'
  BY <1>1, SortByCompStep, RefuseGood, RadixStartStep DEF Sort, SortSmall
<1>2. CASE UNCHANGED vars
  BY <1>2 DEF vars, VectorInv, AllGood, Radix
<1>3. QED
  BY <1>1, <1>2, PopBackStep, EditStep, CapacityStep, ClearStep, FreeStep, StartStep, PushBackStep,
     SwapStep, RadixPassStep, RadixEndFacts DEF Next

(* The used elements always lie in the array, which is never empty: after any
   calls, whichever of their allocations fail, of vectors that are not asked to
   grow beyond the capacity that an int can hold. *)
THEOREM CapacityCorrect == Spec => []CapacityHolds
<1>1. ASSUME VectorInv PROVE CapacityHolds
  <2>1. ASSUME NEW v \in Vectors
        PROVE  /\ vec[v].cap >= 1 /\ vec[v].size <= vec[v].cap
               /\ \A i \in Used(vec[v]) : vec[v].buf[i] # NoElem
    BY <1>1, VectorAssumption DEF VectorInv, AllGood, Good
  <2>2. QED
    BY <2>1 DEF CapacityHolds
<1>2. QED
  BY <1>1, VectorStart, VectorStep, PTL DEF Spec

\* When the radix sort returns it has put the elements in the order of the
\* numbers that their bytes encode, and kept each of them.
SortsByNumber ==
  RadixEnd =>
    LET q == vec[radix.of]
        D == Used(q)
        buf == vec'[radix.of].buf
    IN  Permuted(D, buf, q.buf) /\ \A i, j \in D : i < j => buf[i] <= buf[j]

(* The sort without a comparator sorts: after one stable pass for each byte,
   the low byte first, the elements are in order, for any number of bytes. *)
THEOREM RadixSorts == Spec => [][SortsByNumber]_vars
<1>1. ASSUME VectorInv PROVE SortsByNumber
  BY <1>1, RadixEndFacts DEF SortsByNumber
<1>2. VectorInv /\ [Next]_vars => [SortsByNumber]_vars
  BY <1>1
<1>3. QED
  BY <1>2, VectorStart, VectorStep, PTL DEF Spec

-----------------------------------------------------------------------------
-----------------------------------------------------------------------------
\* Induction, stated with sets, and functions defined by it.

(* A set of natural numbers that is not empty has a least element. *)
LEMMA LeastNat ==
  ASSUME NEW S \in SUBSET Nat, S # {}
  PROVE  \E n \in S : \A m \in S : n <= m
<1>1. PICK n \in S : \A m \in S : ~ (<< m, n >> \in OpToRel(<, Nat))
  BY NatLessThanWellFounded, WFMin, Zenon
<1>2. \A m \in S : ~ (m < n)
  BY <1>1 DEF OpToRel
<1>3. n \in Nat /\ \A m \in S : m \in Nat
  OBVIOUS
<1>4. QED
  BY <1>2, <1>3

(* Induction up to a bound: S has 0, and with a number below N also the next. *)
LEMMA Induction ==
  ASSUME NEW N \in Nat, NEW S, 0 \in S, \A n \in 0 .. N - 1 : n \in S => n + 1 \in S
  PROVE  \A n \in 0 .. N : n \in S
<1> SUFFICES ASSUME (0 .. N) \ S # {} PROVE FALSE
  OBVIOUS
<1>1. (0 .. N) \ S \in SUBSET Nat
  OBVIOUS
<1>2. PICK n \in (0 .. N) \ S : \A m \in (0 .. N) \ S : n <= m
  BY <1>1, LeastNat
<1>3. n \in 1 .. N /\ n - 1 \in 0 .. N - 1 /\ n - 1 \in S
  BY <1>2
<1>4. n \in S
  BY <1>3
<1>5. QED
  BY <1>2, <1>4

\* f goes from s to its value at N, each by step from the one before.
Runs(f, N, s, step) == f[0] = s /\ \A k \in 1 .. N : f[k] = step[k][f[k - 1]]

(* There are such functions. *)
LEMMA RunExists ==
  ASSUME NEW N \in Nat, NEW X, NEW s \in X, NEW step \in [1 .. N -> [X -> X]]
  PROVE  \E f \in [0 .. N -> X] : Runs(f, N, s, step)
<1> DEFINE S == {n \in 0 .. N : \E f \in [0 .. n -> X] : Runs(f, n, s, step)}
<1>1. 0 \in S
  <2>1. [k \in 0 .. 0 |-> s] \in [0 .. 0 -> X] /\ Runs([k \in 0 .. 0 |-> s], 0, s, step)
    BY DEF Runs
  <2>2. QED
    BY <2>1
<1>2. ASSUME NEW n \in 0 .. N - 1, n \in S PROVE n + 1 \in S
  <2>1. PICK f \in [0 .. n -> X] : Runs(f, n, s, step)
    BY <1>2
  <2> DEFINE g == [k \in 0 .. n + 1 |-> IF k = n + 1 THEN step[n + 1][f[n]] ELSE f[k]]
  <2>2. g \in [0 .. n + 1 -> X]
    <3>1. f[n] \in X /\ step[n + 1] \in [X -> X]
      OBVIOUS
    <3>2. QED
      BY <3>1
  <2>3. g[0] = s
    BY <2>1 DEF Runs
  <2>4. ASSUME NEW k \in 1 .. n + 1 PROVE g[k] = step[k][g[k - 1]]
    BY <2>1 DEF Runs
  <2>5. Runs(g, n + 1, s, step)
    BY <2>3, <2>4 DEF Runs
  <2>6. QED
    BY <2>2, <2>5
<1>3. \A n \in 0 .. N : n \in S
  <2> HIDE DEF S
  <2>1. QED
    BY <1>1, <1>2, Induction
<1>4. QED
  BY <1>3

-----------------------------------------------------------------------------
(* A merge, turn by turn. *)

Turn(a, b, key, k, i) ==
  IF i < Len(a) /\ (k - 1 - i = Len(b) \/ key[a[i + 1]] <= key[b[k - 1 - i + 1]]) THEN i + 1 ELSE i

\* o[k] of the first k nodes come from a.
Picks(o, a, b, key) ==
  /\ o \in [0 .. Len(a) + Len(b) -> Nat] /\ o[0] = 0
  /\ \A k \in 1 .. Len(a) + Len(b) : o[k] = Turn(a, b, key, k, o[k - 1])

Picked(o, a, b, k) == IF o[k] > o[k - 1] THEN a[o[k]] ELSE b[k - o[k]]

MergeOf(o, a, b) == [k \in 1 .. Len(a) + Len(b) |-> Picked(o, a, b, k)]

RecOfA(o, a, b, key) ==
  o = [k \in 0 .. Len(a) + Len(b) |->
        IF k = 0 THEN 0
        ELSE IF o[k - 1] < Len(a) /\ (k - 1 - o[k - 1] = Len(b) \/ key[a[o[k - 1] + 1]] <= key[b[k - 1 - o[k - 1] + 1]]) 
             THEN o[k - 1] + 1 ELSE o[k - 1]]

RecMerged(m, o, a, b) ==
  m = [k \in 0 .. Len(a) + Len(b) |-> IF k = 0 THEN << >> ELSE Append(m[k - 1], IF o[k] > o[k - 1] THEN a[o[k]] ELSE b[k - o[k]])]

(* A merge is what two recursive functions yield. *)
LEMMA MergeDef ==
  ASSUME NEW a, NEW b, NEW key
  PROVE  Merge(a, b, key) = (CHOOSE m : RecMerged(m, CHOOSE o : RecOfA(o, a, b, key), a, b))[Len(a) + Len(b)]
BY DEF Merge, RecMerged, RecOfA

(* The first of them counts the nodes taken from a, turn by turn. *)
LEMMA PicksExist ==
  ASSUME NEW X, NEW a \in Seq(X), NEW b \in Seq(X), NEW key
  PROVE  Picks(CHOOSE o : RecOfA(o, a, b, key), a, b, key)
<1> DEFINE N == Len(a) + Len(b)
           step == [k \in 1 .. N |-> [i \in Nat |-> Turn(a, b, key, k, i)]]
           c == CHOOSE o : RecOfA(o, a, b, key)
<1>0. N \in Nat /\ Len(a) \in Nat /\ Len(b) \in Nat
  OBVIOUS
<1>1. step \in [1 .. N -> [Nat -> Nat]]
  BY DEF Turn
<1>2. PICK f \in [0 .. N -> Nat] : Runs(f, N, 0, step)
  <2> HIDE DEF step, N
  <2>1. QED
    BY <1>0, <1>1, RunExists
<1>3. ASSUME NEW k \in 1 .. N PROVE f[k] = Turn(a, b, key, k, f[k - 1])
  <2>1. step[k] = [i \in Nat |-> Turn(a, b, key, k, i)]
    OBVIOUS
  <2> HIDE DEF step, N
  <2>2. k - 1 \in 0 .. N /\ k \in 1 .. N
    BY <1>0
  <2>3. f[k] = step[k][f[k - 1]]
    BY <1>2, <2>2 DEF Runs
  <2>4. f[k - 1] \in Nat
    BY <1>2, <2>2
  <2>5. QED
    BY <2>1, <2>3, <2>4
<1>4. RecOfA(f, a, b, key)
  <2>1. f = [k \in 0 .. N |-> IF k = 0 THEN 0 ELSE Turn(a, b, key, k, f[k - 1])]
    <3> DEFINE g == [k \in 0 .. N |-> IF k = 0 THEN 0 ELSE Turn(a, b, key, k, f[k - 1])]
    <3>1. ASSUME NEW k \in 0 .. N PROVE f[k] = g[k]
      BY <1>2, <1>3 DEF Runs
    <3>2. QED
      BY <3>1
  <2>2. QED
    BY <2>1, Zenon DEF RecOfA, Turn
<1>5. RecOfA(c, a, b, key)
  <2> HIDE DEF step, N
  <2>1. \E o : RecOfA(o, a, b, key)
    BY <1>4
  <2>2. QED
    BY <2>1, Zenon
<1>6. c = [k \in 0 .. N |-> IF k = 0 THEN 0 ELSE Turn(a, b, key, k, c[k - 1])]
  <2> HIDE DEF c
  <2>1. QED
    BY <1>5, Zenon DEF RecOfA, Turn
<1> HIDE DEF c
<1>7. c[0] = 0 /\ (\A k \in 1 .. N : c[k] = Turn(a, b, key, k, c[k - 1])) /\ DOMAIN c = 0 .. N
  <2>1. ASSUME NEW k \in 1 .. N PROVE c[k] = Turn(a, b, key, k, c[k - 1])
    BY <1>6
  <2>2. QED
    BY <1>0, <1>6, <2>1
<1>8. \A k \in 0 .. N : c[k] \in Nat
  <2> DEFINE S == {k \in 0 .. N : c[k] \in Nat}
  <2>1. 0 \in S
    BY <1>7, <1>0
  <2>2. ASSUME NEW n \in 0 .. N - 1, n \in S PROVE n + 1 \in S
    <3>1. n + 1 \in 1 .. N /\ (n + 1) - 1 = n
      OBVIOUS
    <3>2. c[n + 1] = Turn(a, b, key, n + 1, c[n])
      BY <1>7, <3>1
    <3>3. QED
      BY <2>2, <3>1, <3>2 DEF Turn
  <2>3. \A k \in 0 .. N : k \in S
    <3> HIDE DEF S
    <3>1. QED
      BY <1>0, <2>1, <2>2, Induction
  <2>4. QED
    BY <2>3
<1>9. QED
  <2>1. c \in [0 .. N -> Nat]
    BY <1>6, <1>8
  <2>2. QED
    BY <1>7, <2>1 DEF Picks, c

(* A sequence that is one longer, with e at its end, is s with e appended. *)
LEMMA AppendIs ==
  ASSUME NEW S, NEW s \in Seq(S), NEW e \in S, NEW t \in Seq(S), Len(t) = Len(s) + 1,
         \A i \in 1 .. Len(s) : t[i] = s[i], t[Len(s) + 1] = e
  PROVE  Append(s, e) = t
<1>1. Append(s, e) \in Seq(S) /\ Len(Append(s, e)) = Len(s) + 1
  OBVIOUS
<1>2. \A i \in 1 .. Len(s) + 1 : Append(s, e)[i] = IF i = Len(s) + 1 THEN e ELSE s[i]
  OBVIOUS
<1>3. \A i \in 1 .. Len(t) : Append(s, e)[i] = t[i]
  BY <1>2
<1>4. QED
  BY <1>1, <1>3, SeqEqual

(* The second one collects the node of each turn. *)
LEMMA MergedBy ==
  ASSUME NEW a, NEW b, Len(a) + Len(b) \in Nat, NEW o
  PROVE  (CHOOSE m : RecMerged(m, o, a, b))[Len(a) + Len(b)] = MergeOf(o, a, b)
<1> DEFINE N == Len(a) + Len(b)
           v == [k \in 0 .. N |-> [j \in 1 .. k |-> Picked(o, a, b, j)]]
           c == CHOOSE m : RecMerged(m, o, a, b)
<1>1. ASSUME NEW k \in 1 .. N PROVE v[k] = Append(v[k - 1], Picked(o, a, b, k))
  <2> DEFINE P == {Picked(o, a, b, j) : j \in 1 .. k}
             s == [j \in 1 .. k - 1 |-> Picked(o, a, b, j)]
  <2>1. k - 1 \in Nat /\ k - 1 \in 0 .. N /\ v[k - 1] = s /\ k \in 0 .. N
    BY DEF v
  <2>2. s \in Seq(P) /\ Len(s) = k - 1
    <3>1. \A j \in 1 .. k - 1 : Picked(o, a, b, j) \in P
      OBVIOUS
    <3> HIDE DEF P
    <3>2. QED
      BY <3>1, <2>1
  <2>3. Append(s, Picked(o, a, b, k)) = [j \in 1 .. k |-> Picked(o, a, b, j)]
    <3> DEFINE p == Picked(o, a, b, k)
               t == [j \in 1 .. k |-> Picked(o, a, b, j)]
    <3>1. p \in P /\ k \in Nat
      OBVIOUS
    <3>2. t \in Seq(P) /\ Len(t) = k
      <4>1. \A j \in 1 .. k : Picked(o, a, b, j) \in P
        OBVIOUS
      <4> HIDE DEF P
      <4>2. QED
        BY <4>1, <3>1
    <3>3. (\A i \in 1 .. k - 1 : t[i] = s[i]) /\ t[k] = p
      OBVIOUS
    <3>4. QED
      <4> HIDE DEF s, P, p, t
      <4>1. Append(s, p) = t
        BY <2>1, <2>2, <3>1, <3>2, <3>3, AppendIs
      <4>2. QED
        BY <4>1 DEF p, t
  <2>4. QED
    BY <2>1, <2>3
<1>2. RecMerged(v, o, a, b)
  <2>1. v = [k \in 0 .. N |-> IF k = 0 THEN << >> ELSE Append(v[k - 1], Picked(o, a, b, k))]
    <3> DEFINE g == [k \in 0 .. N |-> IF k = 0 THEN << >> ELSE Append(v[k - 1], Picked(o, a, b, k))]
    <3>1. v[0] = << >>
      OBVIOUS
    <3>2. ASSUME NEW k \in 0 .. N PROVE v[k] = g[k]
      <4>1. k # 0 => k \in 1 .. N
        OBVIOUS
      <4> HIDE DEF v
      <4>2. QED
        BY <1>1, <3>1, <4>1
    <3>3. DOMAIN v = 0 .. N /\ v = [k \in 0 .. N |-> v[k]]
      OBVIOUS
    <3> HIDE DEF v
    <3>4. QED
      BY <3>2, <3>3
  <2> HIDE DEF v
  <2>2. QED
    BY <2>1 DEF RecMerged, Picked
<1>3. RecMerged(c, o, a, b)
  <2> HIDE DEF v
  <2>1. QED
    BY <1>2, Zenon
<1>4. c = [k \in 0 .. N |-> IF k = 0 THEN << >> ELSE Append(c[k - 1], Picked(o, a, b, k))]
  <2> HIDE DEF c
  <2>1. QED
    BY <1>3 DEF RecMerged, Picked
<1>5. \A k \in 0 .. N : c[k] = v[k]
  <2> DEFINE S == {k \in 0 .. N : c[k] = v[k]}
  <2> HIDE DEF c
  <2>1. 0 \in S
    BY <1>4
  <2>2. ASSUME NEW n \in 0 .. N - 1, n \in S PROVE n + 1 \in S
    <3>1. n + 1 \in 1 .. N /\ (n + 1) - 1 = n /\ n + 1 \in 0 .. N /\ n + 1 # 0
      OBVIOUS
    <3>2. c[n] = v[n]
      BY <2>2
    <3> HIDE DEF v
    <3>3. c[n + 1] = Append(c[n], Picked(o, a, b, n + 1))
      BY <1>4, <3>1
    <3>4. v[n + 1] = Append(v[n], Picked(o, a, b, n + 1))
      BY <1>1, <3>1
    <3>5. QED
      BY <3>1, <3>2, <3>3, <3>4
  <2>3. \A k \in 0 .. N : k \in S
    <3> HIDE DEF S
    <3>1. QED
      BY <2>1, <2>2, Induction
  <2>4. QED
    BY <2>3
<1>6. QED
  <2> HIDE DEF c
  <2>1. N \in 0 .. N
    OBVIOUS
  <2>2. c[N] = v[N]
    BY <1>5, <2>1
  <2>3. v[N] = MergeOf(o, a, b)
    BY <2>1 DEF MergeOf
  <2>4. QED
    BY <2>2, <2>3 DEF c

(* A merge lists the nodes in the order of the turns that take them. *)
LEMMA MergeIs ==
  ASSUME NEW X, NEW a \in Seq(X), NEW b \in Seq(X), NEW key
  PROVE  \E o : Picks(o, a, b, key) /\ Merge(a, b, key) = MergeOf(o, a, b)
<1>1. Len(a) + Len(b) \in Nat
  OBVIOUS
<1>2. QED
  BY <1>1, PicksExist, MergeDef, MergedBy, Zenon

(* Both sides only advance, by one node a turn, and stay in their runs. *)
LEMMA PicksStep ==
  ASSUME NEW X, NEW a \in Seq(X), NEW b \in Seq(X), NEW key, NEW o, Picks(o, a, b, key)
  PROVE  /\ \A k \in 0 .. Len(a) + Len(b) : o[k] \in 0 .. Len(a) /\ k - o[k] \in 0 .. Len(b)
         /\ \A k \in 1 .. Len(a) + Len(b) :
              \/ /\ o[k] = o[k - 1] + 1
                 /\ k - 1 - o[k - 1] = Len(b) \/ key[a[o[k]]] <= key[b[k - o[k] + 1]]
              \/ /\ o[k] = o[k - 1]
                 /\ o[k] = Len(a) \/ ~ (key[a[o[k] + 1]] <= key[b[k - o[k]]])
<1> DEFINE N == Len(a) + Len(b)
           In(k) == o[k] \in 0 .. Len(a) /\ k - o[k] \in 0 .. Len(b)
           Step(k) == \/ /\ o[k] = o[k - 1] + 1
                         /\ k - 1 - o[k - 1] = Len(b) \/ key[a[o[k]]] <= key[b[k - o[k] + 1]]
                      \/ /\ o[k] = o[k - 1]
                         /\ o[k] = Len(a) \/ ~ (key[a[o[k] + 1]] <= key[b[k - o[k]]])
<1>0. N \in Nat /\ Len(a) \in Nat /\ Len(b) \in Nat
  OBVIOUS
<1>1. \A k \in 0 .. N : o[k] \in Nat
  BY <1>0 DEF Picks
<1>2. ASSUME NEW k \in 1 .. N, In(k - 1) PROVE In(k) /\ Step(k)
  <2> DEFINE i == o[k - 1]
             j == k - 1 - i
  <2>1. o[k] = Turn(a, b, key, k, i)
    BY DEF Picks
  <2>2. i \in 0 .. Len(a) /\ j \in 0 .. Len(b) /\ k \in Nat /\ o[k] \in Nat
    BY <1>1, <1>2, <1>0
  <2>3. CASE i < Len(a) /\ (j = Len(b) \/ key[a[i + 1]] <= key[b[j + 1]])
    <3>1. o[k] = i + 1
      BY <2>1, <2>3 DEF Turn
    <3>2. k - o[k] = j /\ k - o[k] + 1 = j + 1
      BY <3>1, <2>2
    <3>3. In(k)
      <4> HIDE DEF i, j
      <4>1. QED
        BY <2>2, <2>3, <3>1, <3>2
    <3>4. Step(k)
      BY <2>3, <3>1, <3>2
    <3>5. QED
      BY <3>3, <3>4
  <2>4. CASE ~ (i < Len(a) /\ (j = Len(b) \/ key[a[i + 1]] <= key[b[j + 1]]))
    <3>1. o[k] = i
      BY <2>1, <2>4 DEF Turn
    <3>2. k - o[k] = j + 1
      BY <3>1, <2>2
    <3>3. j # Len(b)
      BY <2>2, <2>4, <1>0
    <3>4. In(k)
      <4> HIDE DEF i, j
      <4>1. QED
        BY <2>2, <3>1, <3>2, <3>3, <1>0
    <3>5. i = Len(a) \/ ~ (key[a[i + 1]] <= key[b[j + 1]])
      BY <2>2, <2>4
    <3>6. Step(k)
      BY <3>1, <3>2, <3>5
    <3>7. QED
      BY <3>4, <3>6
  <2>5. QED
    BY <2>3, <2>4
<1>3. \A k \in 0 .. N : In(k)
  <2> DEFINE S == {k \in 0 .. N : In(k)}
  <2>1. 0 \in S
    BY <1>0 DEF Picks
  <2>2. ASSUME NEW n \in 0 .. N - 1, n \in S PROVE n + 1 \in S
    <3>1. n + 1 \in 1 .. N /\ (n + 1) - 1 = n /\ In(n) /\ n + 1 \in 0 .. N
      BY <2>2
    <3> HIDE DEF In
    <3>2. In(n + 1)
      BY <3>1, <1>2
    <3>3. QED
      BY <3>1, <3>2
  <2>3. \A k \in 0 .. N : k \in S
    <3> HIDE DEF S
    <3>1. QED
      BY <1>0, <2>1, <2>2, Induction
  <2>4. QED
    BY <2>3
<1>4. \A k \in 1 .. N : Step(k)
  <2> SUFFICES ASSUME NEW k \in 1 .. N PROVE Step(k)
    OBVIOUS
  <2>1. k - 1 \in 0 .. N
    BY <1>0
  <2>2. QED
    BY <2>1, <1>2, <1>3
<1>5. QED
  BY <1>3, <1>4

(* No turn gives a node back. *)
LEMMA PicksMonotonic ==
  ASSUME NEW X, NEW a \in Seq(X), NEW b \in Seq(X), NEW key, NEW o, Picks(o, a, b, key),
         NEW j \in 0 .. Len(a) + Len(b), NEW k \in j .. Len(a) + Len(b)
  PROVE  o[j] <= o[k] /\ j - o[j] <= k - o[k]
<1> DEFINE N == Len(a) + Len(b)
           S == {d \in 0 .. N - j : o[j] <= o[j + d] /\ j - o[j] <= (j + d) - o[j + d]}
<1>0. N \in Nat /\ N - j \in Nat
  OBVIOUS
<1>1. \A i \in 0 .. N : o[i] \in Nat
  BY <1>0 DEF Picks
<1>2. 0 \in S
  BY <1>0, <1>1
<1>3. ASSUME NEW d \in 0 .. (N - j) - 1, d \in S PROVE d + 1 \in S
  <2>1. j + (d + 1) \in 1 .. N /\ j + (d + 1) - 1 = j + d /\ j + d \in 0 .. N /\ d + 1 \in 0 .. N - j
    BY <1>0
  <2>2. o[j + (d + 1)] = o[j + d] + 1 \/ o[j + (d + 1)] = o[j + d]
    BY <2>1, PicksStep
  <2>3. o[j + d] \in Nat /\ o[j] \in Nat
    BY <2>1, <1>1
  <2>4. QED
    BY <1>3, <2>1, <2>2, <2>3
<1>4. \A d \in 0 .. N - j : d \in S
  <2> HIDE DEF S, N
  <2>1. QED
    BY <1>0, <1>2, <1>3, Induction
<1>5. k - j \in 0 .. N - j /\ j + (k - j) = k
  BY <1>0
<1>6. QED
  BY <1>4, <1>5

\* R says which node may come before which.
InOrder(s, R) == \A i, j \in 1 .. Len(s) : i < j => << s[i], s[j] >> \in R

Transitive(R, X) == \A x, y, z \in X : << x, y >> \in R /\ << y, z >> \in R => << x, z >> \in R

\* The order that a merge decides by.
Decided(a, b, key, R) ==
  \A i \in 1 .. Len(a), j \in 1 .. Len(b) :
    IF key[a[i]] <= key[b[j]] THEN << a[i], b[j] >> \in R ELSE << b[j], a[i] >> \in R

(* What a merge takes comes before all that it leaves. *)
LEMMA PickedFirst ==
  ASSUME NEW X, NEW a \in Seq(X), NEW b \in Seq(X), NEW key, NEW o, Picks(o, a, b, key),
         NEW R, InOrder(a, R), InOrder(b, R), Decided(a, b, key, R), Transitive(R, X),
         NEW k \in 1 .. Len(a) + Len(b)
  PROVE  /\ \A i \in o[k] + 1 .. Len(a) : << Picked(o, a, b, k), a[i] >> \in R
         /\ \A j \in k - o[k] + 1 .. Len(b) : << Picked(o, a, b, k), b[j] >> \in R
<1> DEFINE N == Len(a) + Len(b)
<1>0. N \in Nat /\ Len(a) \in Nat /\ Len(b) \in Nat /\ k \in 0 .. N /\ k - 1 \in 0 .. N
  OBVIOUS
<1>1. /\ o[k] \in 0 .. Len(a) /\ k - o[k] \in 0 .. Len(b)
      /\ o[k - 1] \in 0 .. Len(a) /\ (k - 1) - o[k - 1] \in 0 .. Len(b)
  BY <1>0, PicksStep
<1>2. CASE o[k] = o[k - 1] + 1 /\ (k - 1 - o[k - 1] = Len(b) \/ key[a[o[k]]] <= key[b[k - o[k] + 1]])
  <2>1. o[k] \in 1 .. Len(a) /\ Picked(o, a, b, k) = a[o[k]] /\ k - o[k] = k - 1 - o[k - 1]
    BY <1>1, <1>2 DEF Picked
  <2>2. ASSUME NEW i \in o[k] + 1 .. Len(a) PROVE << a[o[k]], a[i] >> \in R
    <3>1. i \in 1 .. Len(a) /\ o[k] < i
      BY <2>1, <1>0
    <3>2. QED
      BY <2>1, <3>1 DEF InOrder
  <2>3. ASSUME NEW j \in k - o[k] + 1 .. Len(b) PROVE << a[o[k]], b[j] >> \in R
    <3> DEFINE f == k - o[k] + 1
    <3>1. f \in 1 .. Len(b) /\ j \in 1 .. Len(b) /\ f <= j
      BY <1>1, <1>0
    <3>2. key[a[o[k]]] <= key[b[f]]
      BY <1>2, <2>1, <3>1, <1>1
    <3> HIDE DEF f
    <3>3. << a[o[k]], b[f] >> \in R
      BY <2>1, <3>1, <3>2 DEF Decided
    <3>4. CASE j = f
      BY <3>3, <3>4
    <3>5. CASE f < j
      <4>1. << b[f], b[j] >> \in R
        BY <3>1, <3>5 DEF InOrder
      <4>2. a[o[k]] \in X /\ b[f] \in X /\ b[j] \in X
        BY <2>1, <3>1
      <4>3. QED
        BY <3>3, <4>1, <4>2 DEF Transitive
    <3>6. QED
      BY <3>1, <3>4, <3>5
  <2>4. QED
    BY <2>1, <2>2, <2>3
<1>3. CASE o[k] = o[k - 1] /\ (o[k] = Len(a) \/ ~ (key[a[o[k] + 1]] <= key[b[k - o[k]]]))
  <2> DEFINE l == k - o[k]
  <2>1. l \in 1 .. Len(b) /\ Picked(o, a, b, k) = b[l]
    BY <1>1, <1>3 DEF Picked
  <2>2. ASSUME NEW j \in l + 1 .. Len(b) PROVE << b[l], b[j] >> \in R
    <3>1. j \in 1 .. Len(b) /\ l < j
      BY <2>1, <1>0
    <3>2. QED
      BY <2>1, <3>1 DEF InOrder
  <2>3. ASSUME NEW i \in o[k] + 1 .. Len(a) PROVE << b[l], a[i] >> \in R
    <3> DEFINE f == o[k] + 1
    <3>1. f \in 1 .. Len(a) /\ i \in 1 .. Len(a) /\ f <= i
      BY <1>1, <1>0
    <3>2. ~ (key[a[f]] <= key[b[l]])
      BY <1>3, <3>1, <1>1
    <3> HIDE DEF f, l
    <3>3. << b[l], a[f] >> \in R
      BY <2>1, <3>1, <3>2 DEF Decided
    <3>4. CASE i = f
      BY <3>3, <3>4
    <3>5. CASE f < i
      <4>1. << a[f], a[i] >> \in R
        BY <3>1, <3>5 DEF InOrder
      <4>2. b[l] \in X /\ a[f] \in X /\ a[i] \in X
        BY <2>1, <3>1
      <4>3. QED
        BY <3>3, <4>1, <4>2 DEF Transitive
    <3>6. QED
      BY <3>1, <3>4, <3>5
  <2>4. QED
    BY <2>1, <2>2, <2>3
<1>4. QED
  BY <1>2, <1>3, PicksStep

(* A node of the result is still in its run in any turn before. *)
LEMMA PickedLater ==
  ASSUME NEW X, NEW a \in Seq(X), NEW b \in Seq(X), NEW key, NEW o, Picks(o, a, b, key),
         NEW j \in 0 .. Len(a) + Len(b), NEW k \in j + 1 .. Len(a) + Len(b)
  PROVE  \/ o[k] \in o[j] + 1 .. Len(a) /\ Picked(o, a, b, k) = a[o[k]]
         \/ k - o[k] \in j - o[j] + 1 .. Len(b) /\ Picked(o, a, b, k) = b[k - o[k]]
<1> DEFINE N == Len(a) + Len(b)
<1>0. /\ N \in Nat /\ Len(a) \in Nat /\ Len(b) \in Nat /\ j \in 0 .. N /\ k \in 0 .. N
      /\ k - 1 \in 0 .. N /\ k - 1 \in j .. N /\ k \in 1 .. N
  OBVIOUS
<1>1. /\ o[k] \in 0 .. Len(a) /\ k - o[k] \in 0 .. Len(b)
      /\ o[k - 1] \in 0 .. Len(a) /\ o[j] \in 0 .. Len(a)
  BY <1>0, PicksStep
<1>2. o[j] <= o[k - 1] /\ j - o[j] <= (k - 1) - o[k - 1]
  BY <1>0, PicksMonotonic
<1>3. o[k] = o[k - 1] + 1 \/ o[k] = o[k - 1]
  BY <1>0, PicksStep
<1>4. CASE o[k] = o[k - 1] + 1
  BY <1>0, <1>1, <1>2, <1>4 DEF Picked
<1>5. CASE o[k] = o[k - 1]
  BY <1>0, <1>1, <1>2, <1>5 DEF Picked
<1>6. QED
  BY <1>3, <1>4, <1>5

(* Every turn has a first moment in which i nodes of a run have been taken. *)
LEMMA AllPicked ==
  ASSUME NEW X, NEW a \in Seq(X), NEW b \in Seq(X), NEW key, NEW o, Picks(o, a, b, key)
  PROVE  /\ \A i \in 1 .. Len(a) : \E k \in 1 .. Len(a) + Len(b) : Picked(o, a, b, k) = a[i]
         /\ \A j \in 1 .. Len(b) : \E k \in 1 .. Len(a) + Len(b) : Picked(o, a, b, k) = b[j]
<1> DEFINE N == Len(a) + Len(b)
<1>0. N \in Nat /\ Len(a) \in Nat /\ Len(b) \in Nat /\ N \in 0 .. N
  OBVIOUS
<1>1. /\ \A k \in 0 .. N : o[k] \in 0 .. Len(a) /\ k - o[k] \in 0 .. Len(b)
      /\ \A k \in 1 .. N : o[k] = o[k - 1] + 1 \/ o[k] = o[k - 1]
  BY PicksStep
<1>2. o[0] = 0 /\ o[N] = Len(a) /\ N - o[N] = Len(b)
  BY <1>0, <1>1 DEF Picks
<1>3. ASSUME NEW i \in 1 .. Len(a) PROVE \E k \in 1 .. N : Picked(o, a, b, k) = a[i]
  <2> DEFINE S == {k \in 0 .. N : i <= o[k]}
  <2>1. S \in SUBSET Nat /\ N \in S
    BY <1>0, <1>2
  <2>2. PICK k \in S : \A m \in S : k <= m
    <3> HIDE DEF S
    <3>1. QED
      BY <2>1, LeastNat
  <2>3. k \in 1 .. N /\ k - 1 \in 0 .. N /\ k - 1 \notin S
    BY <1>0, <1>2, <2>2
  <2>4. o[k - 1] < i /\ i <= o[k]
    BY <1>1, <2>2, <2>3
  <2>5. o[k] = i /\ o[k] > o[k - 1]
    <3>1. k \in 0 .. N /\ o[k] \in Nat /\ o[k - 1] \in Nat /\ (o[k] = o[k - 1] + 1 \/ o[k] = o[k - 1])
      BY <1>1, <2>2, <2>3
    <3>2. QED
      BY <2>4, <3>1
  <2>6. QED
    BY <2>3, <2>5 DEF Picked
<1>4. ASSUME NEW j \in 1 .. Len(b) PROVE \E k \in 1 .. N : Picked(o, a, b, k) = b[j]
  <2> DEFINE S == {k \in 0 .. N : j <= k - o[k]}
  <2>1. S \in SUBSET Nat /\ N \in S
    BY <1>0, <1>2
  <2>2. PICK k \in S : \A m \in S : k <= m
    <3> HIDE DEF S
    <3>1. QED
      BY <2>1, LeastNat
  <2>3. k \in 1 .. N /\ k - 1 \in 0 .. N /\ k - 1 \notin S
    BY <1>0, <1>2, <2>2
  <2>4. (k - 1) - o[k - 1] < j /\ j <= k - o[k]
    BY <1>1, <2>2, <2>3
  <2>5. k - o[k] = j /\ ~ (o[k] > o[k - 1])
    <3>1. k \in 0 .. N /\ o[k] \in Nat /\ o[k - 1] \in Nat /\ (o[k] = o[k - 1] + 1 \/ o[k] = o[k - 1])
      BY <1>1, <2>2, <2>3
    <3>2. k \in Nat
      BY <1>0, <2>3
    <3>3. QED
      BY <2>4, <3>1, <3>2
  <2>6. QED
    BY <2>3, <2>5 DEF Picked
<1>5. QED
  BY <1>3, <1>4

(* A merge holds the nodes of both runs, in any order that both runs and the
   decisions agree with. *)
LEMMA MergeFacts ==
  ASSUME NEW X, NEW a \in Seq(X), NEW b \in Seq(X), NEW key
  PROVE  /\ Merge(a, b, key) \in Seq(X) /\ Len(Merge(a, b, key)) = Len(a) + Len(b)
         /\ ToSet(Merge(a, b, key)) = ToSet(a) \cup ToSet(b)
<1> DEFINE N == Len(a) + Len(b)
           m == Merge(a, b, key)
<1>0. N \in Nat /\ Len(a) \in Nat /\ Len(b) \in Nat
  OBVIOUS
<1>1. PICK o : Picks(o, a, b, key) /\ m = MergeOf(o, a, b)
  BY MergeIs
<1>2. \A k \in 1 .. N : m[k] = Picked(o, a, b, k)
  BY <1>1 DEF MergeOf
<1>3. \A k \in 1 .. N : (\E i \in 1 .. Len(a) : m[k] = a[i]) \/ (\E j \in 1 .. Len(b) : m[k] = b[j])
  <2> SUFFICES ASSUME NEW k \in 1 .. N
               PROVE  (\E i \in 1 .. Len(a) : m[k] = a[i]) \/ (\E j \in 1 .. Len(b) : m[k] = b[j])
    OBVIOUS
  <2>1. 0 \in 0 .. N /\ k \in 0 + 1 .. N /\ o[0] = 0
    BY <1>0, <1>1 DEF Picks
  <2>2. \/ o[k] \in o[0] + 1 .. Len(a) /\ Picked(o, a, b, k) = a[o[k]]
        \/ k - o[k] \in 0 - o[0] + 1 .. Len(b) /\ Picked(o, a, b, k) = b[k - o[k]]
    BY <1>1, <2>1, PickedLater
  <2>3. o[0] + 1 = 1 /\ 0 - o[0] + 1 = 1
    BY <2>1
  <2>4. QED
    BY <1>2, <2>2, <2>3
<1>4. m \in Seq(X) /\ Len(m) = N /\ DOMAIN m = 1 .. N
  <2>1. \A k \in 1 .. N : Picked(o, a, b, k) \in X
    BY <1>2, <1>3
  <2>2. m = [k \in 1 .. N |-> Picked(o, a, b, k)]
    BY <1>1 DEF MergeOf
  <2> HIDE DEF m, N
  <2>3. QED
    BY <1>0, <2>1, <2>2
<1>5. ToSet(m) = ToSet(a) \cup ToSet(b)
  <2>1. ToSet(m) \subseteq ToSet(a) \cup ToSet(b)
    BY <1>3, <1>4 DEF ToSet
  <2>2. /\ \A i \in 1 .. Len(a) : \E k \in 1 .. N : Picked(o, a, b, k) = a[i]
        /\ \A j \in 1 .. Len(b) : \E k \in 1 .. N : Picked(o, a, b, k) = b[j]
    BY <1>1, AllPicked
  <2>3. ToSet(a) \cup ToSet(b) \subseteq ToSet(m)
    <3>1. /\ \A i \in 1 .. Len(a) : a[i] \in ToSet(m)
          /\ \A j \in 1 .. Len(b) : b[j] \in ToSet(m)
      <4>1. \A k \in 1 .. N : m[k] \in ToSet(m)
        BY <1>4 DEF ToSet
      <4> HIDE DEF m, N
      <4>2. QED
        BY <1>2, <2>2, <4>1
    <3>2. DOMAIN a = 1 .. Len(a) /\ DOMAIN b = 1 .. Len(b)
      OBVIOUS
    <3>3. QED
      BY <3>1, <3>2 DEF ToSet
  <2>4. QED
    BY <2>1, <2>3
<1>6. QED
  BY <1>4, <1>5

(* A merge of two runs in order is in order. *)
LEMMA MergeOrdered ==
  ASSUME NEW X, NEW a \in Seq(X), NEW b \in Seq(X), NEW key,
         NEW R, InOrder(a, R), InOrder(b, R), Decided(a, b, key, R), Transitive(R, X)
  PROVE  InOrder(Merge(a, b, key), R)
<1> DEFINE N == Len(a) + Len(b)
           m == Merge(a, b, key)
<1>0. N \in Nat /\ Len(m) = N
  BY MergeFacts
<1>1. PICK o : Picks(o, a, b, key) /\ m = MergeOf(o, a, b)
  BY MergeIs
<1>2. \A k \in 1 .. N : m[k] = Picked(o, a, b, k)
  BY <1>1 DEF MergeOf
<1>3. ASSUME NEW j \in 1 .. N, NEW k \in 1 .. N, j < k PROVE << m[j], m[k] >> \in R
  <2>1. j \in 0 .. N /\ k \in j + 1 .. N
    BY <1>0, <1>3
  <2>2. \/ o[k] \in o[j] + 1 .. Len(a) /\ Picked(o, a, b, k) = a[o[k]]
        \/ k - o[k] \in j - o[j] + 1 .. Len(b) /\ Picked(o, a, b, k) = b[k - o[k]]
    BY <1>1, <2>1, PickedLater
  <2>3. /\ \A i \in o[j] + 1 .. Len(a) : << Picked(o, a, b, j), a[i] >> \in R
        /\ \A i \in j - o[j] + 1 .. Len(b) : << Picked(o, a, b, j), b[i] >> \in R
    BY <1>1, PickedFirst
  <2>4. QED
    BY <1>2, <2>2, <2>3
<1>4. QED
  BY <1>0, <1>3 DEF InOrder

-----------------------------------------------------------------------------
(* The sort of a sequence of different nodes.                               *)

\* n is in bin i.
Holds(bins, i, n) == n \in ToSet(bins[i])

Distinct(s) == \A i, j \in 1 .. Len(s) : s[i] = s[j] => i = j

Pos(nodes) == [x \in ToSet(nodes) |-> CHOOSE i \in 1 .. Len(nodes) : nodes[i] = x]

\* By the key, and of two nodes with the same key by the place in the list.
Earlier(x, y, nodes, key) ==
  \/ key[x] < key[y]
  \/ key[x] = key[y] /\ Pos(nodes)[x] < Pos(nodes)[y]

Stably(nodes, key) ==
  {p \in ToSet(nodes) \X ToSet(nodes) : Earlier(p[1], p[2], nodes, key)}

Sortable(nodes, key, X) ==
  /\ X = ToSet(nodes) /\ nodes \in Seq(X) /\ Distinct(nodes) /\ \A x \in X : key[x] \in Int
  /\ Len(nodes) \div 65536 < 65536

(* The place of a node, and the node at a place. *)
LEMMA PosFacts ==
  ASSUME NEW nodes, NEW key, NEW X, Sortable(nodes, key, X)
  PROVE  /\ \A x \in X : Pos(nodes)[x] \in 1 .. Len(nodes) /\ nodes[Pos(nodes)[x]] = x
         /\ \A i \in 1 .. Len(nodes) : nodes[i] \in X /\ Pos(nodes)[nodes[i]] = i
<1>1. DOMAIN nodes = 1 .. Len(nodes)
  BY DEF Sortable
<1>2. ASSUME NEW x \in X PROVE Pos(nodes)[x] \in 1 .. Len(nodes) /\ nodes[Pos(nodes)[x]] = x
  <2>1. \E i \in 1 .. Len(nodes) : nodes[i] = x
    BY <1>1 DEF ToSet, Sortable
  <2>2. Pos(nodes)[x] = CHOOSE i \in 1 .. Len(nodes) : nodes[i] = x
    BY DEF Pos, Sortable
  <2>3. QED
    BY <2>1, <2>2
<1>3. ASSUME NEW i \in 1 .. Len(nodes) PROVE nodes[i] \in X /\ Pos(nodes)[nodes[i]] = i
  <2>1. nodes[i] \in X
    BY <1>1 DEF ToSet, Sortable
  <2>2. QED
    BY <1>2, <2>1 DEF Distinct, Sortable
<1>4. QED
  BY <1>2, <1>3

(* The stable order is a strict one. *)
LEMMA StablyFacts ==
  ASSUME NEW nodes, NEW key, NEW X, Sortable(nodes, key, X)
  PROVE  /\ \A x, y \in X : << x, y >> \in Stably(nodes, key) <=> Earlier(x, y, nodes, key)
         /\ Transitive(Stably(nodes, key), X)
         /\ \A x \in X : << x, x >> \notin Stably(nodes, key)
<1>1. \A x, y \in X : << x, y >> \in Stably(nodes, key) <=> Earlier(x, y, nodes, key)
  BY DEF Stably, Sortable
<1>2. \A x \in X : key[x] \in Int /\ Pos(nodes)[x] \in Int
  BY PosFacts DEF Sortable
<1>3. \A x, y, z \in X : Earlier(x, y, nodes, key) /\ Earlier(y, z, nodes, key) => Earlier(x, z, nodes, key)
  BY <1>2 DEF Earlier
<1>4. \A x \in X : ~ Earlier(x, x, nodes, key)
  BY <1>2 DEF Earlier
<1>5. QED
  BY <1>1, <1>3, <1>4 DEF Transitive

(* A run in this order holds each node once, so no more nodes than there are. *)
LEMMA OrderedDistinct ==
  ASSUME NEW nodes, NEW key, NEW X, Sortable(nodes, key, X),
         NEW s \in Seq(X), InOrder(s, Stably(nodes, key))
  PROVE  Distinct(s) /\ Len(s) <= Len(nodes)
<1>1. Distinct(s)
  <2> SUFFICES ASSUME NEW i \in 1 .. Len(s), NEW j \in 1 .. Len(s), s[i] = s[j], i # j PROVE FALSE
    BY DEF Distinct
  <2>1. s[i] \in X /\ (i < j \/ j < i)
    OBVIOUS
  <2>2. << s[i], s[i] >> \in Stably(nodes, key)
    BY <2>1 DEF InOrder
  <2>3. QED
    BY <2>1, <2>2, StablyFacts
<1>2. Len(s) <= Len(nodes)
  <2> DEFINE f == [i \in 1 .. Len(s) |-> Pos(nodes)[s[i]]]
  <2>1. f \in [1 .. Len(s) -> 1 .. Len(nodes)]
    BY PosFacts
  <2>2. \A i, j \in 1 .. Len(s) : f[i] = f[j] => i = j
    <3> SUFFICES ASSUME NEW i \in 1 .. Len(s), NEW j \in 1 .. Len(s), f[i] = f[j] PROVE i = j
      OBVIOUS
    <3>1. s[i] = s[j]
      BY PosFacts
    <3>2. QED
      BY <1>1, <3>1 DEF Distinct
  <2>3. f \in Injection(1 .. Len(s), 1 .. Len(nodes))
    BY <2>1, <2>2 DEF Injection, IsInjective
  <2>4. Len(s) \in Nat /\ Len(nodes) \in Nat
    BY DEF Sortable
  <2>5. \A n \in Nat : IsFiniteSet(1 .. n) /\ Cardinality(1 .. n) = n
    <3> SUFFICES ASSUME NEW n \in Nat PROVE IsFiniteSet(1 .. n) /\ Cardinality(1 .. n) = n
      OBVIOUS
    <3>1. 1 \in Int /\ n \in Int
      OBVIOUS
    <3>2. IsFiniteSet(1 .. n) /\ Cardinality(1 .. n) = IF 1 > n THEN 0 ELSE n - 1 + 1
      BY <3>1, FS_Interval
    <3>3. QED
      BY <3>2
  <2> HIDE DEF f
  <2>6. QED
    BY <2>3, <2>4, <2>5, FS_Injection
<1>3. QED
  BY <1>1, <1>2

BinCount == 32

(* All that the proofs need to know of the number of bins. *)
LEMMA BinCountFact == BinCount \in Nat /\ BinCount > 0
BY DEF BinCount

\* w[i] is the length of the run in bin i.
Doubles(w) == w \in [1 .. BinCount + 1 -> Nat] /\ w[1] = 1 /\ \A i \in 1 .. BinCount : w[i + 1] = 2 * w[i]

TwoTo32 == 65536 * 65536

(* Run lengths that double from bin to bin reach 2^32 behind the last one. *)
LEMMA Doubling ==
  /\ \E w : Doubles(w)
  /\ \A w : Doubles(w) => w[BinCount + 1] = TwoTo32
<1> USE BinCountFact
<1>1. \E w : Doubles(w)
  <2> DEFINE step == [k \in 1 .. BinCount |-> [n \in Nat |-> 2 * n]]
  <2>1. step \in [1 .. BinCount -> [Nat -> Nat]]
    OBVIOUS
  <2>2. PICK f \in [0 .. BinCount -> Nat] : Runs(f, BinCount, 1, step)
    <3> HIDE DEF step
    <3>1. QED
      BY <2>1, RunExists
  <2> DEFINE w == [i \in 1 .. BinCount + 1 |-> f[i - 1]]
  <2>3. \A i \in 1 .. BinCount : f[i] = 2 * f[i - 1]
    <3> SUFFICES ASSUME NEW i \in 1 .. BinCount PROVE f[i] = 2 * f[i - 1]
      OBVIOUS
    <3>1. i - 1 \in 0 .. BinCount
      OBVIOUS
    <3>2. f[i - 1] \in Nat
      BY <3>1
    <3>3. f[i] = step[i][f[i - 1]]
      <4> HIDE DEF step
      <4>1. QED
        BY <2>2 DEF Runs
    <3>4. QED
      BY <3>2, <3>3
  <2>4. w \in [1 .. BinCount + 1 -> Nat] /\ w[1] = 1
    BY <2>2 DEF Runs
  <2>5. \A i \in 1 .. BinCount : w[i + 1] = 2 * w[i]
    <3> SUFFICES ASSUME NEW i \in 1 .. BinCount PROVE w[i + 1] = 2 * w[i]
      OBVIOUS
    <3>1. i + 1 \in 1 .. BinCount + 1 /\ i \in 1 .. BinCount + 1 /\ (i + 1) - 1 = i
      OBVIOUS
    <3>2. w[i + 1] = f[i] /\ w[i] = f[i - 1]
      BY <3>1
    <3>3. QED
      BY <2>3, <3>2
  <2>6. Doubles(w)
    BY <2>4, <2>5 DEF Doubles
  <2>7. QED
    BY <2>6
<1>2. ASSUME NEW w, Doubles(w) PROVE w[BinCount + 1] = TwoTo32
  <2> USE DEF BinCount, TwoTo32
  <2>1. \A i \in 1 .. BinCount : w[i + 1] = 2 * w[i]
    BY <1>2 DEF Doubles
  <2>2. w[1] = 1 /\ \A i \in 1 .. BinCount + 1 : w[i] \in Nat
    BY <1>2 DEF Doubles
  <2>3. ASSUME NEW i \in 1 .. BinCount - 3 PROVE w[i + 4] = 16 * w[i]
    <3>1. i \in 1 .. BinCount /\ i + 1 \in 1 .. BinCount /\ i + 2 \in 1 .. BinCount /\ i + 3 \in 1 .. BinCount
          /\ (i + 1) + 1 = i + 2 /\ (i + 2) + 1 = i + 3 /\ (i + 3) + 1 = i + 4
      OBVIOUS
    <3>2. w[i + 1] = 2 * w[i] /\ w[i + 2] = 2 * w[i + 1] /\ w[i + 3] = 2 * w[i + 2] /\ w[i + 4] = 2 * w[i + 3]
      BY <2>1, <3>1
    <3>3. w[i] \in Nat
      BY <2>2
    <3>4. QED
      BY <3>2, <3>3
  <2>4. w[5] = 16 * w[1] /\ w[9] = 16 * w[5] /\ w[13] = 16 * w[9] /\ w[17] = 16 * w[13]
    BY <2>3
  <2>5. w[21] = 16 * w[17] /\ w[25] = 16 * w[21] /\ w[29] = 16 * w[25] /\ w[33] = 16 * w[29]
    BY <2>3
  <2>6. QED
    BY <2>2, <2>4, <2>5
<1>3. QED
  BY <1>1, <1>2

IsEmpty(s) == s = << >>

\* Binned: there are 32 bins.  Filled: their runs after k nodes.
Binned(bins, X) == bins \in [1 .. BinCount -> Seq(X)]

Filled(bins, k, nodes, key, w, X) ==
  /\ Binned(bins, X)
  /\ \A i \in 1 .. BinCount : InOrder(bins[i], Stably(nodes, key))
  /\ \A i \in 1 .. BinCount : ~ IsEmpty(bins[i]) => Len(bins[i]) = w[i]
  /\ \A x \in X : Pos(nodes)[x] <= k <=> \E i \in 1 .. BinCount : Holds(bins, i, x)
  /\ \A i, j \in 1 .. BinCount : i < j =>
       \A x, y \in X : Holds(bins, i, x) /\ Holds(bins, j, y) => Pos(nodes)[y] < Pos(nodes)[x]

(* Before the first node all bins are empty. *)
LEMMA BinsFilled ==
  ASSUME NEW nodes, NEW key, NEW X, Sortable(nodes, key, X), NEW w
  PROVE  Filled(Bins, 0, nodes, key, w, X)
<1>1. \A i \in 1 .. BinCount : Bins[i] = << >>
  BY DEF Bins, BinCount
<1>2. Binned(Bins, X)
  BY DEF Bins, Binned, BinCount
<1>3. \A i \in 1 .. BinCount : \A x : ~ Holds(Bins, i, x)
  <2>1. ToSet(<< >>) = {}
    BY DEF ToSet
  <2>2. QED
    BY <1>1, <2>1 DEF Holds
<1>4. \A x \in X : ~ (Pos(nodes)[x] <= 0)
  BY PosFacts
<1>5. \A i \in 1 .. BinCount : InOrder(Bins[i], Stably(nodes, key))
  <2>1. Len(<< >>) = 0
    OBVIOUS
  <2>2. InOrder(<< >>, Stably(nodes, key))
    BY <2>1 DEF InOrder
  <2>3. QED
    BY <1>1, <2>2
<1>6. X = ToSet(nodes)
  BY DEF Sortable
<1>7. QED
  BY <1>1, <1>2, <1>3, <1>4, <1>5, <1>6 DEF Filled, IsEmpty

(* A recursive definition over 0 .. N, as the function that it defines. *)
Recurs(f, N, s, step) == f = [k \in 0 .. N |-> IF k = 0 THEN s ELSE step[k][f[k - 1]]]

(* There are functions that such definitions define. *)
LEMMA Recursion ==
  ASSUME NEW N \in Nat, NEW X, NEW s \in X, NEW step \in [1 .. N -> [X -> X]]
  PROVE  \E f \in [0 .. N -> X] : Recurs(f, N, s, step)
<1>1. PICK f \in [0 .. N -> X] : Runs(f, N, s, step)
  BY RunExists
<1> DEFINE g == [k \in 0 .. N |-> IF k = 0 THEN s ELSE step[k][f[k - 1]]]
<1>2. ASSUME NEW k \in 0 .. N PROVE f[k] = g[k]
  <2>1. k # 0 => k \in 1 .. N
    OBVIOUS
  <2>2. QED
    BY <1>1, <2>1 DEF Runs
<1>3. f = g
  BY <1>2
<1>4. QED
  BY <1>3 DEF Recurs

(* The nodes of a sequence are those at its indices. *)
LEMMA InSet ==
  ASSUME NEW X, NEW s \in Seq(X)
  PROVE  /\ ToSet(s) \subseteq X
         /\ \A x : x \in ToSet(s) <=> \E i \in 1 .. Len(s) : s[i] = x
<1>1. DOMAIN s = 1 .. Len(s)
  OBVIOUS
<1>2. QED
  BY <1>1 DEF ToSet

(* Of two runs, the first is one whose nodes stand before those of the second. *)
LEMMA DecidedByPlace ==
  ASSUME NEW nodes, NEW key, NEW X, Sortable(nodes, key, X), NEW a \in Seq(X), NEW b \in Seq(X),
         \A x \in ToSet(a), y \in ToSet(b) : Pos(nodes)[x] < Pos(nodes)[y]
  PROVE  Decided(a, b, key, Stably(nodes, key))
<1> SUFFICES ASSUME NEW i \in 1 .. Len(a), NEW j \in 1 .. Len(b)
             PROVE  IF key[a[i]] <= key[b[j]] THEN << a[i], b[j] >> \in Stably(nodes, key)
                    ELSE << b[j], a[i] >> \in Stably(nodes, key)
  BY DEF Decided
<1>1. a[i] \in X /\ b[j] \in X /\ a[i] \in ToSet(a) /\ b[j] \in ToSet(b)
  BY InSet
<1>2. key[a[i]] \in Int /\ key[b[j]] \in Int
  BY <1>1 DEF Sortable
<1>3. IF key[a[i]] <= key[b[j]] THEN Earlier(a[i], b[j], nodes, key) ELSE Earlier(b[j], a[i], nodes, key)
  BY <1>1, <1>2 DEF Earlier
<1>4. QED
  BY <1>1, <1>3, StablyFacts

-----------------------------------------------------------------------------
(* The bins. *)

FirstFree(bins) == Min({i \in DOMAIN bins : bins[i] = << >> \/ i = Len(bins)})

RecRun(r, N, bins, n, key) ==
  r = [i \in 0 .. N |-> IF i = 0 THEN << n >> ELSE Merge(bins[i], r[i - 1], key)]

CarriedRun(N, bins, n, key) == CHOOSE r : RecRun(r, N, bins, n, key)

(* What carrying a node leaves in the bins. *)
LEMMA CarriedDef ==
  ASSUME NEW bins, NEW n, NEW key
  PROVE  Carried(bins, n, key) =
           [i \in DOMAIN bins |->
             IF i < FirstFree(bins) THEN << >>
             ELSE IF i = FirstFree(bins) THEN CarriedRun(FirstFree(bins) - 1, bins, n, key)[FirstFree(bins) - 1]
             ELSE bins[i]]
BY DEF Carried, FirstFree, RecRun, CarriedRun

(* A node is carried through full bins only, unless all are full. *)
LEMMA FirstFreeFacts ==
  ASSUME NEW X, NEW bins, Binned(bins, X)
  PROVE  /\ FirstFree(bins) \in 1 .. BinCount
         /\ \A i \in 1 .. FirstFree(bins) - 1 : ~ IsEmpty(bins[i])
         /\ IsEmpty(bins[FirstFree(bins)]) \/ FirstFree(bins) = BinCount
<1> USE BinCountFact
<1> DEFINE Stops(i) == IsEmpty(bins[i]) \/ i = BinCount
           T == {i \in 1 .. BinCount : Stops(i)}
<1>1. DOMAIN bins = 1 .. BinCount /\ Len(bins) = BinCount
  BY DEF Binned
<1>2. FirstFree(bins) = CHOOSE x \in T : \A y \in T : x <= y
  BY <1>1 DEF FirstFree, Min, IsEmpty
<1>3. Stops(BinCount)
  OBVIOUS
<1> HIDE DEF Stops
<1>4. T \in SUBSET Nat /\ BinCount \in T
  <2>1. \A i \in 1 .. BinCount : i \in Nat
    OBVIOUS
  <2>2. BinCount \in 1 .. BinCount
    OBVIOUS
  <2>3. QED
    BY <1>3, <2>1, <2>2, Zenon
<1>5. \E x \in T : \A y \in T : x <= y
  <2> HIDE DEF T
  <2>1. QED
    BY <1>4, LeastNat
<1> DEFINE f == CHOOSE x \in T : \A y \in T : x <= y
<1>6. f \in T /\ \A y \in T : f <= y
  <2> HIDE DEF T
  <2>1. QED
    BY <1>5
<1> HIDE DEF f
<1>7. f \in 1 .. BinCount /\ Stops(f) /\ \A i \in 1 .. f - 1 : ~ Stops(i)
  <2>1. f \in 1 .. BinCount /\ Stops(f)
    BY <1>6
  <2>2. ASSUME NEW i \in 1 .. f - 1 PROVE ~ Stops(i)
    <3>1. i \in 1 .. BinCount /\ ~ (f <= i)
      BY <2>1
    <3>2. QED
      BY <1>6, <3>1
  <2>3. QED
    BY <2>1, <2>2
<1>8. QED
  BY <1>2, <1>7 DEF Stops, f

(* The run that is carried is merged with one bin after the other. *)
LEMMA CarriedRunIs ==
  ASSUME NEW X, NEW bins, Binned(bins, X), NEW n \in X, NEW key, NEW N \in Nat, N < BinCount
  PROVE  LET run == CarriedRun(N, bins, n, key) IN
         /\ run \in [0 .. N -> Seq(X)] /\ run[0] = << n >>
         /\ \A i \in 1 .. N : run[i] = Merge(bins[i], run[i - 1], key)
<1> USE BinCountFact
<1> DEFINE one == << n >>
           step == [i \in 1 .. N |-> [r \in Seq(X) |-> Merge(bins[i], r, key)]]
           c == CarriedRun(N, bins, n, key)
<1>1. \A i \in 1 .. N : i - 1 \in 0 .. N /\ i \in 1 .. BinCount
  <2> SUFFICES ASSUME NEW i \in 1 .. N PROVE i - 1 \in 0 .. N /\ i \in 1 .. BinCount
    OBVIOUS
  <2>1. QED
    OBVIOUS
<1>2. step \in [1 .. N -> [Seq(X) -> Seq(X)]]
  <2>1. \A i \in 1 .. N : bins[i] \in Seq(X)
    BY <1>1 DEF Binned
  <2>2. \A i \in 1 .. N, r \in Seq(X) : Merge(bins[i], r, key) \in Seq(X)
    BY <2>1, MergeFacts
  <2>3. QED
    BY <2>2
<1>3. one \in Seq(X)
  OBVIOUS
<1> HIDE DEF one
<1>4. PICK f \in [0 .. N -> Seq(X)] : Recurs(f, N, one, step)
  <2> HIDE DEF step
  <2>1. QED
    BY <1>1, <1>2, <1>3, Recursion
<1>5. RecRun(f, N, bins, n, key)
  <2> DEFINE g == [k \in 0 .. N |-> IF k = 0 THEN one ELSE Merge(bins[k], f[k - 1], key)]
  <2>1. ASSUME NEW k \in 0 .. N PROVE f[k] = g[k]
    <3>1. CASE k = 0
      BY <1>4, <3>1 DEF Recurs
    <3>2. CASE k # 0
      <4>1. k \in 1 .. N /\ k - 1 \in 0 .. N
        BY <1>1, <3>2
      <4>2. f[k] = step[k][f[k - 1]] /\ f[k - 1] \in Seq(X)
        BY <1>4, <3>2, <4>1 DEF Recurs
      <4>3. QED
        BY <3>2, <4>1, <4>2
    <3>3. QED
      BY <3>1, <3>2
  <2>2. f = g
    BY <2>1
  <2>3. QED
    BY <2>2 DEF RecRun, one
<1>6. RecRun(c, N, bins, n, key)
  BY <1>5, Zenon DEF CarriedRun
<1> HIDE DEF c
<1>7. c = [k \in 0 .. N |-> IF k = 0 THEN one ELSE Merge(bins[k], c[k - 1], key)]
  BY <1>6 DEF RecRun, one
<1>8. c[0] = one /\ \A i \in 1 .. N : c[i] = Merge(bins[i], c[i - 1], key)
  <2>1. 0 \in 0 .. N
    OBVIOUS
  <2>2. ASSUME NEW i \in 1 .. N PROVE c[i] = Merge(bins[i], c[i - 1], key)
    <3>1. i \in 0 .. N /\ i # 0
      OBVIOUS
    <3>2. QED
      BY <1>7, <3>1
  <2>3. QED
    BY <1>7, <2>1, <2>2
<1>9. \A i \in 0 .. N : c[i] \in Seq(X)
  <2> DEFINE S == {i \in 0 .. N : c[i] \in Seq(X)}
  <2>1. 0 \in S
    BY <1>1, <1>3, <1>8
  <2>2. ASSUME NEW i \in 0 .. N - 1, i \in S PROVE i + 1 \in S
    <3>1. i + 1 \in 1 .. N /\ (i + 1) - 1 = i /\ i + 1 \in 0 .. N
      BY <1>1
    <3>2. bins[i + 1] \in Seq(X)
      BY <1>1, <3>1 DEF Binned
    <3>3. c[i + 1] = Merge(bins[i + 1], c[i], key)
      BY <1>8, <3>1
    <3>4. c[i + 1] \in Seq(X)
      BY <2>2, <3>2, <3>3, MergeFacts
    <3>5. QED
      BY <3>1, <3>4
  <2>4. \A i \in 0 .. N : i \in S
    <3> HIDE DEF S
    <3>1. QED
      BY <1>1, <2>1, <2>2, Induction
  <2>5. QED
    BY <2>4
<1>10. c \in [0 .. N -> Seq(X)]
  BY <1>7, <1>9
<1>11. QED
  BY <1>8, <1>10 DEF c, one

\* The run that carries n out of the first i bins.
Carries(r, i, n, bins, nodes, key, w, X) ==
  /\ r \in Seq(X) /\ InOrder(r, Stably(nodes, key)) /\ Len(r) = w[i + 1]
  /\ \A x \in X : x \in ToSet(r) <=> (x = n \/ \E j \in 1 .. i : Holds(bins, j, x))

(* A node is a run on its own. *)
LEMMA CarriesOne ==
  ASSUME NEW nodes, NEW key, NEW X, Sortable(nodes, key, X), NEW w, Doubles(w), NEW n \in X, NEW bins
  PROVE  Carries(<< n >>, 0, n, bins, nodes, key, w, X)
<1> DEFINE r == << n >>
<1>1. r \in Seq(X) /\ Len(r) = 1 /\ r[1] = n
  OBVIOUS
<1> HIDE DEF r
<1>2. InOrder(r, Stably(nodes, key))
  BY <1>1 DEF InOrder
<1>3. Len(r) = w[0 + 1]
  BY <1>1 DEF Doubles
<1>4. \A x \in X : x \in ToSet(r) <=> x = n
  BY <1>1, InSet
<1>5. QED
  BY <1>1, <1>2, <1>3, <1>4 DEF Carries, r

(* A run stays one in a merge with that of the next bin. *)
LEMMA CarriesOn ==
  ASSUME NEW nodes, NEW key, NEW X, Sortable(nodes, key, X), NEW w, Doubles(w),
         NEW k \in 0 .. Len(nodes) - 1, NEW bins, Filled(bins, k, nodes, key, w, X),
         NEW i \in 0 .. BinCount - 1, NEW b, b = bins[i + 1], ~ IsEmpty(b), NEW r,
         NEW n, n = nodes[k + 1], Carries(r, i, n, bins, nodes, key, w, X)
  PROVE  Carries(Merge(b, r, key), i + 1, n, bins, nodes, key, w, X)
<1> DEFINE m == Merge(b, r, key)
<1>0. k + 1 \in 1 .. Len(nodes) /\ k \in Nat
  BY DEF Sortable
<1> USE BinCountFact
<1>00. i + 1 \in 1 .. BinCount /\ i \in Nat
  OBVIOUS
<1>1. n \in X /\ Pos(nodes)[n] = k + 1
  BY <1>0, PosFacts
<1>2. bins[i + 1] \in Seq(X) /\ r \in Seq(X) /\ ToSet(bins[i + 1]) \subseteq X /\ ToSet(r) \subseteq X
  <2>1. bins[i + 1] \in Seq(X) /\ r \in Seq(X)
    BY <1>00 DEF Filled, Binned, Carries
  <2>2. QED
    BY <2>1, InSet
<1>3. \A x \in ToSet(bins[i + 1]), y \in ToSet(r) : Pos(nodes)[x] < Pos(nodes)[y]
  <2> SUFFICES ASSUME NEW x \in ToSet(bins[i + 1]), NEW y \in ToSet(r) PROVE Pos(nodes)[x] < Pos(nodes)[y]
    OBVIOUS
  <2>1. x \in X /\ y \in X /\ Holds(bins, i + 1, x)
    BY <1>2 DEF Holds
  <2>2. Pos(nodes)[x] <= k /\ Pos(nodes)[x] \in Int
    BY <1>00, <2>1, PosFacts DEF Filled
  <2>3. CASE y = n
    BY <1>0, <1>1, <2>2, <2>3
  <2>4. CASE \E j \in 1 .. i : Holds(bins, j, y)
    <3>1. PICK j \in 1 .. i : Holds(bins, j, y)
      BY <2>4
    <3>2. j \in 1 .. BinCount /\ j < i + 1
      BY <1>00
    <3>3. QED
      BY <1>00, <2>1, <3>1, <3>2 DEF Filled
  <2>5. QED
    BY <2>1, <2>3, <2>4 DEF Carries
<1>4. Decided(bins[i + 1], r, key, Stably(nodes, key))
  BY <1>2, <1>3, DecidedByPlace
<1>5. InOrder(bins[i + 1], Stably(nodes, key)) /\ InOrder(r, Stably(nodes, key)) /\ Transitive(Stably(nodes, key), X)
  BY <1>00, StablyFacts DEF Filled, Carries
<1>6. InOrder(m, Stably(nodes, key))
  BY <1>2, <1>4, <1>5, MergeOrdered
<1>7. m \in Seq(X) /\ Len(m) = Len(bins[i + 1]) + Len(r) /\ ToSet(m) = ToSet(bins[i + 1]) \cup ToSet(r)
  BY <1>2, MergeFacts
<1>8. Len(m) = w[(i + 1) + 1]
  <2>1. Len(bins[i + 1]) = w[i + 1] /\ Len(r) = w[i + 1]
    BY <1>00 DEF Filled, Carries
  <2>2. i + 1 \in 1 .. BinCount /\ i + 1 \in 1 .. BinCount + 1 
    OBVIOUS
  <2>3. w[i + 1] \in Nat /\ w[(i + 1) + 1] = 2 * w[i + 1]
    BY <2>2 DEF Doubles
  <2>4. QED
    BY <1>7, <2>1, <2>2, <2>3
<1>9. \A x \in X : x \in ToSet(m) <=> (x = n \/ \E j \in 1 .. i + 1 : Holds(bins, j, x))
  <2> SUFFICES ASSUME NEW x \in X
               PROVE  x \in ToSet(m) <=> (x = n \/ \E j \in 1 .. i + 1 : Holds(bins, j, x))
    OBVIOUS
  <2>1. x \in ToSet(r) <=> (x = n \/ \E j \in 1 .. i : Holds(bins, j, x))
    BY DEF Carries
  <2>2. x \in ToSet(bins[i + 1]) <=> Holds(bins, i + 1, x)
    BY DEF Holds
  <2>3. (\E j \in 1 .. i + 1 : Holds(bins, j, x)) <=> (Holds(bins, i + 1, x) \/ \E j \in 1 .. i : Holds(bins, j, x))
    <3>1. \A j : j \in 1 .. i + 1 <=> (j = i + 1 \/ j \in 1 .. i)
      OBVIOUS
    <3>2. QED
      BY <3>1
  <2>4. QED
    BY <1>7, <2>1, <2>2, <2>3
<1>10. QED
  BY <1>6, <1>7, <1>8, <1>9 DEF Carries

(* The bins after one more node. *)
LEMMA CarriedFilled ==
  ASSUME NEW nodes, NEW key, NEW X, Sortable(nodes, key, X), NEW w, Doubles(w),
         NEW k \in 0 .. Len(nodes) - 1, NEW bins, Filled(bins, k, nodes, key, w, X)
  PROVE  Filled(Carried(bins, nodes[k + 1], key), k + 1, nodes, key, w, X)
<1> DEFINE n == nodes[k + 1]
           to == FirstFree(bins)
           N == to - 1
           run == CarriedRun(N, bins, n, key)
           new == Carried(bins, n, key)
           none == << >>
<1>0. k + 1 \in 1 .. Len(nodes) /\ k \in Nat /\ Binned(bins, X)
  BY DEF Sortable, Filled
<1> USE BinCountFact
<1>1. n \in X /\ Pos(nodes)[n] = k + 1
  BY <1>0, PosFacts
<1>2. /\ to \in 1 .. BinCount /\ \A i \in 1 .. to - 1 : ~ IsEmpty(bins[i])
      /\ IsEmpty(bins[to]) \/ to = BinCount
  BY <1>0, FirstFreeFacts
<1> HIDE DEF to
<1>3. N \in Nat /\ N < BinCount /\ to = N + 1
  BY <1>2
<1> HIDE DEF N
<1>4. run \in [0 .. N -> Seq(X)] /\ run[0] = << n >> /\ \A i \in 1 .. N : run[i] = Merge(bins[i], run[i - 1], key)
  <2> HIDE DEF n
  <2>1. QED
    BY <1>0, <1>1, <1>3, CarriedRunIs
<1> HIDE DEF run
<1>5. \A i \in 0 .. N : Carries(run[i], i, n, bins, nodes, key, w, X)
  <2> DEFINE S == {i \in 0 .. N : Carries(run[i], i, n, bins, nodes, key, w, X)}
  <2>1. 0 \in S
    <3>1. Carries(<< n >>, 0, n, bins, nodes, key, w, X)
      <4> HIDE DEF n
      <4>1. QED
        BY <1>1, CarriesOne
    <3>2. 0 \in 0 .. N
      BY <1>3
    <3>3. QED
      BY <1>4, <3>1, <3>2, Zenon
  <2>2. ASSUME NEW j \in 0 .. N - 1, j \in S PROVE j + 1 \in S
    <3>1. j + 1 \in 1 .. N /\ (j + 1) - 1 = j /\ j + 1 \in 0 .. N /\ j + 1 \in 1 .. BinCount /\ j + 1 \in 1 .. to - 1
      BY <1>2, <1>3
    <3>2. run[j + 1] = Merge(bins[j + 1], run[j], key) /\ ~ IsEmpty(bins[j + 1])
      BY <1>2, <1>4, <3>1
    <3>3. run[j + 1] \in Seq(X)
      BY <1>4, <3>1
    <3>4. Carries(run[j], j, n, bins, nodes, key, w, X)
      BY <2>2, <3>1
    <3> DEFINE b == bins[j + 1]
               r == run[j]
    <3>9. j \in 0 .. BinCount - 1
      BY <1>2, <1>3
    <3>5. Carries(Merge(b, r, key), j + 1, n, bins, nodes, key, w, X)
      <4>1. Carries(r, j, n, bins, nodes, key, w, X) /\ b = bins[j + 1] /\ ~ IsEmpty(b) /\ n = nodes[k + 1]
        BY <3>1, <3>2, <3>4
      <4> HIDE DEF b, r, n
      <4>2. QED
        BY <3>9, <4>1, CarriesOn
    <3>6. Carries(run[j + 1], j + 1, n, bins, nodes, key, w, X)
      <4> HIDE DEF n
      <4>1. QED
        BY <3>2, <3>5
    <3>7. QED
      BY <3>1, <3>6
  <2>3. \A i \in 0 .. N : i \in S
    <3> HIDE DEF S
    <3>1. QED
      BY <1>3, <2>1, <2>2, Induction
  <2>4. QED
    BY <2>3
<1>6. Carries(run[N], N, n, bins, nodes, key, w, X)
  BY <1>3, <1>5
<1>7. IsEmpty(bins[to])
  <2> SUFFICES ASSUME to = BinCount, ~ IsEmpty(bins[BinCount]) PROVE FALSE
    BY <1>2
  <2> DEFINE m == Merge(bins[BinCount], run[N], key)
  <2>1. /\ Carries(run[N], N, n, bins, nodes, key, w, X) /\ N \in 0 .. BinCount - 1
        /\ N + 1 = BinCount
    BY <1>3, <1>6
  <2>2. m \in Seq(X) /\ InOrder(m, Stably(nodes, key)) /\ Len(m) = w[BinCount + 1]
    <3>1. ~ IsEmpty(bins[N + 1])
      BY <2>1
    <3> DEFINE b == bins[N + 1]
               r == run[N]
    <3>2. Carries(Merge(b, r, key), N + 1, n, bins, nodes, key, w, X)
      <4>1. Carries(r, N, n, bins, nodes, key, w, X) /\ b = bins[N + 1] /\ ~ IsEmpty(b) /\ n = nodes[k + 1]
        BY <2>1, <3>1
      <4> HIDE DEF b, r, n
      <4>2. QED
        BY <2>1, <4>1, CarriesOn
    <3>3. QED
      BY <2>1, <3>2 DEF Carries
  <2>3. w[BinCount + 1] = TwoTo32
    BY Doubling
  <2>4. Len(m) <= Len(nodes)
    BY <2>2, OrderedDistinct
  <2>5. Len(nodes) \in Nat /\ Len(nodes) \div 65536 < 65536
    BY DEF Sortable
  <2>6. \A l \in Nat : l >= 65536 * 65536 => l \div 65536 >= 65536
    OBVIOUS
  <2>7. Len(m) = TwoTo32
    BY <2>2, <2>3, Zenon
  <2>8. Len(nodes) >= 65536 * 65536
    <3>1. TwoTo32 <= Len(nodes)
      BY <2>4, <2>7, Zenon
    <3>2. TwoTo32 = 65536 * 65536
      BY DEF TwoTo32
    <3> HIDE DEF m
    <3>3. QED
      BY <2>5, <3>1, <3>2
  <2>9. QED
    BY <2>5, <2>6, <2>8
<1>8. /\ DOMAIN new = 1 .. BinCount
      /\ \A i \in 1 .. BinCount : new[i] = IF i < to THEN none ELSE IF i = to THEN run[N] ELSE bins[i]
  <2>1. DOMAIN bins = 1 .. BinCount
    BY <1>0 DEF Binned
  <2>2. new = [i \in 1 .. BinCount |-> IF i < to THEN none ELSE IF i = to THEN run[N] ELSE bins[i]]
    BY <2>1, CarriedDef DEF to, N, run
  <2> HIDE DEF new
  <2>3. QED
    BY <2>2
<1> HIDE DEF new, n, none
<1>9. /\ Binned(new, X)
      /\ \A i \in 1 .. BinCount : InOrder(new[i], Stably(nodes, key))
      /\ \A i \in 1 .. BinCount : ~ IsEmpty(new[i]) => Len(new[i]) = w[i]
  <2>1. /\ run[N] \in Seq(X) /\ InOrder(run[N], Stably(nodes, key)) /\ Len(run[N]) = w[to]
    BY <1>3, <1>6 DEF Carries
  <2>2. none \in Seq(X) /\ InOrder(none, Stably(nodes, key)) /\ IsEmpty(none)
    <3>1. none \in Seq(X) /\ Len(none) = 0 /\ IsEmpty(none)
      BY DEF IsEmpty, none
    <3>2. QED
      BY <3>1 DEF InOrder
  <2>3. \A i \in 1 .. BinCount : new[i] \in Seq(X)
    BY <1>0, <1>8, <2>1, <2>2 DEF Binned
  <2>4. \A i \in 1 .. BinCount : InOrder(new[i], Stably(nodes, key))
    BY <1>8, <2>1, <2>2 DEF Filled
  <2>5. \A i \in 1 .. BinCount : ~ IsEmpty(new[i]) => Len(new[i]) = w[i]
    BY <1>8, <2>1, <2>2 DEF Filled
  <2>6. Binned(new, X)
    <3>1. new = [i \in 1 .. BinCount |-> new[i]]
      <4>1. new = [i \in 1 .. BinCount |-> IF i < to THEN none ELSE IF i = to THEN run[N] ELSE bins[i]]
        <5>1. DOMAIN bins = 1 .. BinCount
          BY <1>0 DEF Binned
        <5>2. QED
          BY <5>1, CarriedDef DEF to, N, run, new, n, none
      <4>2. QED
        BY <4>1
    <3>2. QED
      BY <2>3, <3>1 DEF Binned
  <2>7. QED
    BY <2>4, <2>5, <2>6
<1>10. \A i \in 1 .. BinCount : \A x \in X :
         Holds(new, i, x) <=> \/ i = to /\ (x = n \/ \E j \in 1 .. N : Holds(bins, j, x))
                              \/ i > to /\ Holds(bins, i, x)
  <2> SUFFICES ASSUME NEW i \in 1 .. BinCount, NEW x \in X
               PROVE  Holds(new, i, x) <=> \/ i = to /\ (x = n \/ \E j \in 1 .. N : Holds(bins, j, x))
                                           \/ i > to /\ Holds(bins, i, x)
    OBVIOUS
  <2>1. CASE i < to
    <3>1. new[i] = none /\ ~ (i = to) /\ ~ (i > to)
      BY <1>2, <1>8, <2>1, Z3
    <3>2. ToSet(none) = {}
      BY DEF ToSet, none
    <3>3. QED
      BY <3>1, <3>2 DEF Holds
  <2>2. CASE i = to
    <3>1. new[i] = run[N] /\ ~ (i > to)
      BY <1>2, <1>8, <2>2
    <3>2. QED
      BY <1>6, <2>2, <3>1 DEF Holds, Carries
  <2>3. CASE i > to
    <3>1. new[i] = bins[i] /\ ~ (i = to)
      BY <1>2, <1>8, <2>3
    <3>2. QED
      BY <2>3, <3>1 DEF Holds
  <2>4. QED
    BY <1>2, <2>1, <2>2, <2>3
<1>11. \A x \in X : ~ Holds(bins, to, x)
  <2>1. ToSet(<< >>) = {}
    BY DEF ToSet
  <2>2. QED
    BY <1>7, <2>1 DEF Holds, IsEmpty
<1>12. \A x \in X : Pos(nodes)[x] <= k + 1 <=> \E i \in 1 .. BinCount : Holds(new, i, x)
  <2> SUFFICES ASSUME NEW x \in X PROVE Pos(nodes)[x] <= k + 1 <=> \E i \in 1 .. BinCount : Holds(new, i, x)
    OBVIOUS
  <2>1. Pos(nodes)[x] <= k + 1 <=> (x = n \/ Pos(nodes)[x] <= k)
    <3>1. Pos(nodes)[x] \in Nat /\ nodes[Pos(nodes)[x]] = x
      BY PosFacts
    <3>2. QED
      BY <1>0, <1>1, <3>1 DEF n
  <2>2. Pos(nodes)[x] <= k <=> \E i \in 1 .. BinCount : Holds(bins, i, x)
    BY DEF Filled
  <2>3. (\E i \in 1 .. BinCount : Holds(bins, i, x)) <=>
          ((\E i \in 1 .. N : Holds(bins, i, x)) \/ \E i \in 1 .. BinCount : i > to /\ Holds(bins, i, x))
    <3>1. \A i : i \in 1 .. BinCount <=> (i \in 1 .. N \/ i = to \/ (i \in 1 .. BinCount /\ i > to))
      BY <1>2, <1>3
    <3>2. QED
      BY <1>11, <3>1
  <2>4. (\E i \in 1 .. BinCount : Holds(new, i, x)) <=>
          ((x = n \/ \E j \in 1 .. N : Holds(bins, j, x)) \/ \E i \in 1 .. BinCount : i > to /\ Holds(bins, i, x))
    BY <1>2, <1>10
  <2>5. QED
    BY <2>1, <2>2, <2>3, <2>4
<1>13. ASSUME NEW i \in 1 .. BinCount, NEW j \in 1 .. BinCount, i < j, NEW x \in X, NEW y \in X,
              Holds(new, i, x), Holds(new, j, y)
       PROVE  Pos(nodes)[y] < Pos(nodes)[x]
  <2>1. i >= to /\ j > to /\ Holds(bins, j, y)
    BY <1>2, <1>10, <1>13
  <2>2. Pos(nodes)[y] <= k /\ Pos(nodes)[y] \in Int
    BY <2>1, PosFacts DEF Filled
  <2>3. CASE i > to
    <3>1. Holds(bins, i, x)
      BY <1>2, <1>10, <1>13, <2>3
    <3>2. QED
      BY <1>13, <2>1, <3>1 DEF Filled
  <2>4. CASE i = to
    <3>1. x = n \/ \E l \in 1 .. N : Holds(bins, l, x)
      BY <1>2, <1>10, <1>13, <2>4
    <3>2. CASE x = n
      BY <1>0, <1>1, <2>2, <3>2
    <3>3. ASSUME NEW l \in 1 .. N, Holds(bins, l, x) PROVE Pos(nodes)[y] < Pos(nodes)[x]
      <4>1. l \in 1 .. BinCount /\ l < j
        BY <1>2, <1>3, <2>1
      <4>2. QED
        BY <2>1, <3>3, <4>1 DEF Filled
    <3>4. QED
      BY <3>1, <3>2, <3>3
  <2>5. QED
    BY <1>2, <2>1, <2>3, <2>4
<1>14. QED
  BY <1>9, <1>12, <1>13 DEF Filled, new, n

(* Carrying a node keeps the number of the bins. *)
LEMMA CarriedBinned ==
  ASSUME NEW X, NEW bins, Binned(bins, X), NEW n \in X, NEW key
  PROVE  Binned(Carried(bins, n, key), X)
<1> DEFINE to == FirstFree(bins)
           N == to - 1
           run == CarriedRun(N, bins, n, key)
           none == << >>
           new == [i \in 1 .. BinCount |-> IF i < to THEN none ELSE IF i = to THEN run[N] ELSE bins[i]]
<1> USE BinCountFact
<1>1. to \in 1 .. BinCount
  BY FirstFreeFacts
<1>2. Carried(bins, n, key) = new
  <2>1. DOMAIN bins = 1 .. BinCount
    BY DEF Binned
  <2>2. QED
    BY <2>1, CarriedDef
<1> HIDE DEF to
<1>3. N \in Nat /\ N < BinCount
  BY <1>1
<1> HIDE DEF N
<1>4. run[N] \in Seq(X)
  <2>1. run \in [0 .. N -> Seq(X)]
    BY <1>3, CarriedRunIs
  <2> HIDE DEF run
  <2>2. QED
    BY <1>3, <2>1
<1>5. none \in Seq(X)
  OBVIOUS
<1> HIDE DEF run, none
<1>6. \A i \in 1 .. BinCount : bins[i] \in Seq(X)
  BY DEF Binned
<1>7. new \in [1 .. BinCount -> Seq(X)]
  BY <1>4, <1>5, <1>6
<1> HIDE DEF new
<1>8. QED
  BY <1>2, <1>7 DEF Binned

RecBins(b, nodes, key) ==
  b = [k \in 0 .. Len(nodes) |-> IF k = 0 THEN Bins ELSE Carried(b[k - 1], nodes[k], key)]

(* The bins are what a recursive function yields. *)
LEMMA CollectedDef ==
  ASSUME NEW nodes, NEW key
  PROVE  Collected(nodes, key) = (CHOOSE b : RecBins(b, nodes, key))[Len(nodes)]
BY DEF Collected, RecBins

(* The bins after all nodes. *)
LEMMA CollectedFilled ==
  ASSUME NEW nodes, NEW key, NEW X, Sortable(nodes, key, X), NEW w, Doubles(w)
  PROVE  Filled(Collected(nodes, key), Len(nodes), nodes, key, w, X)
<1> DEFINE N == Len(nodes)
           B == {bins \in [1 .. BinCount -> Seq(X)] : TRUE}
           step == [k \in 1 .. N |-> [bins \in B |-> Carried(bins, nodes[k], key)]]
           start == Bins
           c == CHOOSE b : RecBins(b, nodes, key)
<1>1. N \in Nat /\ \A k \in 1 .. N : nodes[k] \in X
  BY PosFacts DEF Sortable
<1>2. \A bins : bins \in B <=> Binned(bins, X)
  BY DEF Binned
<1>3. start \in B
  BY <1>2, BinsFilled DEF Filled
<1> HIDE DEF B, start, N
<1>4. step \in [1 .. N -> [B -> B]]
  <2>1. \A k \in 1 .. N, bins \in B : Carried(bins, nodes[k], key) \in B
    BY <1>1, <1>2, CarriedBinned
  <2>2. QED
    BY <2>1
<1>5. PICK f \in [0 .. N -> B] : Recurs(f, N, start, step)
  <2> HIDE DEF step
  <2>1. QED
    BY <1>1, <1>3, <1>4, Recursion
<1>6. RecBins(f, nodes, key)
  <2> DEFINE g == [k \in 0 .. N |-> IF k = 0 THEN start ELSE Carried(f[k - 1], nodes[k], key)]
  <2>1. ASSUME NEW k \in 0 .. N PROVE f[k] = g[k]
    <3>1. CASE k = 0
      BY <1>5, <3>1 DEF Recurs
    <3>2. CASE k # 0
      <4>1. k \in 1 .. N /\ k - 1 \in 0 .. N
        BY <1>1, <3>2
      <4>2. f[k] = step[k][f[k - 1]] /\ f[k - 1] \in B
        BY <1>5, <3>2, <4>1 DEF Recurs
      <4>3. QED
        BY <3>2, <4>1, <4>2
    <3>3. QED
      BY <3>1, <3>2
  <2>2. f = g
    BY <2>1
  <2>3. QED
    BY <2>2 DEF RecBins, start, N
<1>7. RecBins(c, nodes, key)
  BY <1>6, Zenon
<1> HIDE DEF c
<1>8. c = [k \in 0 .. N |-> IF k = 0 THEN start ELSE Carried(c[k - 1], nodes[k], key)]
  BY <1>7 DEF RecBins, start, N
<1>9. c[0] = start /\ \A k \in 1 .. N : c[k] = Carried(c[k - 1], nodes[k], key)
  <2>1. 0 \in 0 .. N
    BY <1>1
  <2>2. ASSUME NEW k \in 1 .. N PROVE c[k] = Carried(c[k - 1], nodes[k], key)
    <3>1. k \in 0 .. N /\ k # 0
      BY <1>1
    <3>2. QED
      BY <1>8, <3>1
  <2>3. QED
    BY <1>8, <2>1, <2>2
<1>10. \A k \in 0 .. N : Filled(c[k], k, nodes, key, w, X)
  <2> DEFINE S == {k \in 0 .. N : Filled(c[k], k, nodes, key, w, X)}
  <2>1. 0 \in S
    BY <1>1, <1>9, BinsFilled DEF start
  <2>2. ASSUME NEW k \in 0 .. N - 1, k \in S PROVE k + 1 \in S
    <3> DEFINE bins == c[k]
    <3>1. k + 1 \in 1 .. N /\ (k + 1) - 1 = k /\ k + 1 \in 0 .. N
      BY <1>1
    <3>2. c[k + 1] = Carried(bins, nodes[k + 1], key)
      BY <1>9, <3>1
    <3>3. Filled(bins, k, nodes, key, w, X)
      BY <2>2
    <3>4. Filled(Carried(bins, nodes[k + 1], key), k + 1, nodes, key, w, X)
      <4> HIDE DEF bins
      <4>1. k \in 0 .. Len(nodes) - 1
        BY DEF N
      <4>2. QED
        BY <3>3, <4>1, CarriedFilled
    <3>5. QED
      BY <3>1, <3>2, <3>4
  <2>3. \A k \in 0 .. N : k \in S
    <3> HIDE DEF S
    <3>1. QED
      BY <1>1, <2>1, <2>2, Induction
  <2>4. QED
    BY <2>3
<1>11. Filled(c[N], N, nodes, key, w, X)
  BY <1>1, <1>10
<1>12. QED
  BY <1>11, CollectedDef DEF c, N

-----------------------------------------------------------------------------
(* The runs of all bins, merged. *)

\* The nodes of the first i bins, in the order R.
Gathers(r, i, bins, R, X) ==
  /\ r \in Seq(X) /\ InOrder(r, R)
  /\ \A x \in X : x \in ToSet(r) <=> \E j \in 1 .. i : Holds(bins, j, x)

(* Before the first bin no node is gathered. *)
LEMMA GathersNone ==
  ASSUME NEW bins, NEW R, NEW X
  PROVE  Gathers(<< >>, 0, bins, R, X)
<1> DEFINE none == << >>
<1>1. none \in Seq(X) /\ Len(none) = 0
  OBVIOUS
<1>2. ToSet(none) = {}
  BY DEF ToSet
<1> HIDE DEF none
<1>3. InOrder(none, R)
  BY <1>1 DEF InOrder
<1>4. QED
  BY <1>1, <1>2, <1>3 DEF Gathers, none

(* One bin more. *)
LEMMA GathersOn ==
  ASSUME NEW bins, NEW R, NEW X, NEW i \in 0 .. BinCount - 1, NEW key, NEW r, NEW b, NEW m,
         Gathers(r, i, bins, R, X), b = bins[i + 1], b \in Seq(X), InOrder(b, R), Transitive(R, X),
         \/ Decided(b, r, key, R) /\ m = Merge(b, r, key)
         \/ Decided(r, b, key, R) /\ m = Merge(r, b, key)
  PROVE  Gathers(m, i + 1, bins, R, X)
<1>1. r \in Seq(X) /\ InOrder(r, R)
  BY DEF Gathers
<1>2. m \in Seq(X) /\ ToSet(m) = ToSet(b) \cup ToSet(r)
  BY <1>1, MergeFacts
<1>3. InOrder(m, R)
  BY <1>1, MergeOrdered
<1>4. ASSUME NEW x \in X PROVE x \in ToSet(m) <=> \E j \in 1 .. i + 1 : Holds(bins, j, x)
  <2>1. x \in ToSet(r) <=> \E j \in 1 .. i : Holds(bins, j, x)
    BY DEF Gathers
  <2>2. x \in ToSet(b) <=> Holds(bins, i + 1, x)
    BY DEF Holds
  <2>3. (\E j \in 1 .. i + 1 : Holds(bins, j, x)) <=> (Holds(bins, i + 1, x) \/ \E j \in 1 .. i : Holds(bins, j, x))
    <3>1. \A j : j \in 1 .. i + 1 <=> (j = i + 1 \/ j \in 1 .. i)
      OBVIOUS
    <3>2. QED
      BY <3>1
  <2>4. QED
    BY <1>2, <2>1, <2>2, <2>3
<1>5. QED
  BY <1>2, <1>3, <1>4 DEF Gathers

\* With `late` the bin is merged first, as list_sort does.
MergedIn(b, r, key, late) == IF late THEN Merge(b, r, key) ELSE Merge(r, b, key)

RecResult(r, bins, key, late) ==
  r = [i \in 0 .. Len(bins) |-> IF i = 0 THEN << >> ELSE MergedIn(bins[i], r[i - 1], key, late)]

Result(bins, key, late) == (CHOOSE r : RecResult(r, bins, key, late))[Len(bins)]

(* Both sorts differ in which of two runs is merged first. *)
LEMMA SortedDef ==
  ASSUME NEW nodes, NEW key
  PROVE  /\ Sorted(nodes, key) = Result(Collected(nodes, key), key, TRUE)
         /\ ForwardSorted(nodes, key) = Result(Collected(nodes, key), key, FALSE)
<1>1. Sorted(nodes, key) = Result(Collected(nodes, key), key, TRUE)
  BY DEF Sorted, Result, RecResult, MergedIn
<1>2. ForwardSorted(nodes, key) = Result(Collected(nodes, key), key, FALSE)
  BY DEF ForwardSorted, Result, RecResult, MergedIn
<1>3. QED
  BY <1>1, <1>2

Results(r, bins, key, late, X) ==
  /\ r \in [0 .. BinCount -> Seq(X)]
  /\ r[0] = << >> /\ r[BinCount] = Result(bins, key, late)
  /\ \A i \in 1 .. BinCount : r[i] = MergedIn(bins[i], r[i - 1], key, late)

(* The result is merged bin by bin. *)
LEMMA ResultIs ==
  ASSUME NEW X, NEW bins, Binned(bins, X), NEW key, NEW late \in BOOLEAN
  PROVE  \E r : Results(r, bins, key, late, X)
<1> DEFINE N == BinCount
           none == << >>
           step == [i \in 1 .. N |-> [r \in Seq(X) |-> MergedIn(bins[i], r, key, late)]]
           c == CHOOSE r : RecResult(r, bins, key, late)
<1> USE BinCountFact
<1>1. N \in Nat /\ Len(bins) = N
  BY DEF Binned
<1>2. \A i \in 1 .. N : bins[i] \in Seq(X)
  BY DEF Binned
<1>3. none \in Seq(X)
  OBVIOUS
<1> HIDE DEF none
<1>4. \A i \in 1 .. N, r \in Seq(X) : MergedIn(bins[i], r, key, late) \in Seq(X)
  BY <1>2, MergeFacts DEF MergedIn
<1>5. step \in [1 .. N -> [Seq(X) -> Seq(X)]]
  BY <1>4
<1> HIDE DEF N
<1>6. PICK f \in [0 .. N -> Seq(X)] : Recurs(f, N, none, step)
  <2> HIDE DEF step
  <2>1. QED
    BY <1>1, <1>3, <1>5, Recursion
<1>7. RecResult(f, bins, key, late)
  <2> DEFINE g == [k \in 0 .. N |-> IF k = 0 THEN none ELSE MergedIn(bins[k], f[k - 1], key, late)]
  <2>1. ASSUME NEW k \in 0 .. N PROVE f[k] = g[k]
    <3>1. CASE k = 0
      BY <1>6, <3>1 DEF Recurs
    <3>2. CASE k # 0
      <4>1. k \in 1 .. N /\ k - 1 \in 0 .. N
        BY <1>1, <3>2
      <4>2. f[k] = step[k][f[k - 1]] /\ f[k - 1] \in Seq(X)
        BY <1>6, <3>2, <4>1 DEF Recurs
      <4>3. QED
        BY <3>2, <4>1, <4>2
    <3>3. QED
      BY <3>1, <3>2
  <2>2. f = g
    BY <2>1
  <2>3. QED
    BY <1>1, <2>2 DEF RecResult, none
<1>8. RecResult(c, bins, key, late)
  BY <1>7, Zenon
<1> HIDE DEF c
<1>9. c = [k \in 0 .. N |-> IF k = 0 THEN none ELSE MergedIn(bins[k], c[k - 1], key, late)]
  BY <1>1, <1>8 DEF RecResult, none
<1>10. c[0] = none /\ \A i \in 1 .. N : c[i] = MergedIn(bins[i], c[i - 1], key, late)
  <2>1. 0 \in 0 .. N
    BY <1>1
  <2>2. ASSUME NEW i \in 1 .. N PROVE c[i] = MergedIn(bins[i], c[i - 1], key, late)
    <3>1. i \in 0 .. N /\ i # 0
      BY <1>1
    <3>2. QED
      BY <1>9, <3>1
  <2>3. QED
    BY <1>9, <2>1, <2>2
<1>11. \A i \in 0 .. N : c[i] \in Seq(X)
  <2> DEFINE S == {i \in 0 .. N : c[i] \in Seq(X)}
  <2>1. 0 \in S
    BY <1>1, <1>3, <1>10
  <2>2. ASSUME NEW i \in 0 .. N - 1, i \in S PROVE i + 1 \in S
    <3>1. i + 1 \in 1 .. N /\ (i + 1) - 1 = i /\ i + 1 \in 0 .. N
      BY <1>1
    <3>2. c[i + 1] = MergedIn(bins[i + 1], c[i], key, late)
      BY <1>10, <3>1
    <3>3. c[i + 1] \in Seq(X)
      BY <1>4, <2>2, <3>1, <3>2
    <3>4. QED
      BY <3>1, <3>3
  <2>3. \A i \in 0 .. N : i \in S
    <3> HIDE DEF S
    <3>1. QED
      BY <1>1, <2>1, <2>2, Induction
  <2>4. QED
    BY <2>3
<1>12. c \in [0 .. N -> Seq(X)]
  BY <1>9, <1>11
<1>13. c[N] = Result(bins, key, late)
  BY <1>1 DEF Result, c
<1>14. QED
  BY <1>10, <1>12, <1>13 DEF N, none, Results

\* Of the nodes gathered and those of the next bin, R agrees with the merge.
Agrees(bins, key, R, late, X) ==
  \A i \in 0 .. BinCount - 1, r \in Seq(X) :
    Gathers(r, i, bins, R, X) =>
      IF late THEN Decided(bins[i + 1], r, key, R) ELSE Decided(r, bins[i + 1], key, R)

(* The result gathers all bins, in any order that agrees with the merges. *)
LEMMA ResultGathers ==
  ASSUME NEW X, NEW bins, Binned(bins, X), NEW key, NEW late \in BOOLEAN,
         NEW R, Transitive(R, X), \A i \in 1 .. BinCount : InOrder(bins[i], R),
         Agrees(bins, key, R, late, X)
  PROVE  Gathers(Result(bins, key, late), BinCount, bins, R, X)
<1> USE BinCountFact
<1>1. PICK c : Results(c, bins, key, late, X)
  BY ResultIs, Zenon
<1> DEFINE S == {i \in 0 .. BinCount : Gathers(c[i], i, bins, R, X)}
<1>2. 0 \in S
  <2>1. Gathers(<< >>, 0, bins, R, X)
    BY GathersNone
  <2>2. 0 \in 0 .. BinCount
    OBVIOUS
  <2>3. QED
    BY <1>1, <2>1, <2>2, Zenon DEF Results
<1>3. \A i \in 1 .. BinCount : c[i] = MergedIn(bins[i], c[i - 1], key, late)
  BY <1>1 DEF Results
<1>4. ASSUME NEW i \in 0 .. BinCount - 1, i \in S PROVE i + 1 \in S
  <2> DEFINE r == c[i]
             b == bins[i + 1]
             m == c[i + 1]
  <2>1. i + 1 \in 1 .. BinCount /\ (i + 1) - 1 = i /\ i + 1 \in 0 .. BinCount
    OBVIOUS
  <2>2. m = MergedIn(b, r, key, late)
    BY <1>3, <2>1
  <2>3. Gathers(r, i, bins, R, X) /\ r \in Seq(X)
    BY <1>1, <1>4 DEF Results
  <2>4. b = bins[i + 1] /\ b \in Seq(X) /\ InOrder(b, R)
    BY <2>1 DEF Binned
  <2>5. IF late THEN Decided(b, r, key, R) ELSE Decided(r, b, key, R)
    <3> HIDE DEF r
    <3>1. QED
      BY <2>3 DEF Agrees
  <2> HIDE DEF b, r, m
  <2>6. Gathers(m, i + 1, bins, R, X)
    BY <2>2, <2>3, <2>4, <2>5, GathersOn DEF MergedIn
  <2>7. QED
    BY <2>1, <2>6 DEF m
<1>5. \A i \in 0 .. BinCount : i \in S
  <2> HIDE DEF S
  <2>1. QED
    BY <1>2, <1>4, Induction
<1>6. BinCount \in S
  BY <1>5
<1>7. QED
  BY <1>1, <1>6 DEF Results

\* s has the nodes, each once.
Arranges(s, nodes, X) ==
  s \in Seq(X) /\ Distinct(s) /\ ToSet(s) = X /\ Len(s) = Len(nodes)

(* A sequence of different nodes is no longer than one with all of them. *)
LEMMA SameLength ==
  ASSUME NEW X, NEW s \in Seq(X), NEW t \in Seq(X), Distinct(s), Distinct(t), ToSet(s) \subseteq ToSet(t)
  PROVE  Len(s) <= Len(t)
<1> DEFINE f == [i \in 1 .. Len(s) |-> CHOOSE j \in 1 .. Len(t) : t[j] = s[i]]
<1>1. \A i \in 1 .. Len(s) : f[i] \in 1 .. Len(t) /\ t[f[i]] = s[i]
  <2> SUFFICES ASSUME NEW i \in 1 .. Len(s) PROVE f[i] \in 1 .. Len(t) /\ t[f[i]] = s[i]
    OBVIOUS
  <2>1. \E j \in 1 .. Len(t) : t[j] = s[i]
    <3>1. s[i] \in ToSet(t)
      BY InSet
    <3>2. QED
      BY <3>1, InSet
  <2>2. f[i] = CHOOSE j \in 1 .. Len(t) : t[j] = s[i]
    OBVIOUS
  <2> HIDE DEF f
  <2>3. QED
    BY <2>1, <2>2
<1>2. f \in [1 .. Len(s) -> 1 .. Len(t)]
  BY <1>1
<1> HIDE DEF f
<1>3. \A i, j \in 1 .. Len(s) : f[i] = f[j] => i = j
  BY <1>1 DEF Distinct
<1>4. f \in Injection(1 .. Len(s), 1 .. Len(t))
  BY <1>2, <1>3 DEF Injection, IsInjective
<1>5. \A n \in Nat : IsFiniteSet(1 .. n) /\ Cardinality(1 .. n) = n
  <2> SUFFICES ASSUME NEW n \in Nat PROVE IsFiniteSet(1 .. n) /\ Cardinality(1 .. n) = n
    OBVIOUS
  <2>1. 1 \in Int /\ n \in Int
    OBVIOUS
  <2>2. IsFiniteSet(1 .. n) /\ Cardinality(1 .. n) = IF 1 > n THEN 0 ELSE n - 1 + 1
    BY <2>1, FS_Interval
  <2>3. QED
    BY <2>2
<1>6. QED
  BY <1>4, <1>5, FS_Injection

(* What the bins hold are the nodes, each once. *)
LEMMA GatheredArranges ==
  ASSUME NEW nodes, NEW key, NEW X, Sortable(nodes, key, X), NEW w,
         NEW bins, Filled(bins, Len(nodes), nodes, key, w, X), NEW R, NEW s,
         Gathers(s, BinCount, bins, R, X), \A x \in X : << x, x >> \notin R
  PROVE  Arranges(s, nodes, X)
<1>1. s \in Seq(X) /\ InOrder(s, R)
  BY DEF Gathers
<1>2. ToSet(s) = X
  <2>1. \A x \in X : x \in ToSet(s)
    <3> SUFFICES ASSUME NEW x \in X PROVE x \in ToSet(s)
      OBVIOUS
    <3>1. Pos(nodes)[x] <= Len(nodes)
      BY PosFacts
    <3>2. \E i \in 1 .. BinCount : Holds(bins, i, x)
      BY <3>1 DEF Filled
    <3>3. QED
      BY <3>2 DEF Gathers
  <2>2. QED
    BY <1>1, <2>1, InSet
<1>3. Distinct(s)
  <2> SUFFICES ASSUME NEW i \in 1 .. Len(s), NEW j \in 1 .. Len(s), s[i] = s[j], i # j PROVE FALSE
    BY DEF Distinct
  <2>1. s[i] \in X /\ (i < j \/ j < i)
    BY <1>1
  <2>2. << s[i], s[i] >> \in R
    BY <1>1, <2>1 DEF InOrder
  <2>3. QED
    BY <2>1, <2>2
<1>4. nodes \in Seq(X) /\ Distinct(nodes) /\ ToSet(nodes) = X
  BY DEF Sortable
<1>5. Len(s) <= Len(nodes) /\ Len(nodes) <= Len(s)
  BY <1>1, <1>2, <1>3, <1>4, SameLength
<1>6. Len(s) = Len(nodes)
  <2>1. Len(s) \in Nat /\ Len(nodes) \in Nat
    BY <1>1, <1>4
  <2>2. QED
    BY <1>5, <2>1
<1>7. QED
  BY <1>1, <1>2, <1>3, <1>6 DEF Arranges

(* list_sort, of fewer than 2^32 nodes, for which its bins are enough: the nodes
   by their keys, equal ones as they were. *)
THEOREM MergeSortStable ==
  ASSUME NEW nodes, NEW key, NEW X, Sortable(nodes, key, X)
  PROVE  /\ Arranges(Sorted(nodes, key), nodes, X)
         /\ \A i, j \in 1 .. Len(nodes) : i < j => Earlier(Sorted(nodes, key)[i], Sorted(nodes, key)[j], nodes, key)
<1> DEFINE R == Stably(nodes, key)
           bins == Collected(nodes, key)
           s == Sorted(nodes, key)
<1> USE BinCountFact
<1>1. PICK w : Doubles(w)
  BY Doubling
<1>2. Filled(bins, Len(nodes), nodes, key, w, X)
  BY <1>1, CollectedFilled
<1>3. s = Result(bins, key, TRUE)
  BY SortedDef
<1> HIDE DEF bins, s
<1>4. Binned(bins, X) /\ \A i \in 1 .. BinCount : InOrder(bins[i], R)
  BY <1>2 DEF Filled
<1>5. Transitive(R, X) /\ \A x \in X : << x, x >> \notin R
  BY StablyFacts
<1>6. Agrees(bins, key, R, TRUE, X)
  <2> SUFFICES ASSUME NEW i \in 0 .. BinCount - 1, NEW r \in Seq(X), Gathers(r, i, bins, R, X)
               PROVE  Decided(bins[i + 1], r, key, R)
    BY DEF Agrees
  <2>1. i + 1 \in 1 .. BinCount /\ bins[i + 1] \in Seq(X)
    BY <1>4 DEF Binned
  <2>2. ASSUME NEW x \in ToSet(bins[i + 1]), NEW y \in ToSet(r) PROVE Pos(nodes)[x] < Pos(nodes)[y]
    <3>1. x \in X /\ y \in X /\ Holds(bins, i + 1, x)
      BY <2>1, InSet DEF Holds
    <3>2. PICK j \in 1 .. i : Holds(bins, j, y)
      BY <3>1 DEF Gathers
    <3>3. j \in 1 .. BinCount /\ j < i + 1
      OBVIOUS
    <3>4. QED
      BY <1>2, <2>1, <3>1, <3>2, <3>3 DEF Filled
  <2>3. QED
    <3> DEFINE b == bins[i + 1]
    <3>1. b \in Seq(X) /\ \A x \in ToSet(b), y \in ToSet(r) : Pos(nodes)[x] < Pos(nodes)[y]
      BY <2>1, <2>2
    <3> HIDE DEF b
    <3>2. Decided(b, r, key, Stably(nodes, key))
      BY <3>1, DecidedByPlace
    <3>3. QED
      BY <3>2 DEF b
<1>7. Gathers(s, BinCount, bins, R, X)
  <2> HIDE DEF R
  <2>1. QED
    BY <1>3, <1>4, <1>5, <1>6, ResultGathers
<1>8. Arranges(s, nodes, X)
  <2> HIDE DEF R
  <2>1. QED
    BY <1>2, <1>5, <1>7, GatheredArranges
<1>9. \A i, j \in 1 .. Len(nodes) : i < j => Earlier(s[i], s[j], nodes, key)
  <2> SUFFICES ASSUME NEW i \in 1 .. Len(nodes), NEW j \in 1 .. Len(nodes), i < j
               PROVE  Earlier(s[i], s[j], nodes, key)
    OBVIOUS
  <2>1. << s[i], s[j] >> \in R /\ s[i] \in X /\ s[j] \in X
    BY <1>7, <1>8 DEF Gathers, InOrder, Arranges
  <2>2. QED
    BY <2>1, StablyFacts
<1>10. QED
  BY <1>8, <1>9 DEF s

\* The bin of a node, and the order by key, bin and place in the list.
BinOf(bins, x) == CHOOSE i \in 1 .. BinCount : Holds(bins, i, x)

BinEarlier(x, y, bins, nodes, key) ==
  \/ key[x] < key[y]
  \/ key[x] = key[y] /\ \/ BinOf(bins, x) < BinOf(bins, y)
                        \/ BinOf(bins, x) = BinOf(bins, y) /\ Pos(nodes)[x] < Pos(nodes)[y]

Binwise(bins, nodes, key, X) == {p \in X \X X : BinEarlier(p[1], p[2], bins, nodes, key)}

(* The order by key, bin and place is a strict one. *)
LEMMA BinwiseFacts ==
  ASSUME NEW nodes, NEW key, NEW X, Sortable(nodes, key, X), NEW w,
         NEW bins, Filled(bins, Len(nodes), nodes, key, w, X)
  PROVE  /\ \A x \in X, i \in 1 .. BinCount : Holds(bins, i, x) => i = BinOf(bins, x)
         /\ \A x, y \in X : << x, y >> \in Binwise(bins, nodes, key, X) <=> BinEarlier(x, y, bins, nodes, key)
         /\ Transitive(Binwise(bins, nodes, key, X), X)
         /\ \A x \in X : << x, x >> \notin Binwise(bins, nodes, key, X)
<1> USE BinCountFact
<1>1. \A x \in X : key[x] \in Int /\ Pos(nodes)[x] \in Int /\ Pos(nodes)[x] <= Len(nodes)
  BY PosFacts DEF Sortable
<1>2. ASSUME NEW x \in X PROVE BinOf(bins, x) \in 1 .. BinCount /\ Holds(bins, BinOf(bins, x), x)
  <2>1. \E i \in 1 .. BinCount : Holds(bins, i, x)
    BY <1>1 DEF Filled
  <2>2. QED
    BY <2>1 DEF BinOf
<1>3. \A x \in X, i \in 1 .. BinCount : Holds(bins, i, x) => i = BinOf(bins, x)
  <2> SUFFICES ASSUME NEW x \in X, NEW i \in 1 .. BinCount, Holds(bins, i, x), i # BinOf(bins, x) PROVE FALSE
    OBVIOUS
  <2> DEFINE j == BinOf(bins, x)
  <2>1. j \in 1 .. BinCount /\ Holds(bins, j, x)
    BY <1>2
  <2>2. i < j \/ j < i
    BY <2>1
  <2> HIDE DEF j
  <2>3. Pos(nodes)[x] < Pos(nodes)[x]
    BY <2>1, <2>2 DEF Filled
  <2>4. QED
    BY <1>1, <2>3
<1>4. \A x, y \in X : << x, y >> \in Binwise(bins, nodes, key, X) <=> BinEarlier(x, y, bins, nodes, key)
  BY DEF Binwise
<1>5. \A x \in X : BinOf(bins, x) \in Int
  BY <1>2
<1>6. \A x, y, z \in X : BinEarlier(x, y, bins, nodes, key) /\ BinEarlier(y, z, bins, nodes, key)
                           => BinEarlier(x, z, bins, nodes, key)
  BY <1>1, <1>5 DEF BinEarlier
<1>7. \A x \in X : ~ BinEarlier(x, x, bins, nodes, key)
  BY <1>1, <1>5 DEF BinEarlier
<1>8. Transitive(Binwise(bins, nodes, key, X), X)
  BY <1>4, <1>6 DEF Transitive
<1>9. QED
  BY <1>3, <1>4, <1>7, <1>8

(* forward_list_sort, of fewer than 2^32 nodes: the nodes by their keys. *)
THEOREM MergeSortSorts ==
  ASSUME NEW nodes, NEW key, NEW X, Sortable(nodes, key, X)
  PROVE  /\ Arranges(ForwardSorted(nodes, key), nodes, X)
         /\ \A i, j \in 1 .. Len(nodes) :
              i < j => key[ForwardSorted(nodes, key)[i]] <= key[ForwardSorted(nodes, key)[j]]
<1> DEFINE bins == Collected(nodes, key)
           R == Binwise(bins, nodes, key, X)
           s == ForwardSorted(nodes, key)
<1> USE BinCountFact
<1>1. PICK w : Doubles(w)
  BY Doubling
<1>2. Filled(bins, Len(nodes), nodes, key, w, X)
  BY <1>1, CollectedFilled
<1>3. s = Result(bins, key, FALSE)
  BY SortedDef
<1> HIDE DEF bins, s
<1>4. Binned(bins, X)
  BY <1>2 DEF Filled
<1>5. /\ \A x \in X, i \in 1 .. BinCount : Holds(bins, i, x) => i = BinOf(bins, x)
      /\ \A x, y \in X : << x, y >> \in R <=> BinEarlier(x, y, bins, nodes, key)
      /\ Transitive(R, X)
      /\ \A x \in X : << x, x >> \notin R
  BY <1>2, BinwiseFacts
<1> HIDE DEF R
<1>6. \A x \in X : key[x] \in Int
  BY DEF Sortable
<1>7. ASSUME NEW l \in 1 .. BinCount PROVE InOrder(bins[l], R)
  <2> DEFINE b == bins[l]
  <2>1. b \in Seq(X) /\ InOrder(b, Stably(nodes, key))
    BY <1>2 DEF Filled, Binned
  <2>2. \A x : x \in ToSet(b) => Holds(bins, l, x)
    BY DEF Holds
  <2> HIDE DEF b
  <2>3. ASSUME NEW i \in 1 .. Len(b), NEW j \in 1 .. Len(b), i < j PROVE << b[i], b[j] >> \in R
    <3>1. b[i] \in X /\ b[j] \in X /\ b[i] \in ToSet(b) /\ b[j] \in ToSet(b)
      BY <2>1, InSet
    <3>2. BinOf(bins, b[i]) = l /\ BinOf(bins, b[j]) = l
      BY <1>5, <2>2, <3>1
    <3>3. << b[i], b[j] >> \in Stably(nodes, key)
      BY <2>1, <2>3 DEF InOrder
    <3>4. Earlier(b[i], b[j], nodes, key)
      BY <3>1, <3>3, StablyFacts
    <3>5. BinEarlier(b[i], b[j], bins, nodes, key)
      BY <3>2, <3>4 DEF Earlier, BinEarlier
    <3>6. QED
      BY <1>5, <3>1, <3>5
  <2>4. InOrder(b, R)
    BY <2>3 DEF InOrder
  <2>5. QED
    BY <2>4 DEF b
<1>8. Agrees(bins, key, R, FALSE, X)
  <2> SUFFICES ASSUME NEW i \in 0 .. BinCount - 1, NEW r \in Seq(X), Gathers(r, i, bins, R, X)
               PROVE  Decided(r, bins[i + 1], key, R)
    BY DEF Agrees
  <2> DEFINE b == bins[i + 1]
  <2>1. i + 1 \in 1 .. BinCount /\ b \in Seq(X)
    BY <1>4 DEF Binned
  <2>2. \A y : y \in ToSet(b) => Holds(bins, i + 1, y)
    BY DEF Holds
  <2> HIDE DEF b
  <2>3. ASSUME NEW p \in 1 .. Len(r), NEW q \in 1 .. Len(b)
        PROVE  IF key[r[p]] <= key[b[q]] THEN << r[p], b[q] >> \in R ELSE << b[q], r[p] >> \in R
    <3>1. r[p] \in X /\ b[q] \in X /\ r[p] \in ToSet(r) /\ b[q] \in ToSet(b)
      BY <2>1, InSet
    <3>2. BinOf(bins, b[q]) = i + 1
      BY <1>5, <2>1, <2>2, <3>1
    <3>3. PICK j \in 1 .. i : Holds(bins, j, r[p])
      BY <3>1 DEF Gathers
    <3>4. j \in 1 .. BinCount /\ j < i + 1
      OBVIOUS
    <3>5. BinOf(bins, r[p]) = j
      BY <1>5, <3>1, <3>3, <3>4
    <3>6. BinOf(bins, r[p]) < BinOf(bins, b[q])
      BY <3>2, <3>4, <3>5
    <3>7. key[r[p]] \in Int /\ key[b[q]] \in Int
      BY <1>6, <3>1
    <3>8. IF key[r[p]] <= key[b[q]] THEN BinEarlier(r[p], b[q], bins, nodes, key)
          ELSE BinEarlier(b[q], r[p], bins, nodes, key)
      BY <3>6, <3>7 DEF BinEarlier
    <3>9. QED
      BY <1>5, <3>1, <3>8
  <2>4. Decided(r, b, key, R)
    BY <2>3 DEF Decided
  <2>5. QED
    BY <2>4 DEF b
<1>9. Gathers(s, BinCount, bins, R, X)
  BY <1>3, <1>4, <1>5, <1>7, <1>8, ResultGathers
<1>10. Arranges(s, nodes, X)
  BY <1>2, <1>5, <1>9, GatheredArranges
<1>11. \A i, j \in 1 .. Len(nodes) : i < j => key[s[i]] <= key[s[j]]
  <2> SUFFICES ASSUME NEW i \in 1 .. Len(nodes), NEW j \in 1 .. Len(nodes), i < j
               PROVE  key[s[i]] <= key[s[j]]
    OBVIOUS
  <2>1. << s[i], s[j] >> \in R /\ s[i] \in X /\ s[j] \in X
    BY <1>9, <1>10 DEF Gathers, InOrder, Arranges
  <2>2. BinEarlier(s[i], s[j], bins, nodes, key)
    BY <1>5, <2>1
  <2>3. key[s[i]] \in Int /\ key[s[j]] \in Int
    BY <1>6, <2>1
  <2>4. QED
    BY <2>2, <2>3 DEF BinEarlier
<1>12. QED
  BY <1>10, <1>11 DEF s

(* The sort of the lists. *)
LEMMA SameBins ==
  ASSUME NEW a, NEW b, NEW key
  PROVE  L!Merge(a, b, key) = Merge(a, b, key) /\ F!Merge(a, b, key) = Merge(a, b, key)
         /\ L!Bins = Bins /\ F!Bins = Bins
BY DEF Merge, L!Merge, F!Merge, Bins, L!Bins, F!Bins

(* Their sorts are those proved about above. *)
LEMMA SameSorts ==
  ASSUME NEW s, NEW key
  PROVE  L!Sorted(s, key) = Sorted(s, key) /\ F!ForwardSorted(s, key) = ForwardSorted(s, key)
<1>1. L!Sorted(s, key) = Sorted(s, key)
  BY Zenon DEF L!Sorted, L!Collected, L!Carried, L!Merge, L!Bins, L!Min, Sorted, Collected, Carried, Merge, Bins, Min
<1>2. F!ForwardSorted(s, key) = ForwardSorted(s, key)
  BY Zenon DEF F!ForwardSorted, F!Collected, F!Carried, F!Merge, F!Bins, F!Min, ForwardSorted, Collected, Carried, Merge, Bins, Min
<1>3. QED
  BY <1>1, <1>2

(* So is the set of the nodes of a sequence. *)
LEMMA SameToSet == \A s : L!ToSet(s) = ToSet(s) /\ F!ToSet(s) = ToSet(s)
BY DEF L!ToSet, F!ToSet, ToSet

-----------------------------------------------------------------------------
\* The lists: s has the nodes of a list, from the front on.

After(i, n) == IF i = n THEN 1 ELSE i + 1

Linkage(h, s, i) ==
  s[i] \in DOMAIN h /\ h[s[i]].next = s[After(i, Len(s))] /\ h[s[After(i, Len(s))]].prev = s[i]

Front1(s) == IF Len(s) = 0 THEN Null ELSE s[1]

Ringed(h, q, s) ==
  /\ s \in Seq(Nodes) /\ Len(s) = q.size /\ Distinct(s) /\ q.front = Front1(s)
  /\ \A i \in 1 .. Len(s) : Linkage(h, s, i)

RecAhead(at, h, n, steps) == at = [i \in 0 .. steps |-> IF i = 0 THEN n ELSE h[at[i - 1]].next]

(* The walk along the next pointers is a recursive function. *)
LEMMA AheadDef ==
  ASSUME NEW h, NEW n, NEW steps
  PROVE  L!Ahead(h, n, steps) = (CHOOSE at : RecAhead(at, h, n, steps))[steps]
BY DEF L!Ahead, RecAhead

(* It visits the nodes in their order. *)
LEMMA AheadIs ==
  ASSUME NEW h, NEW q, NEW s, Ringed(h, q, s), NEW steps \in 0 .. Len(s) - 1
  PROVE  L!Ahead(h, q.front, steps) = s[steps + 1]
<1> DEFINE n == q.front
           v == [i \in 0 .. steps |-> s[i + 1]]
           c == CHOOSE at : RecAhead(at, h, n, steps)
<1>1. Len(s) \in Nat /\ steps \in Nat /\ 0 \in 0 .. steps
  BY DEF Ringed
<1>2. n = s[1]
  BY <1>1 DEF Ringed, Front1
<1>3. ASSUME NEW i \in 1 .. steps PROVE h[s[i]].next = s[i + 1]
  <2>1. i \in 1 .. Len(s) /\ i # Len(s)
    BY <1>1
  <2>2. QED
    BY <2>1 DEF Ringed, Linkage, After
<1> HIDE DEF n
<1>4. RecAhead(v, h, n, steps)
  <2> DEFINE g == [i \in 0 .. steps |-> IF i = 0 THEN n ELSE h[v[i - 1]].next]
  <2>1. ASSUME NEW i \in 0 .. steps PROVE v[i] = g[i]
    <3>1. CASE i = 0
      BY <1>2, <3>1
    <3>2. CASE i # 0
      <4>1. i \in 1 .. steps /\ i - 1 \in 0 .. steps /\ (i - 1) + 1 = i
        BY <1>1, <3>2
      <4>2. v[i - 1] = s[i] /\ v[i] = s[i + 1]
        BY <4>1
      <4>3. g[i] = h[v[i - 1]].next
        BY <3>2
      <4>4. QED
        BY <1>3, <4>1, <4>2, <4>3
    <3>3. QED
      BY <3>1, <3>2
  <2>2. v = g
    <3>1. v = [i \in 0 .. steps |-> v[i]] /\ g = [i \in 0 .. steps |-> g[i]]
      OBVIOUS
    <3> HIDE DEF v, g
    <3>2. QED
      BY <2>1, <3>1
  <2>3. QED
    BY <2>2 DEF RecAhead
<1>5. RecAhead(c, h, n, steps)
  <2> HIDE DEF v
  <2>1. QED
    BY <1>4, Zenon
<1> HIDE DEF c
<1>6. c = [i \in 0 .. steps |-> IF i = 0 THEN n ELSE h[c[i - 1]].next]
  BY <1>5 DEF RecAhead
<1>7. \A i \in 0 .. steps : c[i] = s[i + 1]
  <2> DEFINE S == {i \in 0 .. steps : c[i] = s[i + 1]}
  <2>1. 0 \in S
    BY <1>1, <1>2, <1>6
  <2>2. ASSUME NEW i \in 0 .. steps - 1, i \in S PROVE i + 1 \in S
    <3>1. i + 1 \in 1 .. steps /\ (i + 1) - 1 = i /\ i + 1 \in 0 .. steps /\ i + 1 # 0
      BY <1>1
    <3>2. c[i + 1] = h[c[i]].next
      BY <1>6, <3>1
    <3>3. c[i] = s[i + 1]
      BY <2>2
    <3>4. h[s[i + 1]].next = s[(i + 1) + 1]
      BY <1>3, <3>1
    <3>5. QED
      BY <3>1, <3>2, <3>3, <3>4
  <2>3. \A i \in 0 .. steps : i \in S
    <3> HIDE DEF S
    <3>1. QED
      BY <1>1, <2>1, <2>2, Induction
  <2>4. QED
    BY <2>3
<1>8. c[steps] = s[steps + 1]
  BY <1>1, <1>7
<1>9. QED
  BY <1>8, AheadDef DEF c, n

(* The nodes from front on are those of s. *)
LEMMA RingIs ==
  ASSUME NEW h, NEW q, NEW s, Ringed(h, q, s)
  PROVE  L!Ring(h, q) = s
<1>1. s \in Seq(Nodes) /\ q.size = Len(s) /\ Len(s) \in Nat
  BY DEF Ringed
<1> DEFINE g == [i \in 1 .. Len(s) |-> L!Ahead(h, q.front, i - 1)]
<1>2. L!Ring(h, q) = g
  BY <1>1 DEF L!Ring
<1>3. ASSUME NEW i \in 1 .. Len(s) PROVE g[i] = s[i]
  <2>1. i - 1 \in 0 .. Len(s) - 1 /\ (i - 1) + 1 = i
    BY <1>1
  <2>2. L!Ahead(h, q.front, i - 1) = s[(i - 1) + 1]
    BY <2>1, AheadIs
  <2>3. QED
    BY <2>1, <2>2
<1>4. g = [i \in 1 .. Len(s) |-> g[i]] /\ s = [i \in 1 .. Len(s) |-> s[i]]
  BY <1>1
<1> HIDE DEF g
<1>5. g = s
  BY <1>3, <1>4
<1>6. QED
  BY <1>2, <1>5

NodeType == [next : Nodes, prev : Nodes, data : ListElems]
ListType == [live : BOOLEAN, front : Nodes \cup {Null}, size : Nat]

Typed(ls, h) ==
  /\ ls \in [Lists -> ListType] /\ DOMAIN h \subseteq Nodes /\ h \in [DOMAIN h -> NodeType]
  /\ \A l \in Lists : ls[l].live \/ ls[l].size = 0

Rings(ls, h, r) ==
  /\ r \in [Lists -> Seq(Nodes)]
  /\ \A l \in Lists : Ringed(h, ls[l], r[l])
  /\ \A n : n \in DOMAIN h <=> \E l \in Lists : n \in ToSet(r[l])
  /\ \A l, m \in Lists : \A n : n \in ToSet(r[l]) /\ n \in ToSet(r[m]) => l = m

\* What the structures and the heap are always like.
RingInv(ls, h) == Typed(ls, h) /\ \E r : Rings(ls, h, r)

\* The elements of all lists.
Contents(ls, h) == [l \in Lists |-> L!Data(h, L!Ring(h, ls[l]))]

(* The elements of all lists, by their nodes. *)
LEMMA ContentsIs ==
  ASSUME NEW ls, NEW h, NEW r, Rings(ls, h, r)
  PROVE  Contents(ls, h) = [l \in Lists |-> L!Data(h, r[l])]
<1>1. \A l \in Lists : L!Ring(h, ls[l]) = r[l]
  BY RingIs DEF Rings
<1>2. QED
  BY <1>1 DEF Contents

(* A list depends on its own nodes only. *)
LEMMA RingedElsewhere ==
  ASSUME NEW h, NEW q, NEW s, Ringed(h, q, s), NEW g,
         \A n \in ToSet(s) : n \in DOMAIN g /\ g[n] = h[n]
  PROVE  Ringed(g, q, s) /\ L!Data(g, s) = L!Data(h, s)
<1>1. s \in Seq(Nodes)
  BY DEF Ringed
<1>2. \A i \in 1 .. Len(s) : s[i] \in DOMAIN g /\ g[s[i]] = h[s[i]]
  BY <1>1, InSet
<1>3. \A i \in 1 .. Len(s) : After(i, Len(s)) \in 1 .. Len(s)
  BY <1>1 DEF After
<1>4. \A i \in 1 .. Len(s) : Linkage(g, s, i)
  BY <1>2, <1>3 DEF Ringed, Linkage
<1>5. DOMAIN s = 1 .. Len(s)
  BY <1>1
<1>6. L!Data(g, s) = L!Data(h, s)
  BY <1>2, <1>5 DEF L!Data
<1>7. QED
  BY <1>4, <1>6 DEF Ringed

(* An operation on the list l: its nodes become those of s. *)
LEMMA RingFrame ==
  ASSUME NEW ls, NEW h, Typed(ls, h), NEW r, Rings(ls, h, r), NEW l \in Lists,
         NEW q \in ListType, q.live \/ q.size = 0,
         NEW g, DOMAIN g \subseteq Nodes, g \in [DOMAIN g -> NodeType],
         NEW s \in Seq(Nodes), Ringed(g, q, s),
         \A n : n \in DOMAIN g <=> (n \in DOMAIN h /\ n \notin ToSet(r[l])) \/ n \in ToSet(s),
         \A n \in ToSet(s) : n \in ToSet(r[l]) \/ n \notin DOMAIN h,
         \A n \in DOMAIN h : n \notin ToSet(r[l]) => g[n] = h[n]
  PROVE  /\ RingInv([ls EXCEPT ![l] = q], g)
         /\ Contents([ls EXCEPT ![l] = q], g) = [Contents(ls, h) EXCEPT ![l] = L!Data(g, s)]
<1> DEFINE ms == [ls EXCEPT ![l] = q]
           t == [r EXCEPT ![l] = s]
<1>1. ms \in [Lists -> ListType] /\ ms[l] = q /\ \A m \in Lists : m # l => ms[m] = ls[m]
  BY DEF Typed
<1>2. t \in [Lists -> Seq(Nodes)] /\ t[l] = s /\ \A m \in Lists : m # l => t[m] = r[m]
  BY DEF Rings
<1> HIDE DEF ms, t
<1>3. ASSUME NEW m \in Lists, m # l PROVE \A n \in ToSet(r[m]) : n \in DOMAIN h /\ n \notin ToSet(r[l])
  BY <1>3 DEF Rings
<1>4. ASSUME NEW m \in Lists, m # l PROVE Ringed(g, ms[m], t[m]) /\ L!Data(g, t[m]) = L!Data(h, r[m])
  <2>1. \A n \in ToSet(r[m]) : n \in DOMAIN g /\ g[n] = h[n]
    BY <1>3, <1>4
  <2>2. Ringed(h, ls[m], r[m])
    BY DEF Rings
  <2> DEFINE u == r[m]
             p == ls[m]
  <2> HIDE DEF u, p
  <2>3. Ringed(g, p, u) /\ L!Data(g, u) = L!Data(h, u)
    BY <2>1, <2>2, RingedElsewhere DEF u, p
  <2>4. QED
    BY <1>1, <1>2, <1>4, <2>3 DEF u, p
<1>5. \A m \in Lists : Ringed(g, ms[m], t[m])
  BY <1>1, <1>2, <1>4
<1>6. ASSUME NEW n PROVE n \in DOMAIN g <=> \E m \in Lists : n \in ToSet(t[m])
  <2>1. n \in DOMAIN h <=> \E m \in Lists : n \in ToSet(r[m])
    BY DEF Rings
  <2>2. (n \in DOMAIN h /\ n \notin ToSet(r[l])) <=> \E m \in Lists : m # l /\ n \in ToSet(r[m])
    BY <1>3, <2>1
  <2>3. QED
    BY <1>2, <2>2
<1>7. ASSUME NEW m \in Lists, NEW k \in Lists, NEW n, n \in ToSet(t[m]), n \in ToSet(t[k]) PROVE m = k
  <2>1. \A j \in Lists : j # l => ~ (n \in ToSet(s) /\ n \in ToSet(r[j]))
    BY <1>3
  <2>2. CASE m = l
    BY <1>2, <1>7, <2>1, <2>2
  <2>3. CASE k = l
    BY <1>2, <1>7, <2>1, <2>3
  <2>4. CASE m # l /\ k # l
    BY <1>2, <1>7, <2>4 DEF Rings
  <2>5. QED
    BY <2>2, <2>3, <2>4
<1>8. Rings(ms, g, t)
  BY <1>2, <1>5, <1>6, <1>7 DEF Rings
<1>9. Typed(ms, g)
  <2>1. \A m \in Lists : ms[m].live \/ ms[m].size = 0
    BY <1>1 DEF Typed
  <2>2. QED
    BY <1>1, <2>1 DEF Typed
<1>10. Contents(ms, g) = [Contents(ls, h) EXCEPT ![l] = L!Data(g, s)]
  <2>1. Contents(ms, g) = [m \in Lists |-> L!Data(g, t[m])]
    BY <1>8, ContentsIs
  <2>2. Contents(ls, h) = [m \in Lists |-> L!Data(h, r[m])]
    BY ContentsIs
  <2>3. QED
    BY <1>2, <1>4, <2>1, <2>2
<1>11. QED
  BY <1>8, <1>9, <1>10 DEF RingInv, ms

NodeAdded(h, n, e) ==
  [m \in DOMAIN h \cup {n} |-> IF m = n THEN [next |-> n, prev |-> n, data |-> e] ELSE h[m]]

\* g is h with n linked in between last and front.
Spliced(g, h, D, n, front, last) ==
  /\ g \in [D -> NodeType] /\ \A m \in D : g[m].data = h[m].data
  /\ g[n].next = front /\ g[n].prev = last /\ g[last].next = n /\ g[front].prev = n
  /\ \A m \in D : m # last /\ m # n => g[m].next = h[m].next
  /\ \A m \in D : m # front /\ m # n => g[m].prev = h[m].prev
  /\ \A m \in D : m # last /\ m # n /\ m # front => g[m] = h[m]

(* list_insert links a node in between two others. *)
LEMMA LinkedFacts ==
  ASSUME NEW D \in SUBSET Nodes, NEW h \in [D -> NodeType], NEW n \in D, NEW front \in D, NEW last \in D,
         n # front, n # last, h[front].prev = last, NEW g, g = L!Linked(h, n, front)
  PROVE  Spliced(g, h, D, n, front, last)
<1> DEFINE a == [h EXCEPT ![n].prev = last]
           b == [a EXCEPT ![last].next = n]
           c == [b EXCEPT ![front].prev = n]
           d == [c EXCEPT ![n].next = front]
<1>1. g = d
  BY DEF L!Linked
<1>2. a \in [D -> NodeType] /\ a[n].prev = last /\ (\A m \in D : a[m].data = h[m].data /\ a[m].next = h[m].next)
      /\ \A m \in D : m # n => a[m] = h[m]
  BY DEF NodeType
<1> HIDE DEF a
<1>3. b \in [D -> NodeType] /\ b[last].next = n /\ (\A m \in D : b[m].data = a[m].data /\ b[m].prev = a[m].prev)
      /\ \A m \in D : m # last => b[m] = a[m]
  BY <1>2 DEF NodeType
<1> HIDE DEF b
<1>4. c \in [D -> NodeType] /\ c[front].prev = n /\ (\A m \in D : c[m].data = b[m].data /\ c[m].next = b[m].next)
      /\ \A m \in D : m # front => c[m] = b[m]
  BY <1>3 DEF NodeType
<1> HIDE DEF c
<1>5. d \in [D -> NodeType] /\ d[n].next = front /\ (\A m \in D : d[m].data = c[m].data /\ d[m].prev = c[m].prev)
      /\ \A m \in D : m # n => d[m] = c[m]
  BY <1>4 DEF NodeType
<1> HIDE DEF d
<1>6. QED
  BY <1>1, <1>2, <1>3, <1>4, <1>5 DEF Spliced

\* x goes in at index p of s.
Inserted(s, p, x) == [i \in 1 .. Len(s) + 1 |-> IF i < p THEN s[i] ELSE IF i = p THEN x ELSE s[i - 1]]

(* A sequence after an insertion. *)
LEMMA InsertedFacts ==
  ASSUME NEW X, NEW s \in Seq(X), NEW x \in X, NEW p \in 1 .. Len(s) + 1
  PROVE  /\ Inserted(s, p, x) \in Seq(X) /\ Len(Inserted(s, p, x)) = Len(s) + 1
         /\ \A y : y \in ToSet(Inserted(s, p, x)) <=> y = x \/ y \in ToSet(s)
         /\ Distinct(s) /\ x \notin ToSet(s) => Distinct(Inserted(s, p, x))
<1> DEFINE N == Len(s) + 1
           t == Inserted(s, p, x)
<1>1. N \in Nat /\ p \in Nat /\ Len(s) \in Nat /\ \A i \in 1 .. Len(s) : s[i] \in X
  OBVIOUS
<1>2. \A i \in 1 .. N : t[i] = IF i < p THEN s[i] ELSE IF i = p THEN x ELSE s[i - 1]
  BY DEF Inserted
<1>3. \A i \in 1 .. N : /\ i < p => i \in 1 .. Len(s)
                        /\ i # p /\ ~ (i < p) => i - 1 \in 1 .. Len(s)
  OBVIOUS
<1>4. \A i \in 1 .. N : t[i] \in X
  BY <1>1, <1>2, <1>3
<1>5. DOMAIN t = 1 .. N /\ t = [i \in 1 .. N |-> t[i]]
  BY DEF Inserted
<1> HIDE DEF t
<1>6. t \in Seq(X) /\ Len(t) = N
  <2> HIDE DEF N
  <2>1. QED
    BY <1>1, <1>4, <1>5
<1>7. \A y : y \in ToSet(t) <=> y = x \/ y \in ToSet(s)
  <2>1. ASSUME NEW y, y \in ToSet(t) PROVE y = x \/ y \in ToSet(s)
    <3>1. PICK i \in 1 .. N : t[i] = y
      BY <1>6, <2>1, InSet
    <3>2. QED
      BY <1>2, <1>3, <3>1, InSet
  <2>2. p \in 1 .. N /\ t[p] = x
    BY <1>2
  <2>3. ASSUME NEW y, y \in ToSet(s) PROVE y \in ToSet(t)
    <3>1. PICK i \in 1 .. Len(s) : s[i] = y
      BY <2>3, InSet
    <3>2. CASE i < p
      <4>1. i \in 1 .. N /\ t[i] = y
        BY <1>2, <3>1, <3>2
      <4>2. QED
        BY <1>6, <4>1, InSet
    <3>3. CASE ~ (i < p)
      <4>1. i + 1 \in 1 .. N /\ ~ (i + 1 < p) /\ i + 1 # p /\ (i + 1) - 1 = i
        BY <1>1, <3>3
      <4>2. t[i + 1] = y
        BY <1>2, <3>1, <4>1
      <4>3. QED
        BY <1>6, <4>1, <4>2, InSet
    <3>4. QED
      BY <3>2, <3>3
  <2>4. x \in ToSet(t)
    BY <1>6, <2>2, InSet
  <2>5. QED
    BY <2>1, <2>3, <2>4
<1>8. ASSUME Distinct(s), x \notin ToSet(s) PROVE Distinct(t)
  <2> SUFFICES ASSUME NEW i \in 1 .. N, NEW j \in 1 .. N, t[i] = t[j] PROVE i = j
    BY <1>6 DEF Distinct
  <2>1. \A k \in 1 .. Len(s) : s[k] # x
    BY <1>8, InSet
  <2>2. CASE i = p \/ j = p
    BY <1>2, <1>3, <2>1, <2>2
  <2>3. CASE i < p /\ j < p
    BY <1>2, <1>3, <1>8, <2>3 DEF Distinct
  <2>4. CASE i < p /\ ~ (j < p) /\ j # p
    <3>1. t[i] = s[i] /\ t[j] = s[j - 1] /\ i \in 1 .. Len(s) /\ j - 1 \in 1 .. Len(s)
      BY <1>2, <1>3, <2>4
    <3>2. i = j - 1
      BY <1>8, <3>1 DEF Distinct
    <3>3. QED
      BY <1>1, <2>4, <3>2
  <2>5. CASE j < p /\ ~ (i < p) /\ i # p
    <3>1. t[j] = s[j] /\ t[i] = s[i - 1] /\ j \in 1 .. Len(s) /\ i - 1 \in 1 .. Len(s)
      BY <1>2, <1>3, <2>5
    <3>2. j = i - 1
      BY <1>8, <3>1 DEF Distinct
    <3>3. QED
      BY <1>1, <2>5, <3>2
  <2>6. CASE ~ (i < p) /\ i # p /\ ~ (j < p) /\ j # p
    <3>1. t[j] = s[j - 1] /\ t[i] = s[i - 1] /\ j - 1 \in 1 .. Len(s) /\ i - 1 \in 1 .. Len(s)
      BY <1>2, <1>3, <2>6
    <3>2. j - 1 = i - 1
      BY <1>8, <3>1 DEF Distinct
    <3>3. QED
      BY <3>2
  <2>7. QED
    BY <2>2, <2>3, <2>4, <2>5, <2>6
<1>9. QED
  BY <1>6, <1>7, <1>8 DEF t

Pushed(q, n, first) == [q EXCEPT !.size = @ + 1, !.front = IF first \/ q.size = 0 THEN n ELSE @]

PushedHeap(h, q, n, e) ==
  IF q.size > 0 THEN L!Linked(NodeAdded(h, n, e), n, q.front) ELSE NodeAdded(h, n, e)

PushedAt(s, first) == IF first THEN 1 ELSE Len(s) + 1

\* n is in g, and the other nodes are as in h, up to the links of those of s.
Joins(g, h, n, e, s) ==
  /\ DOMAIN g = DOMAIN h \cup {n} /\ g \in [DOMAIN g -> NodeType]
  /\ \A m \in DOMAIN h : g[m].data = h[m].data /\ (m \notin ToSet(s) => g[m] = h[m])
  /\ g[n].data = e

(* A new node at either end closes the ring again. *)
LEMMA PushedRing ==
  ASSUME NEW ls, NEW h, Typed(ls, h), NEW r, Rings(ls, h, r), NEW l \in Lists, NEW q, q = ls[l], q.live,
         NEW s, s = r[l], NEW n \in Nodes, n \notin DOMAIN h, NEW e \in ListElems, NEW first \in BOOLEAN,
         NEW p, p = PushedAt(s, first), NEW g, g = PushedHeap(h, q, n, e)
  PROVE  /\ Ringed(g, Pushed(q, n, first), Inserted(s, p, n))
         /\ Joins(g, h, n, e, s)
<1> DEFINE N == Len(s) + 1
           t == Inserted(s, p, n)
           u == Pushed(q, n, first)
           D == DOMAIN h \cup {n}
           a == NodeAdded(h, n, e)
<1>1. /\ q \in ListType /\ h \in [DOMAIN h -> NodeType] /\ DOMAIN h \subseteq Nodes
      /\ Ringed(h, q, s) /\ s \in Seq(Nodes) /\ Len(s) \in Nat /\ q.size = Len(s)
  BY DEF Typed, Rings, Ringed
<1>2. N \in Nat /\ p \in 1 .. Len(s) + 1
  BY <1>1 DEF PushedAt
<1>3. \A i \in 1 .. Len(s) : s[i] \in DOMAIN h /\ s[i] # n
  BY DEF Rings, Ringed, Linkage
<1>4. n \notin ToSet(s) /\ Distinct(s)
  BY <1>1, <1>3, InSet DEF Ringed
<1>5. t \in Seq(Nodes) /\ Len(t) = N /\ Distinct(t)
  BY <1>1, <1>2, <1>4, InsertedFacts
<1>6. \A i \in 1 .. N : t[i] = IF i < p THEN s[i] ELSE IF i = p THEN n ELSE s[i - 1]
  BY DEF Inserted
<1> HIDE DEF t
<1>7. u \in ListType /\ u.size = N /\ u.front = IF first \/ q.size = 0 THEN n ELSE q.front
  <2> DEFINE z == q.size + 1
             f == IF first \/ q.size = 0 THEN n ELSE q.front
  <2>1. q \in ListType /\ z = N /\ z \in Nat /\ f \in Nodes \cup {Null}
    BY <1>1, <1>2 DEF ListType
  <2>2. u = [q EXCEPT !.size = z, !.front = f]
    BY DEF Pushed
  <2> HIDE DEF z, f, u
  <2>3. u \in ListType /\ u.size = z /\ u.front = f
    BY <2>1, <2>2 DEF ListType
  <2>4. QED
    BY <2>1, <2>3 DEF f
<1> HIDE DEF u
<1>8. u.front = Front1(t) /\ N > 0
  <2>1. N # 0 /\ 1 \in 1 .. N
    BY <1>1
  <2>2. CASE first
    <3>1. p = 1
      BY <2>2 DEF PushedAt
    <3>2. t[1] = n
      BY <1>6, <2>1, <3>1
    <3>3. QED
      BY <1>5, <1>7, <2>1, <2>2, <3>2 DEF Front1
  <2>3. CASE ~ first /\ q.size = 0
    <3>1. p = 1
      BY <1>1, <2>3 DEF PushedAt
    <3>2. t[1] = n
      BY <1>6, <2>1, <3>1
    <3>3. QED
      BY <1>5, <1>7, <2>1, <2>3, <3>2 DEF Front1
  <2>4. CASE ~ first /\ q.size # 0
    <3>1. p = N /\ Len(s) # 0
      BY <1>1, <2>4 DEF PushedAt
    <3>2. 1 < N
      BY <1>1, <3>1
    <3>3. t[1] = s[1]
      BY <1>6, <2>1, <3>1, <3>2
    <3>4. q.front = s[1]
      BY <1>1, <3>1 DEF Ringed, Front1
    <3>5. QED
      BY <1>5, <1>7, <2>1, <2>4, <3>3, <3>4 DEF Front1
  <2>5. QED
    BY <2>2, <2>3, <2>4
<1>9. a \in [D -> NodeType] /\ (\A m \in DOMAIN h : a[m] = h[m])
      /\ a[n].next = n /\ a[n].prev = n /\ a[n].data = e
  BY <1>1 DEF NodeAdded, NodeType
<1>10. CASE q.size = 0
  <2>1. g = a /\ Len(s) = 0 /\ N = 1 /\ p = 1
    BY <1>1, <1>2, <1>10 DEF PushedHeap
  <2>2. t[1] = n
    BY <1>6, <2>1
  <2>3. \A i \in 1 .. N : Linkage(g, t, i)
    BY <1>5, <1>9, <2>1, <2>2 DEF Linkage, After
  <2>4. QED
    BY <1>5, <1>7, <1>8, <1>9, <2>1, <2>3 DEF Ringed, t, u, Joins
<1>11. CASE q.size # 0
  <2> DEFINE front == s[1]
             last == s[Len(s)]
  <2>1. Len(s) > 0 /\ Len(s) \in 1 .. Len(s) /\ 1 \in 1 .. Len(s) /\ g = L!Linked(a, n, front)
    BY <1>1, <1>11 DEF PushedHeap, Ringed, Front1
  <2>2. front \in D /\ last \in D /\ front # n /\ last # n /\ a[front].prev = last
    <3>1. front \in DOMAIN h /\ last \in DOMAIN h /\ front # n /\ last # n
      BY <1>3, <2>1
    <3>2. h[front].prev = last
      <4>1. Linkage(h, s, Len(s)) /\ After(Len(s), Len(s)) = 1
        BY <1>1, <2>1 DEF Ringed, After
      <4>2. QED
        BY <4>1 DEF Linkage
    <3>3. QED
      BY <1>9, <3>1, <3>2
  <2> HIDE DEF front, last, a
  <2>3. D \in SUBSET Nodes /\ n \in D
    BY <1>1
  <2>4. /\ g \in [D -> NodeType] /\ \A m \in D : g[m].data = a[m].data
        /\ g[n].next = front /\ g[n].prev = last /\ g[last].next = n /\ g[front].prev = n
        /\ \A m \in D : m # last /\ m # n => g[m].next = a[m].next
        /\ \A m \in D : m # front /\ m # n => g[m].prev = a[m].prev
        /\ \A m \in D : m # last /\ m # n /\ m # front => g[m] = a[m]
    <3> HIDE DEF D
    <3>1. Spliced(g, a, D, n, front, last)
      BY <1>9, <2>1, <2>2, <2>3, LinkedFacts
    <3>2. QED
      BY <3>1 DEF Spliced
  <2>5. ASSUME NEW k \in 1 .. Len(s), k # Len(s) PROVE g[s[k]].next = s[k + 1] /\ g[s[k + 1]].prev = s[k]
    <3>1. k + 1 \in 1 .. Len(s) /\ k + 1 # 1
      BY <1>1, <2>5
    <3>2. h[s[k]].next = s[k + 1] /\ h[s[k + 1]].prev = s[k]
      BY <1>1, <2>5 DEF Ringed, Linkage, After
    <3>3. s[k] # last /\ s[k + 1] # front
      BY <1>4, <2>1, <2>5, <3>1 DEF Distinct, front, last
    <3>4. s[k] \in DOMAIN h /\ s[k + 1] \in DOMAIN h /\ s[k] # n /\ s[k + 1] # n
      BY <1>3, <3>1
    <3>5. QED
      BY <1>9, <2>4, <3>2, <3>3, <3>4
  <2>6. ASSUME NEW i \in 1 .. N PROVE Linkage(g, t, i)
    <3>1. DOMAIN g = D /\ i \in Nat
      BY <2>4, <1>2
    <3>2. CASE first
      <4>1. p = 1
        BY <3>2 DEF PushedAt
      <4>2. t[1] = n /\ \A k \in 1 .. Len(s) : t[k + 1] = s[k]
        <5>1. 1 \in 1 .. N
          BY <1>2, <2>1
        <5>2. ASSUME NEW k \in 1 .. Len(s) PROVE t[k + 1] = s[k]
          <6>1. k + 1 \in 1 .. N /\ ~ (k + 1 < 1) /\ k + 1 # 1 /\ (k + 1) - 1 = k
            BY <1>1
          <6>2. QED
            BY <1>6, <4>1, <6>1
        <5>3. QED
          BY <1>6, <4>1, <5>1, <5>2
      <4>3. CASE i = 1
        <5>1. After(i, N) = 2 /\ t[2] = s[1]
          BY <2>1, <4>2, <4>3 DEF After
        <5>2. QED
          BY <1>5, <2>3, <2>4, <3>1, <4>2, <4>3, <5>1 DEF Linkage, front
      <4>4. CASE i # 1
        <5> DEFINE k == i - 1
        <5>1. k \in 1 .. Len(s) /\ i = k + 1
          BY <1>1, <4>4
        <5>2. t[i] = s[k] /\ s[k] \in D
          BY <1>3, <4>2, <5>1
        <5>3. CASE k = Len(s)
          <6>1. After(i, N) = 1 /\ s[k] = last
            BY <5>1, <5>3 DEF After, last
          <6>2. QED
            BY <1>5, <2>4, <3>1, <4>2, <5>2, <6>1 DEF Linkage
        <5>4. CASE k # Len(s)
          <6>1. After(i, N) = i + 1 /\ k + 1 \in 1 .. Len(s) /\ i + 1 = (k + 1) + 1
            BY <1>1, <5>1, <5>4 DEF After
          <6>2. t[i + 1] = s[k + 1]
            BY <4>2, <6>1
          <6>3. g[s[k]].next = s[k + 1] /\ g[s[k + 1]].prev = s[k]
            BY <2>5, <5>1, <5>4
          <6>4. t[i] \in DOMAIN g /\ g[t[i]].next = t[i + 1] /\ g[t[i + 1]].prev = t[i]
            BY <3>1, <5>2, <6>2, <6>3
          <6>5. QED
            BY <1>5, <6>1, <6>4 DEF Linkage
        <5>5. QED
          BY <5>3, <5>4
      <4>5. QED
        BY <4>3, <4>4
    <3>3. CASE ~ first
      <4>1. p = N
        BY <3>3 DEF PushedAt
      <4>2. t[N] = n /\ \A k \in 1 .. Len(s) : t[k] = s[k]
        <5>1. N \in 1 .. N /\ ~ (N < N)
          BY <1>2, <2>1
        <5>2. ASSUME NEW k \in 1 .. Len(s) PROVE t[k] = s[k]
          <6>1. k \in 1 .. N /\ k < N
            BY <1>1
          <6>2. QED
            BY <1>6, <4>1, <6>1
        <5>3. QED
          BY <1>6, <4>1, <5>1, <5>2
      <4>3. CASE i = N
        <5>1. After(i, N) = 1 /\ t[1] = s[1]
          BY <2>1, <4>2, <4>3 DEF After
        <5>2. QED
          BY <1>5, <2>3, <2>4, <3>1, <4>2, <4>3, <5>1 DEF Linkage, front
      <4>4. CASE i # N
        <5>1. i \in 1 .. Len(s) /\ After(i, N) = i + 1
          BY <1>1, <4>4 DEF After
        <5>2. t[i] = s[i] /\ s[i] \in D
          BY <1>3, <4>2, <5>1
        <5>3. CASE i = Len(s)
          <6>1. i + 1 = N /\ s[i] = last
            BY <5>1, <5>3 DEF last
          <6>2. QED
            BY <1>5, <2>4, <3>1, <4>2, <5>1, <5>2, <6>1 DEF Linkage
        <5>4. CASE i # Len(s)
          <6>1. i + 1 \in 1 .. Len(s)
            BY <1>1, <5>1, <5>4
          <6>2. t[i + 1] = s[i + 1]
            BY <4>2, <6>1
          <6>3. QED
            BY <1>5, <2>5, <3>1, <5>1, <5>2, <5>4, <6>2 DEF Linkage
        <5>5. QED
          BY <5>3, <5>4
      <4>5. QED
        BY <4>3, <4>4
    <3>4. QED
      BY <3>2, <3>3
  <2>7. Ringed(g, u, t)
    BY <1>5, <1>7, <1>8, <2>6 DEF Ringed
  <2>8. DOMAIN g = D /\ g \in [D -> NodeType]
    BY <2>4
  <2>9. ASSUME NEW m \in DOMAIN h PROVE g[m].data = h[m].data /\ (m \notin ToSet(s) => g[m] = h[m])
    <3>1. m \in D /\ m # n /\ a[m] = h[m]
      BY <1>9
    <3>2. front \in ToSet(s) /\ last \in ToSet(s)
      BY <1>1, <2>1, InSet DEF front, last
    <3>3. QED
      BY <2>4, <3>1, <3>2
  <2>10. g[n].data = e
    BY <1>9, <2>3, <2>4
  <2>11. QED
    BY <2>7, <2>8, <2>9, <2>10 DEF t, u, Joins
<1>12. QED
  BY <1>10, <1>11

(* The elements of a sequence of nodes, one by one. *)
LEMMA DataIs ==
  ASSUME NEW h, NEW X, NEW s \in Seq(X)
  PROVE  DOMAIN L!Data(h, s) = 1 .. Len(s) /\ \A i \in 1 .. Len(s) : L!Data(h, s)[i] = h[s[i]].data
<1>1. DOMAIN s = 1 .. Len(s)
  OBVIOUS
<1>2. QED
  BY <1>1 DEF L!Data

(* They are elements of the list. *)
LEMMA DataSeq ==
  ASSUME NEW D, NEW h \in [D -> NodeType], NEW s \in Seq(D)
  PROVE  L!Data(h, s) \in Seq(ListElems) /\ Len(L!Data(h, s)) = Len(s)
<1>1. Len(s) \in Nat /\ \A i \in 1 .. Len(s) : h[s[i]].data \in ListElems
  BY DEF NodeType
<1>2. L!Data(h, s) = [i \in 1 .. Len(s) |-> h[s[i]].data]
  <2>1. DOMAIN s = 1 .. Len(s)
    OBVIOUS
  <2>2. QED
    BY <2>1 DEF L!Data
<1>3. QED
  BY <1>1, <1>2

(* list_push_front and list_push_back. *)
LEMMA PushInv ==
  ASSUME NEW ls, NEW h, Typed(ls, h), NEW r, Rings(ls, h, r), NEW l \in Lists, NEW q, q = ls[l], q.live,
         NEW n \in Nodes, n \notin DOMAIN h, NEW e \in ListElems, NEW first \in BOOLEAN,
         NEW g, g = PushedHeap(h, q, n, e)
  PROVE  /\ RingInv([ls EXCEPT ![l] = Pushed(q, n, first)], g)
         /\ Contents([ls EXCEPT ![l] = Pushed(q, n, first)], g) =
              [Contents(ls, h) EXCEPT ![l] = Inserted(L!Data(h, r[l]), PushedAt(r[l], first), e)]
<1> DEFINE s == r[l]
           p == PushedAt(s, first)
           t == Inserted(s, p, n)
           u == Pushed(q, n, first)
<1>1. Ringed(h, q, s) /\ s \in Seq(Nodes) /\ Len(s) \in Nat
  BY DEF Rings, Ringed
<1>2. p \in 1 .. Len(s) + 1
  BY <1>1 DEF PushedAt
<1>3. /\ Ringed(g, u, t) /\ DOMAIN g = DOMAIN h \cup {n} /\ g \in [DOMAIN g -> NodeType]
      /\ \A m \in DOMAIN h : g[m].data = h[m].data /\ (m \notin ToSet(s) => g[m] = h[m])
      /\ g[n].data = e
  <2>1. s = r[l] /\ p = PushedAt(s, first)
    OBVIOUS
  <2> HIDE DEF s, p
  <2>2. Ringed(g, u, t) /\ Joins(g, h, n, e, s)
    BY <2>1, PushedRing
  <2>3. QED
    BY <2>2 DEF Joins
<1> HIDE DEF s, p
<1>4. u \in ListType /\ u.live
  <2>1. q \in ListType
    BY DEF Typed
  <2>2. u.size = Len(t) /\ Len(t) \in Nat /\ t \in Seq(Nodes) /\ u.front = Front1(t)
    BY <1>3 DEF Ringed
  <2>3. u.front \in Nodes \cup {Null}
    <3>1. Len(t) # 0 => t[1] \in Nodes
      <4> HIDE DEF t
      <4>1. QED
        BY <2>2
    <3>2. QED
      BY <2>2, <3>1 DEF Front1
  <2>4. u = [live |-> q.live, front |-> u.front, size |-> u.size] /\ u.live = q.live /\ q.live \in BOOLEAN
    <3> DEFINE z == q.size + 1
               f == IF first \/ q.size = 0 THEN n ELSE q.front
    <3>1. u = [q EXCEPT !.size = z, !.front = f]
      BY DEF Pushed
    <3> HIDE DEF z, f, u
    <3>2. QED
      BY <2>1, <3>1 DEF ListType
  <2> HIDE DEF u
  <2>5. QED
    BY <2>2, <2>3, <2>4 DEF ListType
<1>5. \A m : m \in ToSet(t) <=> m = n \/ m \in ToSet(s)
  BY <1>1, <1>2, InsertedFacts
<1>6. t \in Seq(Nodes)
  BY <1>3 DEF Ringed
<1>7. \A m \in ToSet(s) : m \in DOMAIN h
  BY DEF Rings, s
<1> DEFINE c == Inserted(L!Data(h, s), p, e)
<1>8. L!Data(g, t) = c
  <2>1. DOMAIN L!Data(h, s) = 1 .. Len(s) /\ \A i \in 1 .. Len(s) : L!Data(h, s)[i] = h[s[i]].data
    BY <1>1, DataIs
  <2>2. DOMAIN t = 1 .. Len(t) /\ Len(t) = Len(s) + 1
    BY <1>1, <1>2, InsertedFacts
  <2>3. Len(L!Data(h, s)) = Len(s)
    BY <1>1, <2>1
  <2>4. L!Data(g, t) = [i \in 1 .. Len(s) + 1 |-> g[t[i]].data]
    BY <2>2 DEF L!Data
  <2>5. c = [i \in 1 .. Len(s) + 1 |->
               IF i < p THEN L!Data(h, s)[i] ELSE IF i = p THEN e ELSE L!Data(h, s)[i - 1]]
    BY <2>3 DEF Inserted
  <2>6. ASSUME NEW i \in 1 .. Len(s) + 1
        PROVE  g[t[i]].data = IF i < p THEN L!Data(h, s)[i] ELSE IF i = p THEN e ELSE L!Data(h, s)[i - 1]
    <3>1. t[i] = IF i < p THEN s[i] ELSE IF i = p THEN n ELSE s[i - 1]
      BY DEF Inserted
    <3> HIDE DEF t
    <3>2. \A k \in 1 .. Len(s) : g[s[k]].data = h[s[k]].data
      BY <1>1, <1>3, <1>7, InSet
    <3>3. CASE i < p
      <4>1. i \in 1 .. Len(s)
        BY <1>1, <1>2, <3>3
      <4>2. QED
        BY <2>1, <3>1, <3>2, <3>3, <4>1
    <3>4. CASE i = p
      BY <1>2, <1>3, <3>1, <3>4
    <3>5. CASE ~ (i < p) /\ i # p
      <4>1. i - 1 \in 1 .. Len(s)
        BY <1>1, <1>2, <3>5
      <4>2. QED
        BY <2>1, <3>1, <3>2, <3>5, <4>1
    <3>6. QED
      BY <3>3, <3>4, <3>5
  <2> HIDE DEF t, c
  <2>7. QED
    BY <2>4, <2>5, <2>6
<1> HIDE DEF u, t, c
<1>9. RingInv([ls EXCEPT ![l] = u], g) /\ Contents([ls EXCEPT ![l] = u], g) = [Contents(ls, h) EXCEPT ![l] = L!Data(g, t)]
  <2>1. DOMAIN g \subseteq Nodes
    BY <1>3 DEF Typed
  <2>2. \A m : m \in DOMAIN g <=> (m \in DOMAIN h /\ m \notin ToSet(r[l])) \/ m \in ToSet(t)
    BY <1>3, <1>5, <1>7 DEF s
  <2>3. \A m \in ToSet(t) : m \in ToSet(r[l]) \/ m \notin DOMAIN h
    BY <1>5 DEF s
  <2>4. \A m \in DOMAIN h : m \notin ToSet(r[l]) => g[m] = h[m]
    BY <1>3 DEF s
  <2>5. QED
    BY <1>3, <1>4, <1>6, <2>1, <2>2, <2>3, <2>4, RingFrame
<1>10. QED
  BY <1>8, <1>9 DEF c, u, p, s

\* s without the node at index p.
Cut(s, p) == [i \in 1 .. Len(s) - 1 |-> IF i < p THEN s[i] ELSE s[i + 1]]

(* A sequence after a removal. *)
LEMMA CutFacts ==
  ASSUME NEW X, NEW s \in Seq(X), NEW p \in 1 .. Len(s)
  PROVE  /\ Cut(s, p) \in Seq(X) /\ Len(Cut(s, p)) = Len(s) - 1
         /\ Distinct(s) => /\ \A y : y \in ToSet(Cut(s, p)) <=> y \in ToSet(s) /\ y # s[p]
                           /\ Distinct(Cut(s, p))
<1> DEFINE M == Len(s) - 1
           t == Cut(s, p)
           at(i) == IF i < p THEN i ELSE i + 1
<1>1. M \in Nat /\ p \in Nat /\ Len(s) = M + 1 /\ \A i \in 1 .. Len(s) : s[i] \in X
  OBVIOUS
<1>2. \A i \in 1 .. M : t[i] = s[at(i)]
  BY DEF Cut
<1>3. \A i \in 1 .. M : at(i) \in 1 .. Len(s) /\ at(i) # p
  BY <1>1
<1>4. \A i, j \in 1 .. M : at(i) = at(j) => i = j
  BY <1>1
<1>5. ASSUME NEW k \in 1 .. Len(s), k # p PROVE \E i \in 1 .. M : at(i) = k
  <2>1. CASE k < p
    <3>1. k \in 1 .. M /\ at(k) = k
      BY <1>1, <2>1
    <3>2. QED
      BY <3>1
  <2>2. CASE ~ (k < p)
    <3>1. k - 1 \in 1 .. M /\ at(k - 1) = k
      BY <1>1, <1>5, <2>2
    <3> HIDE DEF at
    <3>2. QED
      BY <3>1
  <2>3. QED
    BY <2>1, <2>2
<1>6. DOMAIN t = 1 .. M /\ t = [i \in 1 .. M |-> t[i]]
  BY DEF Cut
<1> HIDE DEF t, at
<1>7. t \in Seq(X) /\ Len(t) = M
  <2>1. \A i \in 1 .. M : t[i] \in X
    BY <1>1, <1>2, <1>3
  <2> HIDE DEF M
  <2>2. QED
    BY <1>1, <1>6, <2>1
<1>8. ASSUME Distinct(s) PROVE \A y : y \in ToSet(t) <=> y \in ToSet(s) /\ y # s[p]
  <2>1. ASSUME NEW y, y \in ToSet(t) PROVE y \in ToSet(s) /\ y # s[p]
    <3>1. PICK i \in 1 .. M : t[i] = y
      BY <1>7, <2>1, InSet
    <3>2. at(i) \in 1 .. Len(s) /\ at(i) # p /\ s[at(i)] = y
      BY <1>2, <1>3, <3>1
    <3>3. QED
      BY <1>8, <3>2, InSet DEF Distinct
  <2>2. ASSUME NEW y, y \in ToSet(s), y # s[p] PROVE y \in ToSet(t)
    <3>1. PICK k \in 1 .. Len(s) : s[k] = y
      BY <2>2, InSet
    <3>2. PICK i \in 1 .. M : at(i) = k
      BY <1>5, <2>2, <3>1
    <3>3. t[i] = y
      BY <1>2, <3>1, <3>2
    <3>4. QED
      BY <1>7, <3>3, InSet
  <2>3. QED
    BY <2>1, <2>2
<1>9. ASSUME Distinct(s) PROVE Distinct(t)
  BY <1>2, <1>3, <1>4, <1>7, <1>9 DEF Distinct
<1>10. QED
  BY <1>7, <1>8, <1>9 DEF t

Prior(i, n) == IF i = 1 THEN n ELSE i - 1

\* The index in s of the node at index i of Cut(s, p).
Uncut(i, p) == IF i < p THEN i ELSE i + 1

(* The places around a ring, with and without the one at p. *)
LEMMA AfterFacts ==
  ASSUME NEW n \in Nat, NEW p \in 1 .. n, n > 1
  PROVE  /\ \A i, j \in 1 .. n : After(i, n) = After(j, n) => i = j
         /\ \A i \in 1 .. n : After(i, n) \in 1 .. n /\ After(i, n) # i
         /\ Prior(p, n) \in 1 .. n /\ Prior(p, n) # p /\ After(Prior(p, n), n) = p
         /\ \A i \in 1 .. n - 1 :
              /\ Uncut(i, p) \in 1 .. n /\ Uncut(i, p) # p
              /\ After(i, n - 1) \in 1 .. n - 1
              /\ Uncut(After(i, n - 1), p) =
                   IF After(Uncut(i, p), n) = p THEN After(p, n) ELSE After(Uncut(i, p), n)
<1>1. \A i, j \in 1 .. n : After(i, n) = After(j, n) => i = j
  BY DEF After
<1>2. \A i \in 1 .. n : After(i, n) \in 1 .. n /\ After(i, n) # i
  BY DEF After
<1>3. Prior(p, n) \in 1 .. n /\ Prior(p, n) # p /\ After(Prior(p, n), n) = p
  BY DEF Prior, After
<1>4. ASSUME NEW i \in 1 .. n - 1
      PROVE  /\ Uncut(i, p) \in 1 .. n /\ Uncut(i, p) # p
             /\ After(i, n - 1) \in 1 .. n - 1
             /\ Uncut(After(i, n - 1), p) =
                   IF After(Uncut(i, p), n) = p THEN After(p, n) ELSE After(Uncut(i, p), n)
  <2>1. Uncut(i, p) \in 1 .. n /\ Uncut(i, p) # p /\ After(i, n - 1) \in 1 .. n - 1
    BY DEF Uncut, After
  <2>2. CASE i = n - 1
    BY <2>2 DEF Uncut, After
  <2>3. CASE i # n - 1
    BY <2>3 DEF Uncut, After
  <2>4. QED
    BY <2>1, <2>2, <2>3
<1>5. QED
  BY <1>1, <1>2, <1>3, <1>4

\* g is h without n, which stood between a and b.
Unspliced(g, h, D, n, a, b) ==
  /\ g \in [D \ {n} -> NodeType] /\ (\A m \in D : m # n => g[m].data = h[m].data)
  /\ g[a].next = b /\ g[b].prev = a
  /\ \A m \in D : m # n /\ m # a => g[m].next = h[m].next
  /\ \A m \in D : m # n /\ m # b => g[m].prev = h[m].prev
  /\ \A m \in D : m # n /\ m # a /\ m # b => g[m] = h[m]

(* list_erase links the neighbours of a node to each other. *)
LEMMA UnlinkedFacts ==
  ASSUME NEW D \in SUBSET Nodes, NEW h \in [D -> NodeType], NEW n \in D, NEW a \in D, NEW b \in D,
         n # a, n # b, h[n].prev = a, h[n].next = b, NEW g, g = L!Unlinked(h, n)
  PROVE  Unspliced(g, h, D, n, a, b)
<1> DEFINE x == [h EXCEPT ![a].next = b]
           y == [x EXCEPT ![b].prev = a]
           z == [m \in D \ {n} |-> y[m]]
<1>1. g = L!Without(y, {n})
  BY DEF L!Unlinked
<1>2. x \in [D -> NodeType] /\ x[a].next = b /\ (\A m \in D : x[m].data = h[m].data /\ x[m].prev = h[m].prev)
      /\ \A m \in D : m # a => x[m] = h[m]
  BY DEF NodeType
<1> HIDE DEF x
<1>3. y \in [D -> NodeType] /\ y[b].prev = a /\ (\A m \in D : y[m].data = x[m].data /\ y[m].next = x[m].next)
      /\ \A m \in D : m # b => y[m] = x[m]
  BY <1>2 DEF NodeType
<1> HIDE DEF y
<1>4. g = z
  BY <1>1, <1>3 DEF L!Without
<1>5. z \in [D \ {n} -> NodeType] /\ \A m \in D : m # n => z[m] = y[m]
  BY <1>3
<1> HIDE DEF z
<1>6. QED
  BY <1>2, <1>3, <1>4, <1>5 DEF Unspliced

\* n is not in g, and the other nodes are as in h, up to the links of those of s.
Leaves(g, h, D, n, s) ==
  /\ g \in [D \ {n} -> NodeType]
  /\ \A m \in D : m # n => g[m].data = h[m].data /\ (m \notin ToSet(s) => g[m] = h[m])

\* The structure without the node at index p of s.
Shorter(q, s, p) == [q EXCEPT !.size = @ - 1, !.front = IF p = 1 THEN s[2] ELSE @]

(* The structure that list_erase leaves. *)
LEMMA ShorterFacts ==
  ASSUME NEW q \in ListType, NEW s \in Seq(Nodes), NEW p \in 1 .. Len(s), Len(s) > 1, q.size = Len(s)
  PROVE  /\ Shorter(q, s, p) \in ListType /\ Shorter(q, s, p).live = q.live
         /\ Shorter(q, s, p).size = q.size - 1
         /\ Shorter(q, s, p).front = IF p = 1 THEN s[2] ELSE q.front
<1> DEFINE z == q.size - 1
           f == IF p = 1 THEN s[2] ELSE q.front
<1>1. z \in Nat /\ f \in Nodes \cup {Null}
  <2>1. Len(s) \in Nat /\ 2 \in 1 .. Len(s)
    OBVIOUS
  <2>2. s[2] \in Nodes /\ q.front \in Nodes \cup {Null}
    BY <2>1 DEF ListType
  <2>3. QED
    BY <2>1, <2>2
<1>2. Shorter(q, s, p) = [q EXCEPT !.size = z, !.front = f]
  BY DEF Shorter
<1> HIDE DEF z, f
<1>3. LET u == [q EXCEPT !.size = z, !.front = f] IN u \in ListType /\ u.live = q.live /\ u.size = z /\ u.front = f
  BY <1>1 DEF ListType
<1>4. QED
  BY <1>2, <1>3 DEF z, f

(* The node at index p of s, one of several, is taken out. *)
LEMMA CutRing ==
  ASSUME NEW h, NEW D \in SUBSET Nodes, h \in [D -> NodeType], NEW q, NEW s, Ringed(h, q, s),
         NEW p \in 1 .. Len(s), Len(s) > 1, NEW u,
         u.size = q.size - 1, u.front = IF p = 1 THEN s[2] ELSE q.front,
         NEW g, g = L!Unlinked(h, s[p])
  PROVE  Ringed(g, u, Cut(s, p)) /\ Leaves(g, h, D, s[p], s)
<1> DEFINE N == Len(s)
           M == Len(s) - 1
           n == s[p]
           a == s[Prior(p, N)]
           b == s[After(p, N)]
           t == Cut(s, p)
<1>1. N \in Nat /\ M \in Nat /\ N > 1 /\ M > 0 /\ s \in Seq(Nodes) /\ Distinct(s) /\ q.size = N /\ DOMAIN h = D
  BY DEF Ringed
<1>2. /\ \A i \in 1 .. N : s[i] \in D
      /\ \A i \in 1 .. N : h[s[i]].next = s[After(i, N)] /\ h[s[After(i, N)]].prev = s[i]
  BY <1>1 DEF Ringed, Linkage
<1>3. /\ Prior(p, N) \in 1 .. N /\ Prior(p, N) # p /\ After(Prior(p, N), N) = p
      /\ After(p, N) \in 1 .. N /\ After(p, N) # p
  BY <1>1, AfterFacts
<1>4. n \in D /\ a \in D /\ b \in D /\ n # a /\ n # b /\ h[n].prev = a /\ h[n].next = b
  BY <1>1, <1>2, <1>3 DEF Distinct
<1>5. Unspliced(g, h, D, n, a, b)
  <2> HIDE DEF n, a, b
  <2>1. QED
    BY <1>4, UnlinkedFacts DEF n
<1>6. t \in Seq(Nodes) /\ Len(t) = M /\ Distinct(t) /\ \A i \in 1 .. M : t[i] = s[Uncut(i, p)]
  <2>1. t \in Seq(Nodes) /\ Len(t) = M /\ Distinct(t)
    BY <1>1, CutFacts
  <2>2. \A i \in 1 .. M : t[i] = s[Uncut(i, p)]
    BY DEF Cut, Uncut
  <2>3. QED
    BY <2>1, <2>2
<1> HIDE DEF t
<1>7. u.front = Front1(t)
  <2>1. 1 \in 1 .. M /\ M # 0
    BY <1>1
  <2>2. t[1] = s[Uncut(1, p)] /\ Front1(t) = t[1]
    BY <1>6, <2>1 DEF Front1
  <2>3. q.front = s[1]
    BY <1>1 DEF Ringed, Front1
  <2>4. QED
    BY <2>2, <2>3 DEF Uncut
<1>8. ASSUME NEW i \in 1 .. M PROVE Linkage(g, t, i)
  <2> DEFINE j == Uncut(i, p)
             k == Uncut(After(i, M), p)
  <2>1. /\ j \in 1 .. N /\ j # p /\ After(i, M) \in 1 .. M
        /\ k = IF After(j, N) = p THEN After(p, N) ELSE After(j, N)
    BY <1>1, AfterFacts
  <2>2. k \in 1 .. N /\ k # p
    BY <1>1, <2>1, AfterFacts
  <2>3. t[i] = s[j] /\ t[After(i, M)] = s[k]
    BY <1>6, <2>1
  <2> HIDE DEF j, k
  <2>4. s[j] \in D /\ s[k] \in D /\ s[j] # n /\ s[k] # n
    BY <1>1, <1>2, <2>1, <2>2 DEF Distinct
  <2>5. CASE After(j, N) = p
    <3>1. j = Prior(p, N)
      BY <1>1, <1>3, <2>1, <2>5, AfterFacts
    <3>2. s[j] = a /\ s[k] = b
      BY <2>1, <2>5, <3>1
    <3>3. g[s[j]].next = s[k] /\ g[s[k]].prev = s[j]
      BY <1>5, <3>2 DEF Unspliced
    <3>4. QED
      BY <1>5, <1>6, <2>3, <2>4, <3>3 DEF Linkage, Unspliced
  <2>6. CASE After(j, N) # p
    <3>1. k = After(j, N)
      BY <2>1, <2>6
    <3>2. j # Prior(p, N) /\ k # After(p, N)
      <4>1. j # Prior(p, N)
        BY <1>3, <2>6
      <4>2. k # After(p, N)
        BY <1>1, <2>1, <3>1, AfterFacts
      <4>3. QED
        BY <4>1, <4>2
    <3>3. s[j] # a /\ s[k] # b
      BY <1>1, <1>3, <2>1, <2>2, <3>2 DEF Distinct
    <3>4. h[s[j]].next = s[k] /\ h[s[k]].prev = s[j]
      BY <1>2, <2>1, <3>1
    <3>5. g[s[j]].next = s[k] /\ g[s[k]].prev = s[j]
      <4> HIDE DEF n, a, b
      <4>1. QED
        BY <1>5, <2>4, <3>3, <3>4 DEF Unspliced
    <3>6. QED
      BY <1>5, <1>6, <2>3, <2>4, <3>5 DEF Linkage, Unspliced
  <2>7. QED
    BY <2>5, <2>6
<1>9. u.size = Len(t)
  BY <1>1, <1>6
<1>10. \A m \in D : m # n => g[m].data = h[m].data /\ (m \notin ToSet(s) => g[m] = h[m])
  <2>1. a \in ToSet(s) /\ b \in ToSet(s)
    BY <1>1, <1>3, InSet
  <2> HIDE DEF n, a, b
  <2>2. QED
    BY <1>5, <2>1 DEF Unspliced
<1>11. Ringed(g, u, t)
  BY <1>6, <1>7, <1>8, <1>9 DEF Ringed
<1>12. QED
  BY <1>5, <1>10, <1>11 DEF Unspliced, Leaves, t

(* list_erase, list_pop_front and list_pop_back of one of several nodes. *)
LEMMA CutInv ==
  ASSUME NEW ls, NEW h, Typed(ls, h), NEW r, Rings(ls, h, r), NEW l \in Lists, NEW q, q = ls[l], q.live,
         NEW s, s = r[l], NEW p \in 1 .. Len(s), Len(s) > 1, NEW u, u = Shorter(q, s, p),
         NEW g, g = L!Unlinked(h, s[p])
  PROVE  /\ RingInv([ls EXCEPT ![l] = u], g)
         /\ Contents([ls EXCEPT ![l] = u], g) = [Contents(ls, h) EXCEPT ![l] = Cut(L!Data(h, s), p)]
<1> DEFINE D == DOMAIN h
           n == s[p]
           t == Cut(s, p)
           c == Cut(L!Data(h, s), p)
<1>1. Ringed(h, q, s) /\ s \in Seq(Nodes) /\ Len(s) \in Nat /\ Distinct(s) /\ q.size = Len(s)
  BY DEF Rings, Ringed
<1>2. D \in SUBSET Nodes /\ h \in [D -> NodeType]
  BY DEF Typed
<1>4. u \in ListType /\ u.live /\ u.size = q.size - 1 /\ u.front = IF p = 1 THEN s[2] ELSE q.front
  <2>1. q \in ListType
    BY DEF Typed
  <2>2. QED
    BY <1>1, <2>1, ShorterFacts
<1>3. /\ Ringed(g, u, t) /\ g \in [D \ {n} -> NodeType]
      /\ \A m \in D : m # n => g[m].data = h[m].data /\ (m \notin ToSet(s) => g[m] = h[m])
  <2>1. Ringed(g, u, Cut(s, p)) /\ Leaves(g, h, D, s[p], s)
    <3> HIDE DEF D
    <3>1. QED
      BY <1>1, <1>2, <1>4, CutRing
  <2>2. QED
    BY <2>1 DEF Leaves
<1>5. t \in Seq(Nodes) /\ Len(t) = Len(s) - 1 /\ \A y : y \in ToSet(t) <=> y \in ToSet(s) /\ y # n
  BY <1>1, CutFacts
<1>6. \A m \in ToSet(s) : m \in D
  BY DEF Rings
<1>7. n \in ToSet(s)
  BY <1>1, InSet
<1>8. L!Data(g, t) = c
  <2>1. DOMAIN L!Data(h, s) = 1 .. Len(s) /\ \A i \in 1 .. Len(s) : L!Data(h, s)[i] = h[s[i]].data
    BY <1>1, DataIs
  <2>2. DOMAIN t = 1 .. Len(s) - 1
    BY DEF Cut
  <2>3. Len(L!Data(h, s)) = Len(s)
    BY <1>1, <2>1
  <2>4. L!Data(g, t) = [i \in 1 .. Len(s) - 1 |-> g[t[i]].data]
    BY <2>2 DEF L!Data
  <2>5. c = [i \in 1 .. Len(s) - 1 |-> IF i < p THEN L!Data(h, s)[i] ELSE L!Data(h, s)[i + 1]]
    BY <2>3 DEF Cut
  <2>6. ASSUME NEW i \in 1 .. Len(s) - 1
        PROVE  g[t[i]].data = IF i < p THEN L!Data(h, s)[i] ELSE L!Data(h, s)[i + 1]
    <3>1. t[i] = IF i < p THEN s[i] ELSE s[i + 1]
      BY DEF Cut
    <3>2. t[i] \in D /\ t[i] # n
      <4>1. t[i] \in ToSet(t)
        <5> HIDE DEF t
        <5>1. QED
          BY <1>5, InSet
      <4>2. QED
        BY <1>5, <1>6, <4>1
    <3> HIDE DEF t
    <3>3. g[t[i]].data = h[t[i]].data
      BY <1>3, <3>2
    <3>4. i \in 1 .. Len(s) /\ i + 1 \in 1 .. Len(s)
      BY <1>1
    <3>5. QED
      BY <2>1, <3>1, <3>3, <3>4
  <2> HIDE DEF t, c
  <2>7. QED
    BY <2>4, <2>5, <2>6
<1> HIDE DEF t, c, n
<1>9. RingInv([ls EXCEPT ![l] = u], g) /\ Contents([ls EXCEPT ![l] = u], g) = [Contents(ls, h) EXCEPT ![l] = L!Data(g, t)]
  <2>1. DOMAIN g \subseteq Nodes /\ g \in [DOMAIN g -> NodeType]
    BY <1>2, <1>3
  <2>2. \A m : m \in DOMAIN g <=> (m \in DOMAIN h /\ m \notin ToSet(r[l])) \/ m \in ToSet(t)
    BY <1>3, <1>5, <1>6, <1>7
  <2>3. \A m \in ToSet(t) : m \in ToSet(r[l]) \/ m \notin DOMAIN h
    BY <1>5
  <2>4. \A m \in DOMAIN h : m \notin ToSet(r[l]) => g[m] = h[m]
    BY <1>3, <1>7
  <2>5. u.live \/ u.size = 0
    BY <1>4
  <2>6. \A m : m \in DOMAIN g <=> (m \in DOMAIN h /\ m \notin ToSet(r[l])) \/ m \in ToSet(t)
    BY <2>2
  <2> HIDE DEF D
  <2>7. QED
    BY <1>3, <1>4, <1>5, <2>1, <2>5, <2>6, <2>3, <2>4, RingFrame
<1>10. QED
  BY <1>8, <1>9 DEF c

(* All nodes of a list are freed. *)
Emptied(ls, h, l, u, g) ==
  /\ RingInv([ls EXCEPT ![l] = u], g)
  /\ Contents([ls EXCEPT ![l] = u], g) = [Contents(ls, h) EXCEPT ![l] = << >>]

(* list_clear, list_free and the pop of a last node. *)
LEMMA EmptyInv ==
  ASSUME NEW ls, NEW h, Typed(ls, h), NEW r, Rings(ls, h, r), NEW l \in Lists,
         NEW u \in ListType, u.size = 0, u.front = Null, NEW g, g = L!Without(h, ToSet(r[l]))
  PROVE  Emptied(ls, h, l, u, g)
<1> DEFINE R == ToSet(r[l])
<1>1. h \in [DOMAIN h -> NodeType] /\ DOMAIN h \subseteq Nodes
  BY DEF Typed
<1>2. g = [n \in DOMAIN h \ R |-> h[n]]
  BY DEF L!Without
<1> HIDE DEF R
<1>3. DOMAIN g = DOMAIN h \ R /\ g \in [DOMAIN g -> NodeType] /\ \A n \in DOMAIN g : g[n] = h[n]
  BY <1>1, <1>2
<1> DEFINE s == << >>
<1>4. s \in Seq(Nodes) /\ Len(s) = 0 /\ ToSet(s) = {} /\ DOMAIN s = {}
  BY DEF ToSet
<1>5. L!Data(g, s) = s
  BY DEF L!Data
<1> HIDE DEF s
<1>6. Ringed(g, u, s)
  BY <1>4 DEF Ringed, Distinct, Front1
<1>7. RingInv([ls EXCEPT ![l] = u], g)
      /\ Contents([ls EXCEPT ![l] = u], g) = [Contents(ls, h) EXCEPT ![l] = L!Data(g, s)]
  <2>1. \A n : n \in DOMAIN g <=> (n \in DOMAIN h /\ n \notin ToSet(r[l])) \/ n \in ToSet(s)
    BY <1>3, <1>4 DEF R
  <2>2. \A n \in ToSet(s) : n \in ToSet(r[l]) \/ n \notin DOMAIN h
    BY <1>4
  <2>3. \A n \in DOMAIN h : n \notin ToSet(r[l]) => g[n] = h[n]
    BY <1>3 DEF R
  <2>4. DOMAIN g \subseteq Nodes
    BY <1>1, <1>3
  <2>5. (u.live \/ u.size = 0) /\ g \in [DOMAIN g -> NodeType] /\ s \in Seq(Nodes)
    BY <1>3, <1>4
  <2>6. QED
    BY <1>6, <2>1, <2>2, <2>3, <2>4, <2>5, RingFrame
<1>8. QED
  BY <1>5, <1>7 DEF s, Emptied

(* Around a ring, modulo its length. *)
LEMMA TurnFacts ==
  ASSUME NEW n \in Nat, NEW i \in 1 .. n, n > 1
  PROVE  /\ (i % n) + 1 = After(i, n) /\ After(i, n) \in 1 .. n /\ Prior(i, n) \in 1 .. n
         /\ Prior(After(i, n), n) = i
<1>1. (i % n) + 1 = After(i, n)
  <2>1. CASE i = n
    BY <2>1 DEF After
  <2>2. CASE i # n
    <3>1. i \in 0 .. n - 1
      BY <2>2
    <3>2. i % n = i
      BY <3>1
    <3>3. QED
      BY <2>2, <3>2 DEF After
  <2>3. QED
    BY <2>1, <2>2
<1>2. After(i, n) \in 1 .. n /\ Prior(i, n) \in 1 .. n
  BY DEF After, Prior
<1>3. Prior(After(i, n), n) = i
  BY DEF After, Prior
<1>4. QED
  BY <1>1, <1>2, <1>3

\* g is h with the nodes of t, and no others, linked anew.
Relinked(g, h, t) ==
  /\ DOMAIN g = DOMAIN h /\ g \in [DOMAIN g -> NodeType]
  /\ \A n \in DOMAIN h : g[n].data = h[n].data /\ (n \notin ToSet(t) => g[n] = h[n])

(* The nodes of a sorted list are linked to a ring again. *)
LEMMA JoinedRing ==
  ASSUME NEW D, NEW h \in [D -> NodeType], NEW t \in Seq(Nodes), Distinct(t), Len(t) > 1,
         \A n \in ToSet(t) : n \in D, NEW u, u.size = Len(t), u.front = t[1],
         NEW g, g = L!Joined(h, t)
  PROVE  Ringed(g, u, t) /\ Relinked(g, h, t)
<1> DEFINE T == L!ToSet(t)
           place == [n \in L!ToSet(t) |-> CHOOSE i \in DOMAIN t : t[i] = n]
           N == Len(t)
           nx(i) == t[(i % N) + 1]
           pv(i) == t[IF i = 1 THEN N ELSE i - 1]
<1>1. N \in Nat /\ N > 1 /\ DOMAIN t = 1 .. N /\ T = ToSet(t) /\ \A i \in 1 .. N : t[i] \in Nodes /\ t[i] \in T
  BY SameToSet, InSet
<1>2. g = [n \in DOMAIN h |-> IF n \notin T THEN h[n] ELSE
             [h[n] EXCEPT !.next = t[(place[n] % N) + 1], !.prev = t[IF place[n] = 1 THEN N ELSE place[n] - 1]]]
  BY DEF L!Joined
<1>3. ASSUME NEW i \in 1 .. N PROVE place[t[i]] = i
  <2>1. place[t[i]] = CHOOSE j \in DOMAIN t : t[j] = t[i]
    BY <1>1
  <2>2. \A j \in DOMAIN t : t[j] = t[i] => j = i
    BY <1>1 DEF Distinct
  <2>3. QED
    BY <1>1, <2>1, <2>2
<1> HIDE DEF place, T
<1>4. ASSUME NEW i \in 1 .. N
      PROVE  /\ nx(i) = t[After(i, N)] /\ pv(i) = t[Prior(i, N)]
             /\ nx(i) \in Nodes /\ pv(i) \in Nodes
  <2>1. (i % N) + 1 = After(i, N) /\ After(i, N) \in 1 .. N /\ Prior(i, N) \in 1 .. N
    <3> HIDE DEF N
    <3>1. QED
      BY <1>1, TurnFacts
  <2>3. nx(i) = t[After(i, N)]
    BY <2>1
  <2>4. pv(i) = t[Prior(i, N)]
    BY DEF Prior
  <2>5. QED
    BY <1>1, <2>1, <2>3, <2>4
<1>5. ASSUME NEW i \in 1 .. N PROVE t[i] \in D /\ g[t[i]] = [h[t[i]] EXCEPT !.next = nx(i), !.prev = pv(i)]
  <2>1. t[i] \in D /\ t[i] \in T /\ place[t[i]] = i /\ DOMAIN h = D
    BY <1>1, <1>3
  <2> DEFINE n == t[i]
  <2> HIDE DEF n
  <2>2. n \in D /\ n \in T /\ place[n] = i
    BY <2>1 DEF n
  <2>3. g[n] = [h[n] EXCEPT !.next = t[(place[n] % N) + 1], !.prev = t[IF place[n] = 1 THEN N ELSE place[n] - 1]]
    BY <1>2, <2>1, <2>2
  <2>4. g[n] = [h[n] EXCEPT !.next = t[(i % N) + 1], !.prev = t[IF i = 1 THEN N ELSE i - 1]]
    BY <2>2, <2>3
  <2>5. QED
    BY <2>2, <2>4 DEF n
<1>6. ASSUME NEW i \in 1 .. N
      PROVE  /\ g[t[i]] \in NodeType /\ g[t[i]].data = h[t[i]].data
             /\ g[t[i]].next = t[After(i, N)] /\ g[t[i]].prev = t[Prior(i, N)]
  <2> DEFINE x == nx(i)
             y == pv(i)
             m == h[t[i]]
  <2>1. m \in NodeType /\ x \in Nodes /\ y \in Nodes /\ g[t[i]] = [m EXCEPT !.next = x, !.prev = y]
    BY <1>4, <1>5
  <2>2. x = t[After(i, N)] /\ y = t[Prior(i, N)]
    BY <1>4
  <2> HIDE DEF x, y, m
  <2>3. g[t[i]] \in NodeType /\ g[t[i]].data = m.data /\ g[t[i]].next = x /\ g[t[i]].prev = y
    BY <2>1 DEF NodeType
  <2>4. QED
    BY <2>2, <2>3 DEF m
<1>7. DOMAIN g = D /\ \A n \in D : n \notin T => g[n] = h[n]
  BY <1>2
<1>8. ASSUME NEW n \in D PROVE g[n] \in NodeType /\ g[n].data = h[n].data
  <2>1. CASE n \in T
    <3>1. PICK i \in 1 .. N : t[i] = n
      BY <1>1, <2>1, InSet
    <3>2. QED
      BY <1>6, <3>1
  <2>2. CASE n \notin T
    BY <1>7, <2>2
  <2>3. QED
    BY <2>1, <2>2
<1>9. g \in [DOMAIN g -> NodeType]
  <2>1. g = [n \in D |-> g[n]]
    BY <1>2
  <2> HIDE DEF T
  <2>2. QED
    BY <1>7, <1>8, <2>1
<1>10. Relinked(g, h, t)
  BY <1>1, <1>7, <1>8, <1>9 DEF Relinked
<1>11. ASSUME NEW i \in 1 .. N PROVE Linkage(g, t, i)
  <2>1. After(i, N) \in 1 .. N /\ Prior(After(i, N), N) = i
    <3> HIDE DEF N
    <3>1. QED
      BY <1>1, TurnFacts
  <2>2. QED
    BY <1>5, <1>6, <1>7, <2>1 DEF Linkage
<1>12. Ringed(g, u, t)
  BY <1>1, <1>11 DEF Ringed, Front1
<1>13. QED
  BY <1>10, <1>12

(* A list is no longer than there are nodes. *)
LEMMA DistinctLen ==
  ASSUME NEW s \in Seq(Nodes), Distinct(s)
  PROVE  Len(s) <= Cardinality(Nodes) /\ Cardinality(Nodes) \in Nat /\ Len(s) \div 65536 < 65536
<1> DEFINE n == Len(s)
           f == [i \in 1 .. n |-> s[i]]
<1>1. n \in Nat /\ \A i \in 1 .. n : s[i] \in Nodes
  OBVIOUS
<1>2. f \in [1 .. n -> Nodes] /\ \A i, j \in 1 .. n : f[i] = f[j] => i = j
  BY <1>1 DEF Distinct
<1> HIDE DEF f, n
<1>3. f \in Injection(1 .. n, Nodes)
  BY <1>2 DEF Injection, IsInjective
<1>4. Cardinality(1 .. n) = n
  <2>1. 1 \in Int /\ n \in Int
    BY <1>1
  <2>2. Cardinality(1 .. n) = IF 1 > n THEN 0 ELSE n - 1 + 1
    BY <2>1, FS_Interval
  <2>3. QED
    BY <1>1, <2>2
<1>5. n <= Cardinality(Nodes) /\ Cardinality(Nodes) \in Nat
  <2>1. IsFiniteSet(Nodes)
    BY ListsAssumption
  <2>2. Cardinality(1 .. n) <= Cardinality(Nodes)
    BY <1>3, <2>1, FS_Injection
  <2>3. Cardinality(Nodes) \in Nat
    BY <2>1, FS_CardinalityType
  <2>4. QED
    BY <1>4, <2>2, <2>3
<1>6. n \div 65536 < 65536
  <2>1. Cardinality(Nodes) \div 65536 < 65536
    BY ListsAssumption
  <2>2. QED
    BY <1>1, <1>5, <2>1
<1>7. QED
  BY <1>5, <1>6 DEF n

(* What a sort asks of its nodes and keys. *)
LEMMA SortableIs ==
  ASSUME NEW nodes, NEW key, nodes \in Seq(ToSet(nodes)), Distinct(nodes),
         \A x \in ToSet(nodes) : key[x] \in Int, Len(nodes) \div 65536 < 65536
  PROVE  Sortable(nodes, key, ToSet(nodes))
BY DEF Sortable

(* The nodes of a list can be sorted. *)
LEMMA ListSortable ==
  ASSUME NEW h, NEW s \in Seq(Nodes), Distinct(s),
         \A n \in ToSet(s) : n \in DOMAIN h /\ h[n].data \in ListElems,
         NEW key, key = [n \in DOMAIN h |-> ListKey(h[n].data)]
  PROVE  Sortable(s, key, ToSet(s))
<1>1. \A x \in ToSet(s) : key[x] \in Int
  BY ListsAssumption
<1>2. s \in Seq(ToSet(s))
  <2>1. Len(s) \in Nat /\ s = [i \in 1 .. Len(s) |-> s[i]] /\ \A i \in 1 .. Len(s) : s[i] \in ToSet(s)
    BY InSet
  <2> DEFINE n == Len(s)
             T == ToSet(s)
  <2> HIDE DEF n, T
  <2>2. [i \in 1 .. n |-> s[i]] \in Seq(T)
    BY <2>1 DEF n, T
  <2>3. QED
    BY <2>1, <2>2 DEF n, T
<1>3. Len(s) \div 65536 < 65536
  BY DistinctLen
<1>4. QED
  BY <1>1, <1>2, <1>3, SortableIs

\* The node at index i of t is the Places(nodes, t)[i]th of nodes.
Places(nodes, t) == [i \in 1 .. Len(nodes) |-> Pos(nodes)[t[i]]]

(* A rearrangement of nodes is a bijection of their places. *)
LEMMA PlacesFacts ==
  ASSUME NEW nodes, NEW key, NEW X, Sortable(nodes, key, X), NEW t, Arranges(t, nodes, X),
         NEW n, n = Len(nodes), NEW p, p = Places(nodes, t)
  PROVE  /\ \A i \in 1 .. n : p[i] = Pos(nodes)[t[i]] /\ p[i] \in 1 .. n /\ nodes[p[i]] = t[i]
         /\ p \in Bijection(1 .. n, 1 .. n)
<1>1. n \in Nat /\ nodes \in Seq(X) /\ t \in Seq(X) /\ Len(t) = n /\ Distinct(t) /\ ToSet(t) = X
  BY DEF Sortable, Arranges
<1>2. \A i \in 1 .. n : t[i] \in X
  BY <1>1
<1>3. \A i \in 1 .. n : p[i] = Pos(nodes)[t[i]] /\ p[i] \in 1 .. n /\ nodes[p[i]] = t[i]
  BY <1>1, <1>2, PosFacts DEF Places
<1>4. p \in [1 .. n -> 1 .. n]
  <2>1. p = [i \in 1 .. n |-> p[i]]
    BY DEF Places
  <2>2. QED
    BY <1>3, <2>1
<1>5. \A i, j \in 1 .. n : p[i] = p[j] => i = j
  BY <1>1, <1>3 DEF Distinct
<1>6. \A j \in 1 .. n : \E i \in 1 .. n : p[i] = j
  <2> SUFFICES ASSUME NEW j \in 1 .. n PROVE \E i \in 1 .. n : p[i] = j
    OBVIOUS
  <2>1. nodes[j] \in X /\ Pos(nodes)[nodes[j]] = j
    BY PosFacts
  <2>2. PICK i \in 1 .. n : t[i] = nodes[j]
    BY <1>1, <2>1, InSet
  <2>3. QED
    BY <1>3, <2>1, <2>2
<1>7. p \in Bijection(1 .. n, 1 .. n)
  BY <1>4, <1>5, <1>6 DEF Bijection, Injection, Surjection, IsInjective
<1>8. QED
  BY <1>3, <1>7

(* The bijections of the abstract specification are those of Functions. *)
LEMMA SameBijection ==
  \A S, T : L!Abs!Bijection(S, T) = Bijection(S, T) /\ F!Abs!Bijection(S, T) = Bijection(S, T)
BY DEF Bijection, Injection, Surjection, IsInjective,
       L!Abs!Bijection, L!Abs!Injection, L!Abs!Surjection, L!Abs!IsInjective,
       F!Abs!Bijection, F!Abs!Injection, F!Abs!Surjection, F!Abs!IsInjective

\* d is a sorting of c, in the order and by the keys of the elements.
SortedBy(c, d, stable) ==
  /\ DOMAIN c = 1 .. Len(c) /\ DOMAIN d = DOMAIN c /\ Len(d) = Len(c)
  /\ \E p \in Bijection(1 .. Len(c), 1 .. Len(c)) :
       /\ \A i \in 1 .. Len(c) : d[i] = c[p[i]]
       /\ \A i, j \in 1 .. Len(c) :
            i < j => \/ ListKey(d[i]) < ListKey(d[j])
                     \/ ListKey(d[i]) = ListKey(d[j]) /\ (stable => p[i] < p[j])

(* What list_sort yields is a sorting, for the abstract specification of lists. *)
LEMMA ListSorting ==
  ASSUME NEW c, NEW d, SortedBy(c, d, TRUE)
  PROVE  L!Abs!IsSorting(c, d, "comp")
BY SameBijection DEF SortedBy, L!Abs!IsSorting, L!Place

(* And what forward_list_sort yields, for that of forward lists. *)
LEMMA ForwardSorting ==
  ASSUME NEW c, NEW d, SortedBy(c, d, FALSE)
  PROVE  F!Abs!IsSorting(c, d, "comp")
BY SameBijection DEF SortedBy, F!Abs!IsSorting, F!Place

\* t is in order by the keys, stably or not.
Ordered(t, s, key, stable) ==
  \A i, j \in 1 .. Len(s) :
    i < j => IF stable THEN Earlier(t[i], t[j], s, key) ELSE key[t[i]] <= key[t[j]]

\* c and d are the elements of the nodes of s and t.
Follows(c, d, s, t, key) ==
  /\ DOMAIN c = 1 .. Len(s) /\ DOMAIN d = 1 .. Len(s) /\ Len(c) = Len(s) /\ Len(d) = Len(s)
  /\ \A i \in 1 .. Len(s) : key[s[i]] = ListKey(c[i])
  /\ \A i, j \in 1 .. Len(s) : t[i] = s[j] => d[i] = c[j]

(* The elements follow the nodes. *)
LEMMA SortedData ==
  ASSUME NEW s \in Seq(Nodes), NEW X, NEW key, Sortable(s, key, X), NEW t, Arranges(t, s, X),
         NEW stable \in BOOLEAN,
         Ordered(t, s, key, stable),
         NEW c, NEW d, Follows(c, d, s, t, key)
  PROVE  SortedBy(c, d, stable)
<1> DEFINE n == Len(s)
           p == Places(s, t)
<1>1. n \in Nat
  OBVIOUS
<1> HIDE DEF p
<1>2. \A i \in 1 .. n : p[i] = Pos(s)[t[i]] /\ p[i] \in 1 .. n /\ s[p[i]] = t[i]
  BY PlacesFacts DEF p
<1>3. p \in Bijection(1 .. n, 1 .. n)
  BY PlacesFacts DEF p
<1>4. \A i \in 1 .. n : d[i] = c[p[i]] /\ key[t[i]] = ListKey(d[i]) /\ key[t[i]] \in Int
  <2> SUFFICES ASSUME NEW i \in 1 .. n PROVE d[i] = c[p[i]] /\ key[t[i]] = ListKey(d[i]) /\ key[t[i]] \in Int
    OBVIOUS
  <2>1. p[i] \in 1 .. n /\ s[p[i]] = t[i]
    BY <1>2
  <2>2. d[i] = c[p[i]]
    BY <2>1 DEF Follows
  <2>3. key[t[i]] = ListKey(d[i])
    BY <2>1, <2>2 DEF Follows
  <2>4. t[i] \in X
    BY DEF Arranges
  <2>5. QED
    BY <2>2, <2>3, <2>4 DEF Sortable
<1>5. ASSUME NEW i \in 1 .. n, NEW j \in 1 .. n, i < j
      PROVE  \/ ListKey(d[i]) < ListKey(d[j])
             \/ ListKey(d[i]) = ListKey(d[j]) /\ (stable => p[i] < p[j])
  <2>1. IF stable THEN Earlier(t[i], t[j], s, key) ELSE key[t[i]] <= key[t[j]]
    BY <1>5 DEF Ordered
  <2>2. /\ key[t[i]] = ListKey(d[i]) /\ key[t[i]] \in Int
        /\ key[t[j]] = ListKey(d[j]) /\ key[t[j]] \in Int
    BY <1>4
  <2>3. CASE stable
    BY <1>2, <2>1, <2>2, <2>3 DEF Earlier
  <2>4. CASE ~ stable
    BY <2>1, <2>2, <2>4
  <2>5. QED
    BY <2>3, <2>4
<1>6. QED
  BY <1>3, <1>4, <1>5 DEF SortedBy, Follows

KeyOf(h) == [n \in DOMAIN h |-> ListKey(h[n].data)]
Entering(q, n) == [q EXCEPT !.front = n]

(* list_sort. *)
LEMMA SortInv ==
  ASSUME NEW ls, NEW h, Typed(ls, h), NEW r, Rings(ls, h, r), NEW l \in Lists, NEW q, q = ls[l], q.live,
         NEW s, s = r[l], Len(s) > 1, NEW key, key = KeyOf(h),
         NEW t, t = Sorted(s, key), NEW u, u = Entering(q, t[1]), NEW g, g = L!Joined(h, t)
  PROVE  /\ RingInv([ls EXCEPT ![l] = u], g)
         /\ Contents([ls EXCEPT ![l] = u], g) = [Contents(ls, h) EXCEPT ![l] = L!Data(g, t)]
         /\ SortedBy(L!Data(h, s), L!Data(g, t), TRUE)
<1> DEFINE D == DOMAIN h
           X == ToSet(s)
<1>1. Ringed(h, q, s) /\ s \in Seq(Nodes) /\ Len(s) \in Nat /\ Distinct(s) /\ q.size = Len(s)
  BY DEF Rings, Ringed
<1>2. D \subseteq Nodes /\ h \in [D -> NodeType] /\ q \in ListType
  BY DEF Typed
<1>3. \A n \in X : n \in D /\ h[n].data \in ListElems
  <2>1. \A n \in X : n \in D
    BY DEF Rings
  <2>2. QED
    BY <1>2, <2>1 DEF NodeType
<1>4. Sortable(s, key, X)
  BY <1>1, <1>3, ListSortable DEF KeyOf
<1> HIDE DEF X
<1>5. /\ Arranges(t, s, X)
      /\ \A i, j \in 1 .. Len(s) : i < j => Earlier(t[i], t[j], s, key)
  BY <1>4, MergeSortStable
<1>6. X \subseteq Nodes /\ X \subseteq D
  BY <1>1, <1>3, InSet DEF X
<1>7. t \in Seq(Nodes) /\ Distinct(t) /\ Len(t) = Len(s) /\ ToSet(t) = X /\ \A i \in 1 .. Len(s) : t[i] \in X
  <2>1. t \in Seq(X) /\ Distinct(t) /\ Len(t) = Len(s) /\ ToSet(t) = X
    BY <1>5 DEF Arranges
  <2>2. \A i \in 1 .. Len(s) : t[i] \in X
    BY <2>1
  <2>3. t \in Seq(Nodes)
    BY <1>6, <2>1
  <2>4. QED
    BY <2>1, <2>2, <2>3
<1>8. u \in ListType /\ u.live /\ u.size = Len(t) /\ u.front = t[1]
  <2> DEFINE x == t[1]
  <2>1. x \in Nodes
    BY <1>1, <1>7
  <2> HIDE DEF x
  <2>2. u = [q EXCEPT !.front = x]
    BY DEF x, Entering
  <2>3. u \in ListType /\ u.live = q.live /\ u.size = q.size /\ u.front = x
    BY <1>2, <2>1, <2>2 DEF ListType
  <2>4. QED
    BY <1>1, <1>7, <2>3 DEF x
<1>9. Ringed(g, u, t) /\ Relinked(g, h, t)
  <2>1. Len(t) > 1 /\ \A n \in ToSet(t) : n \in D
    BY <1>3, <1>7
  <2> HIDE DEF D
  <2>2. QED
    BY <1>2, <1>7, <1>8, <2>1, JoinedRing
<1>10. /\ DOMAIN g = D /\ g \in [DOMAIN g -> NodeType]
       /\ \A n \in D : g[n].data = h[n].data /\ (n \notin ToSet(t) => g[n] = h[n])
  BY <1>9 DEF Relinked
<1>11. /\ RingInv([ls EXCEPT ![l] = u], g)
       /\ Contents([ls EXCEPT ![l] = u], g) = [Contents(ls, h) EXCEPT ![l] = L!Data(g, t)]
  <2>1. u.live \/ u.size = 0
    BY <1>8
  <2>2. DOMAIN g \subseteq Nodes
    BY <1>2, <1>10
  <2>3. ToSet(t) = ToSet(r[l])
    BY <1>7 DEF X
  <2>4. \A n : n \in DOMAIN g <=> (n \in DOMAIN h /\ n \notin ToSet(r[l])) \/ n \in ToSet(t)
    BY <1>3, <1>10, <2>3 DEF X
  <2>5. \A n \in ToSet(t) : n \in ToSet(r[l]) \/ n \notin DOMAIN h
    BY <2>3
  <2>6. \A n \in DOMAIN h : n \notin ToSet(r[l]) => g[n] = h[n]
    BY <1>10, <2>3
  <2>7. t \in Seq(Nodes) /\ u \in ListType /\ Ringed(g, u, t) /\ g \in [DOMAIN g -> NodeType]
    BY <1>7, <1>8, <1>9, <1>10
  <2> HIDE DEF D
  <2>8. QED
    BY <2>1, <2>2, <2>4, <2>5, <2>6, <2>7, RingFrame
<1>12. SortedBy(L!Data(h, s), L!Data(g, t), TRUE)
  <2> DEFINE c == L!Data(h, s)
             d == L!Data(g, t)
  <2>1. DOMAIN c = 1 .. Len(s) /\ \A i \in 1 .. Len(s) : c[i] = h[s[i]].data
    BY <1>1, DataIs
  <2>2. DOMAIN d = 1 .. Len(s) /\ \A i \in 1 .. Len(s) : d[i] = g[t[i]].data
    BY <1>7, DataIs
  <2>3. Len(c) = Len(s) /\ Len(d) = Len(s)
    BY <1>1, <2>1, <2>2
  <2> HIDE DEF c, d
  <2>4. ASSUME NEW i \in 1 .. Len(s) PROVE key[s[i]] = ListKey(c[i])
    <3>1. s[i] \in D
      BY <1>1, <1>3, InSet DEF X
    <3>2. QED
      BY <2>1, <3>1 DEF KeyOf
  <2>5. ASSUME NEW i \in 1 .. Len(s), NEW j \in 1 .. Len(s), t[i] = s[j] PROVE d[i] = c[j]
    <3>1. g[t[i]].data = h[t[i]].data
      BY <1>3, <1>7, <1>10
    <3>2. QED
      BY <2>1, <2>2, <2>5, <3>1
  <2>6. Ordered(t, s, key, TRUE) /\ TRUE \in BOOLEAN
    BY <1>5 DEF Ordered
  <2> HIDE DEF D
  <2>7. s \in Seq(Nodes) /\ Arranges(t, s, X)
    BY <1>1, <1>5
  <2>8. Follows(c, d, s, t, key)
    BY <2>1, <2>2, <2>3, <2>4, <2>5 DEF Follows
  <2>9. SortedBy(c, d, TRUE)
    BY <1>4, <2>6, <2>7, <2>8, SortedData
  <2>10. QED
    BY <2>9 DEF c, d
<1>13. QED
  BY <1>11, <1>12

(* No list has a node at first. *)
LEMMA NoNodes ==
  ASSUME NEW ls, ls = [l \in Lists |-> L!Fresh], NEW h, h = << >>
  PROVE  RingInv(ls, h) /\ Contents(ls, h) = [l \in Lists |-> << >>]
<1> DEFINE none == << >>
           r == [l \in Lists |-> none]
<1>1. none \in Seq(Nodes) /\ Len(none) = 0 /\ ToSet(none) = {} /\ L!Data(h, none) = none
  BY DEF ToSet, L!Data
<1>2. DOMAIN h = {} /\ h \in [DOMAIN h -> NodeType]
  OBVIOUS
<1> HIDE DEF none
<1>3. r \in [Lists -> Seq(Nodes)] /\ \A l \in Lists : r[l] = none
  BY <1>1
<1>4. ls \in [Lists -> ListType] /\ \A l \in Lists : ls[l].front = Null /\ ls[l].size = 0
  BY DEF L!Fresh, ListType
<1> HIDE DEF r
<1>5. \A l \in Lists : Ringed(h, ls[l], r[l])
  BY <1>1, <1>3, <1>4 DEF Ringed, Distinct, Front1
<1>6. Rings(ls, h, r)
  BY <1>1, <1>2, <1>3, <1>5 DEF Rings
<1>7. Typed(ls, h)
  BY <1>2, <1>4 DEF Typed
<1>8. Contents(ls, h) = [l \in Lists |-> none]
  BY <1>1, <1>3, <1>6, ContentsIs
<1>9. QED
  BY <1>6, <1>7, <1>8 DEF RingInv, none

\* list_swap exchanges the structures.
Exchanged(f, l, m) == [f EXCEPT ![l] = f[m], ![m] = f[l]]

Other(k, l, m) == IF k = m THEN l ELSE IF k = l THEN m ELSE k

Exchanges(g, f, X, l, m) == g = [k \in X |-> g[k]] /\ \A k \in X : g[k] = f[Other(k, l, m)]

(* An exchange as a function of the index. *)
LEMMA ExchangedFacts ==
  ASSUME NEW X, NEW f, DOMAIN f = X, NEW l \in X, NEW m \in X
  PROVE  Exchanges(Exchanged(f, l, m), f, X, l, m)
BY DEF Exchanged, Exchanges, Other

(* A swap exchanges rings and elements. *)
LEMMA SwapInv ==
  ASSUME NEW ls, NEW h, RingInv(ls, h), NEW l \in Lists, NEW m \in Lists
  PROVE  /\ RingInv(Exchanged(ls, l, m), h)
         /\ Contents(Exchanged(ls, l, m), h) = Exchanged(Contents(ls, h), l, m)
<1>1. Typed(ls, h)
  BY DEF RingInv
<1>2. PICK r : Rings(ls, h, r)
  BY DEF RingInv
<1> DEFINE at(k) == Other(k, l, m)
           ms == Exchanged(ls, l, m)
           t == Exchanged(r, l, m)
           c == Contents(ls, h)
<1>3. \A k \in Lists : at(k) \in Lists /\ at(at(k)) = k
  BY DEF Other
<1>4. DOMAIN ls = Lists /\ DOMAIN r = Lists /\ DOMAIN c = Lists
  BY <1>1, <1>2 DEF Typed, Rings, Contents
<1>5. Exchanges(ms, ls, Lists, l, m) /\ Exchanges(t, r, Lists, l, m)
  BY <1>4, ExchangedFacts
<1>6. Exchanges(Exchanged(c, l, m), c, Lists, l, m)
  <2> HIDE DEF c
  <2>1. QED
    BY <1>4, ExchangedFacts
<1> HIDE DEF ms, t
<1>7. DOMAIN ms = Lists /\ ms = [k \in Lists |-> ms[k]] /\ \A k \in Lists : ms[k] = ls[at(k)]
  BY <1>5 DEF Exchanges
<1>8. DOMAIN t = Lists /\ t = [k \in Lists |-> t[k]] /\ \A k \in Lists : t[k] = r[at(k)]
  BY <1>5 DEF Exchanges
<1>9. Exchanged(c, l, m) = [k \in Lists |-> c[at(k)]]
  <2> DEFINE d == Exchanged(c, l, m)
  <2> HIDE DEF d, c
  <2>1. d = [k \in Lists |-> d[k]] /\ \A k \in Lists : d[k] = c[at(k)]
    BY <1>6 DEF Exchanges, d
  <2>2. d = [k \in Lists |-> c[at(k)]]
    BY <2>1
  <2>3. QED
    BY <2>2 DEF d
<1> HIDE DEF at
<1>10. ms \in [Lists -> ListType] /\ t \in [Lists -> Seq(Nodes)]
  <2>1. \A k \in Lists : ms[k] \in ListType
    BY <1>1, <1>3, <1>7 DEF Typed
  <2>2. \A k \in Lists : t[k] \in Seq(Nodes)
    BY <1>2, <1>3, <1>8 DEF Rings
  <2>3. QED
    BY <1>7, <1>8, <2>1, <2>2
<1>11. Typed(ms, h)
  BY <1>1, <1>3, <1>7, <1>10 DEF Typed
<1>12. Rings(ms, h, t)
  <2>1. \A k \in Lists : Ringed(h, ms[k], t[k])
    BY <1>2, <1>3, <1>7, <1>8 DEF Rings
  <2>2. \A n : n \in DOMAIN h <=> \E k \in Lists : n \in ToSet(t[k])
    <3> TAKE n
    <3>1. n \in DOMAIN h <=> \E k \in Lists : n \in ToSet(r[k])
      BY <1>2 DEF Rings
    <3>2. (\E k \in Lists : n \in ToSet(r[k])) <=> \E k \in Lists : n \in ToSet(t[k])
      BY <1>3, <1>8
    <3>3. QED
      BY <3>1, <3>2
  <2>3. \A j, k \in Lists : \A n : n \in ToSet(t[j]) /\ n \in ToSet(t[k]) => j = k
    <3> SUFFICES ASSUME NEW j \in Lists, NEW k \in Lists, NEW n, n \in ToSet(t[j]), n \in ToSet(t[k]) PROVE j = k
      OBVIOUS
    <3>1. at(j) = at(k)
      BY <1>2, <1>3, <1>8 DEF Rings
    <3>2. QED
      BY <1>3, <3>1
  <2>4. QED
    BY <1>10, <2>1, <2>2, <2>3 DEF Rings
<1>13. Contents(ms, h) = [k \in Lists |-> c[at(k)]]
  <2>1. \A k \in Lists : c[at(k)] = L!Data(h, L!Ring(h, ms[k]))
    BY <1>3, <1>7 DEF Contents
  <2>2. QED
    BY <2>1 DEF Contents
<1>14. QED
  BY <1>9, <1>11, <1>12, <1>13 DEF RingInv, ms

(* What a call finds in a list. *)
LEMMA ListFacts ==
  ASSUME NEW ls, NEW h, Typed(ls, h), NEW r, Rings(ls, h, r), NEW l \in Lists, NEW q, q = ls[l], NEW s, s = r[l]
  PROVE  /\ q \in ListType /\ s \in Seq(Nodes) /\ Len(s) \in Nat /\ q.size = Len(s) /\ L!Ring(h, q) = s
         /\ Len(s) = 0 => q.front = Null
         /\ Len(s) > 0 => q.front = s[1] /\ q.front \in Nodes /\ q.front # Null /\ h[q.front].prev = s[Len(s)]
         /\ Len(s) > 1 => h[q.front].next = s[2]
         /\ ~ q.live => Len(s) = 0
         /\ Contents(ls, h)[l] = L!Data(h, s) /\ Len(L!Data(h, s)) = Len(s)
         /\ L!Data(h, s) \in Seq(ListElems)
<1>1. q \in ListType /\ (q.live \/ q.size = 0) /\ h \in [DOMAIN h -> NodeType]
  BY DEF Typed
<1>2. Ringed(h, q, s) /\ s \in Seq(Nodes) /\ \A n \in ToSet(s) : n \in DOMAIN h
  BY DEF Rings
<1>3. Len(s) \in Nat /\ q.size = Len(s) /\ q.front = Front1(s) /\ \A i \in 1 .. Len(s) : Linkage(h, s, i)
  BY <1>2 DEF Ringed
<1>4. L!Ring(h, q) = s
  BY <1>2, RingIs
<1>5. ASSUME Len(s) > 0 PROVE q.front = s[1] /\ q.front \in Nodes /\ q.front # Null /\ h[q.front].prev = s[Len(s)]
  <2>1. 1 \in 1 .. Len(s) /\ Len(s) \in 1 .. Len(s) /\ Len(s) # 0
    BY <1>3, <1>5
  <2>2. q.front = s[1] /\ s[1] \in Nodes
    BY <1>2, <1>3, <2>1 DEF Front1
  <2>3. h[s[1]].prev = s[Len(s)]
    BY <1>3, <2>1 DEF Linkage, After
  <2>4. QED
    BY <2>2, <2>3, ListsAssumption
<1>6. ASSUME Len(s) > 1 PROVE h[q.front].next = s[2]
  <2>1. 1 \in 1 .. Len(s) /\ Len(s) # 1 /\ Len(s) > 0
    <3> DEFINE n == Len(s)
    <3>1. n \in Nat /\ n > 1
      BY <1>3, <1>6
    <3> HIDE DEF n
    <3>2. 1 \in 1 .. n /\ n # 1 /\ n > 0
      BY <3>1
    <3>3. QED
      BY <3>2 DEF n
  <2>2. h[s[1]].next = s[2]
    <3>1. Linkage(h, s, 1) /\ After(1, Len(s)) = 2
      BY <1>3, <2>1 DEF After
    <3>2. QED
      BY <3>1 DEF Linkage
  <2>3. QED
    BY <1>5, <2>1, <2>2
<1>7. Contents(ls, h)[l] = L!Data(h, s)
  BY <1>4 DEF Contents
<1>8. Len(L!Data(h, s)) = Len(s) /\ L!Data(h, s) \in Seq(ListElems)
  <2>1. s \in Seq(DOMAIN h)
    <3>1. s = [i \in 1 .. Len(s) |-> s[i]] /\ \A i \in 1 .. Len(s) : s[i] \in DOMAIN h
      BY <1>2, InSet
    <3> DEFINE n == Len(s)
               D == DOMAIN h
    <3> HIDE DEF n, D
    <3>2. [i \in 1 .. n |-> s[i]] \in Seq(D)
      BY <1>3, <3>1 DEF n, D
    <3>3. QED
      BY <3>1, <3>2 DEF n, D
  <2>2. QED
    BY <1>1, <2>1, DataSeq
<1>9. Len(s) = 0 => q.front = Null
  BY <1>3 DEF Front1
<1>10. QED
  BY <1>1, <1>2, <1>3, <1>4, <1>5, <1>6, <1>7, <1>8, <1>9

(* The first and the last elements of a sequence. *)
LEMMA Pieces ==
  ASSUME NEW X, NEW c \in Seq(X), NEW p \in 1 .. Len(c) + 1,
         NEW a, a = SubSeq(c, 1, p - 1), NEW b, b = SubSeq(c, p, Len(c))
  PROVE  /\ a \in Seq(X) /\ Len(a) = p - 1 /\ \A i \in 1 .. p - 1 : a[i] = c[i]
         /\ b \in Seq(X) /\ Len(b) = Len(c) - p + 1 /\ \A i \in 1 .. Len(c) - p + 1 : b[i] = c[p + i - 1]
<1>1. Len(c) \in Nat /\ p \in Int /\ p - 1 \in Int /\ Len(c) \in Int /\ 1 \in Int
  OBVIOUS
<1>2. (\A i \in 1 .. p - 1 : c[i] \in X) /\ (\A i \in p .. Len(c) : c[i] \in X)
  OBVIOUS
<1>3. /\ a \in Seq(X) /\ Len(a) = IF 1 <= p - 1 THEN p - 1 - 1 + 1 ELSE 0
      /\ \A i \in 1 .. p - 1 - 1 + 1 : a[i] = c[1 + i - 1]
  <2>1. /\ SubSeq(c, 1, p - 1) \in Seq(X) /\ Len(SubSeq(c, 1, p - 1)) = IF 1 <= p - 1 THEN p - 1 - 1 + 1 ELSE 0
        /\ \A i \in 1 .. p - 1 - 1 + 1 : SubSeq(c, 1, p - 1)[i] = c[1 + i - 1]
    BY <1>1, <1>2, SubSeqProperties
  <2>2. QED
    BY <2>1
<1>4. /\ b \in Seq(X) /\ Len(b) = IF p <= Len(c) THEN Len(c) - p + 1 ELSE 0
      /\ \A i \in 1 .. Len(c) - p + 1 : b[i] = c[p + i - 1]
  <2>1. /\ SubSeq(c, p, Len(c)) \in Seq(X) /\ Len(SubSeq(c, p, Len(c))) = IF p <= Len(c) THEN Len(c) - p + 1 ELSE 0
        /\ \A i \in 1 .. Len(c) - p + 1 : SubSeq(c, p, Len(c))[i] = c[p + i - 1]
    BY <1>1, <1>2, SubSeqProperties
  <2>2. QED
    BY <2>1
<1>5. Len(a) = p - 1 /\ \A i \in 1 .. p - 1 : a[i] = c[i]
  <2>1. p - 1 - 1 + 1 = p - 1 /\ \A i \in 1 .. p - 1 : 1 + i - 1 = i
    BY <1>1
  <2>2. QED
    BY <1>1, <1>3, <2>1
<1>6. Len(b) = Len(c) - p + 1
  BY <1>1, <1>4
<1>7. QED
  BY <1>3, <1>4, <1>5, <1>6

(* An insertion, element by element. *)
LEMMA InsertAtIs ==
  ASSUME NEW X, NEW c \in Seq(X), NEW e \in X, NEW p \in 1 .. Len(c) + 1
  PROVE  InsertAt(c, p, e) = Inserted(c, p, e)
<1> DEFINE a == SubSeq(c, 1, p - 1)
           b == SubSeq(c, p, Len(c))
           o == << e >>
           t == Inserted(c, p, e)
           N == Len(c) + 1
<1>1. Len(c) \in Nat /\ N \in Nat /\ p \in Nat
  OBVIOUS
<1>2. o \in Seq(X) /\ Len(o) = 1 /\ o[1] = e
  OBVIOUS
<1>3. /\ a \in Seq(X) /\ Len(a) = p - 1 /\ \A i \in 1 .. p - 1 : a[i] = c[i]
      /\ b \in Seq(X) /\ Len(b) = Len(c) - p + 1 /\ \A i \in 1 .. Len(c) - p + 1 : b[i] = c[p + i - 1]
  <2> HIDE DEF a, b
  <2>1. QED
    BY Pieces DEF a, b
<1>4. InsertAt(c, p, e) = (a \o o) \o b
  BY DEF InsertAt
<1>5. t \in Seq(X) /\ Len(t) = N /\ \A i \in 1 .. N : t[i] = IF i < p THEN c[i] ELSE IF i = p THEN e ELSE c[i - 1]
  BY InsertedFacts DEF Inserted
<1> HIDE DEF a, b, o, t
<1> DEFINE d == a \o o
<1>6. d \in Seq(X) /\ Len(d) = p /\ \A i \in 1 .. p : d[i] = IF i < p THEN c[i] ELSE e
  <2>1. d \in Seq(X) /\ Len(d) = Len(a) + Len(o)
        /\ \A i \in 1 .. Len(a) + Len(o) : d[i] = IF i <= Len(a) THEN a[i] ELSE o[i - Len(a)]
    BY <1>2, <1>3, ConcatProperties
  <2>2. Len(a) + Len(o) = p
    BY <1>1, <1>2, <1>3
  <2>3. \A i \in 1 .. p : /\ i < p => i <= Len(a) /\ i \in 1 .. p - 1
                          /\ ~ (i < p) => ~ (i <= Len(a)) /\ i - Len(a) = 1
    BY <1>1, <1>3
  <2> HIDE DEF d
  <2>4. QED
    BY <1>2, <1>3, <2>1, <2>2, <2>3
<1> HIDE DEF d
<1>7. LET g == d \o b IN
      g \in Seq(X) /\ Len(g) = N /\ \A i \in 1 .. N : g[i] = t[i]
  <2> DEFINE g == d \o b
  <2>1. g \in Seq(X) /\ Len(g) = Len(d) + Len(b)
        /\ \A i \in 1 .. Len(d) + Len(b) : g[i] = IF i <= Len(d) THEN d[i] ELSE b[i - Len(d)]
    BY <1>3, <1>6, ConcatProperties
  <2> HIDE DEF g
  <2>2. Len(d) + Len(b) = N
    BY <1>1, <1>3, <1>6
  <2>3. ASSUME NEW i \in 1 .. N PROVE g[i] = t[i]
    <3>1. CASE i <= p
      <4>1. i \in 1 .. p /\ i <= Len(d) /\ (~ (i < p) => i = p)
        BY <1>1, <1>6, <3>1
      <4>2. QED
        BY <1>5, <1>6, <2>1, <2>2, <4>1
    <3>2. CASE ~ (i <= p)
      <4>1. i - p \in 1 .. Len(c) - p + 1 /\ p + (i - p) - 1 = i - 1 /\ ~ (i <= Len(d)) /\ ~ (i < p) /\ i # p
        BY <1>1, <1>6, <3>2
      <4>2. g[i] = b[i - p]
        BY <1>6, <2>1, <2>2, <4>1
      <4>3. b[i - p] = c[i - 1]
        BY <1>3, <4>1
      <4>4. QED
        BY <1>5, <4>1, <4>2, <4>3
    <3>3. QED
      BY <3>1, <3>2
  <2>4. QED
    BY <2>1, <2>2, <2>3 DEF g
<1>8. d \o b = t
  BY <1>5, <1>7, SeqEqual
<1>9. QED
  BY <1>4, <1>8 DEF d, t

(* A removal, element by element. *)
LEMMA RemoveAtIs ==
  ASSUME NEW X, NEW c \in Seq(X), NEW p \in 1 .. Len(c)
  PROVE  RemoveAt(c, p) = Cut(c, p)
<1> DEFINE a == SubSeq(c, 1, p - 1)
           b == SubSeq(c, p + 1, Len(c))
           t == Cut(c, p)
           M == Len(c) - 1
<1>1. Len(c) \in Nat /\ M \in Nat /\ p \in Nat /\ p \in 1 .. Len(c) + 1 /\ p + 1 \in 1 .. Len(c) + 1
  OBVIOUS
<1>2. a \in Seq(X) /\ Len(a) = p - 1 /\ \A i \in 1 .. p - 1 : a[i] = c[i]
  <2> HIDE DEF a
  <2>1. QED
    BY <1>1, Pieces DEF a
<1>3. b \in Seq(X) /\ Len(b) = Len(c) - (p + 1) + 1 /\ \A i \in 1 .. Len(c) - (p + 1) + 1 : b[i] = c[(p + 1) + i - 1]
  <2> HIDE DEF b
  <2>1. QED
    BY <1>1, Pieces DEF b
<1>4. RemoveAt(c, p) = a \o b
  BY DEF RemoveAt
<1>5. t \in Seq(X) /\ Len(t) = M /\ \A i \in 1 .. M : t[i] = IF i < p THEN c[i] ELSE c[i + 1]
  BY CutFacts DEF Cut
<1> HIDE DEF a, b, t
<1> DEFINE g == a \o b
<1>6. g \in Seq(X) /\ Len(g) = Len(a) + Len(b)
      /\ \A i \in 1 .. Len(a) + Len(b) : g[i] = IF i <= Len(a) THEN a[i] ELSE b[i - Len(a)]
  BY <1>2, <1>3, ConcatProperties
<1> HIDE DEF g
<1>7. Len(a) + Len(b) = M
  BY <1>1, <1>2, <1>3
<1>8. ASSUME NEW i \in 1 .. M PROVE g[i] = t[i]
  <2>1. CASE i < p
    <3>1. i <= Len(a) /\ i \in 1 .. p - 1
      BY <1>1, <1>2, <2>1
    <3>2. QED
      BY <1>2, <1>5, <1>6, <1>7, <2>1, <3>1
  <2>2. CASE ~ (i < p)
    <3>1. ~ (i <= Len(a)) /\ i - (p - 1) \in 1 .. Len(c) - (p + 1) + 1 /\ (p + 1) + (i - (p - 1)) - 1 = i + 1
      BY <1>1, <1>2, <2>2
    <3>2. g[i] = b[i - (p - 1)]
      BY <1>2, <1>6, <1>7, <3>1
    <3>3. b[i - (p - 1)] = c[i + 1]
      BY <1>3, <3>1
    <3>4. QED
      BY <1>5, <2>2, <3>2, <3>3
  <2>3. QED
    BY <2>1, <2>2
<1>9. g = t
  BY <1>5, <1>6, <1>7, <1>8, SeqEqual
<1>10. QED
  BY <1>4, <1>9 DEF g, t

Codes == {"CS_SUCCESS", "CS_MEM", "CS_EMPTY", "CS_POS"}

\* What the lists, the heap and the answers are always like.
ListInv == RingInv(list, heap) /\ lret \in Codes \cup {"crash"}

(* An operation that succeeds changes the elements of its list only. *)
LEMMA ListBecomes ==
  ASSUME lret # "crash", NEW l \in Lists, list \in [Lists -> ListType], list[l].live, NEW q, q.live, q \in ListType,
         NEW g, NEW d, L!Becomes(l, q, g), RingInv([list EXCEPT ![l] = q], g),
         Contents([list EXCEPT ![l] = q], g) = [Contents(list, heap) EXCEPT ![l] = d]
  PROVE  ListInv' /\ L!Abs!Becomes(l, d)
<1>1. list' = [list EXCEPT ![l] = q] /\ heap' = g /\ lret' = "CS_SUCCESS"
  BY DEF L!Becomes
<1>2. RingInv(list', heap') /\ Contents(list', heap') = [Contents(list, heap) EXCEPT ![l] = d]
  BY <1>1
<1>3. {k \in Lists : list'[k].live} = {k \in Lists : list[k].live}
  BY <1>1 DEF ListType
<1>4. ListInv'
  BY <1>1, <1>2 DEF ListInv, Codes
<1>5. L!Abs!Becomes(l, d)
  BY <1>1, <1>2, <1>3 DEF L!Abs!Becomes, Contents, L!Announced
<1>6. QED
  BY <1>4, <1>5

(* A refused call changes nothing. *)
LEMMA ListRefuses ==
  ASSUME ListInv, lret # "crash", NEW code \in Codes, L!Refuse(code), NEW a,
         a = IF code \in {"CS_EMPTY", "CS_POS"} THEN "CS_SIZE" ELSE code
  PROVE  ListInv' /\ L!Abs!Refuse(a)
<1>1. list' = list /\ heap' = heap /\ lret' = code /\ code # "crash"
  BY DEF L!Refuse, Codes
<1>2. ListInv'
  BY <1>1 DEF ListInv
<1>3. L!Abs!Refuse(a)
  BY <1>1 DEF L!Abs!Refuse, L!Announced
<1>4. QED
  BY <1>2, <1>3

\* The steps of sequences that the operations of lists are.

ListLive(l) == l \in Lists /\ list[l].live

\* The elements of l.
Elements(l) == Contents(list, heap)[l]

(* A push is an insertion into the sequence, or is refused for want of memory. *)
LEMMA AbsInsert ==
  ASSUME NEW l, ListLive(l), NEW e \in ListElems, Len(Elements(l)) \in Nat, NEW i \in 0 .. Len(Elements(l)),
         L!Abs!Becomes(l, InsertAt(Elements(l), i + 1, e)) \/ L!Abs!Refuse("CS_MEM")
  PROVE  L!Abs!Next
<1>1. L!Abs!Insert(l, e, i)
  BY DEF L!Abs!Insert, ListLive, Elements, Contents, L!Abs!InsertAt, InsertAt
<1>2. l \in Lists /\ i \in -1 .. Len(Elements(l)) + 1
  BY DEF ListLive
<1>3. QED
  BY <1>1, <1>2 DEF L!Abs!Next, Elements, Contents

(* The removal of a node is one of an element. *)
LEMMA AbsErase ==
  ASSUME NEW l, ListLive(l), Len(Elements(l)) \in Nat, NEW i \in 0 .. Len(Elements(l)) - 1,
         L!Abs!Becomes(l, RemoveAt(Elements(l), i + 1))
  PROVE  L!Abs!Next
<1>1. L!Abs!Erase(l, i)
  BY DEF L!Abs!Erase, ListLive, Elements, Contents, L!Abs!RemoveAt, RemoveAt
<1>2. l \in Lists /\ i \in -1 .. Len(Elements(l)) + 1
  BY DEF ListLive
<1>3. QED
  BY <1>1, <1>2 DEF L!Abs!Next, Elements, Contents

(* The answers of refused calls are those of sequences. *)
LEMMA AbsRefuse ==
  ASSUME NEW l, ListLive(l), Len(Elements(l)) \in Nat, NEW code, L!Abs!Refuse(code),
         \/ code \in {"CS_SUCCESS", "CS_MEM"}
         \/ code = "CS_SIZE" /\ Elements(l) = << >>
         \/ code = "CS_SIZE" /\ \E i \in -1 .. Len(Elements(l)) + 1 : i \notin 0 .. Len(Elements(l)) - 1
  PROVE  L!Abs!Next
<1>1. CASE code \in {"CS_SUCCESS", "CS_MEM"}
  <2>1. L!Abs!Resize(l)
    BY <1>1 DEF L!Abs!Resize, ListLive
  <2>2. QED
    BY <2>1 DEF L!Abs!Next, ListLive
<1>2. CASE code = "CS_SIZE" /\ Elements(l) = << >>
  <2>1. L!Abs!PopFront(l)
    BY <1>2 DEF L!Abs!PopFront, ListLive, Elements, Contents
  <2>2. QED
    BY <2>1 DEF L!Abs!Next, ListLive
<1>3. CASE code = "CS_SIZE" /\ \E i \in -1 .. Len(Elements(l)) + 1 : i \notin 0 .. Len(Elements(l)) - 1
  <2>1. PICK i \in -1 .. Len(Elements(l)) + 1 : i \notin 0 .. Len(Elements(l)) - 1
    BY <1>3
  <2>2. L!Abs!Erase(l, i)
    BY <1>3, <2>1 DEF L!Abs!Erase, ListLive, Elements, Contents
  <2>3. QED
    BY <2>1, <2>2 DEF L!Abs!Next, ListLive, Elements, Contents
<1>4. QED
  BY <1>1, <1>2, <1>3

(* A list that loses all nodes is cleared. *)
LEMMA AbsClear ==
  ASSUME NEW l, ListLive(l), L!Abs!Becomes(l, << >>)
  PROVE  L!Abs!Next
<1>1. L!Abs!Clear(l)
  BY DEF L!Abs!Clear, ListLive
<1>2. QED
  BY <1>1 DEF L!Abs!Next, ListLive

(* A sort of a list is one of its sequence. *)
LEMMA AbsSort ==
  ASSUME NEW l, ListLive(l), NEW d, L!Abs!Becomes(l, d), L!Abs!IsSorting(Elements(l), d, "comp")
  PROVE  L!Abs!Next
<1> DEFINE c == [k \in Lists |-> L!Data(heap, L!Ring(heap, list[k]))]
<1>1. c' = [c EXCEPT ![l] = d] /\ DOMAIN c = Lists
  BY DEF L!Abs!Becomes
<1> HIDE DEF c
<1>2. c'[l] = d
  BY <1>1 DEF ListLive
<1>3. L!Abs!Sort(l)
  BY <1>2 DEF L!Abs!Sort, ListLive, Elements, Contents, c
<1>4. QED
  BY <1>3 DEF L!Abs!Next, ListLive

\* r has the nodes of each list.
Now(r) == ListInv /\ lret # "crash" /\ Typed(list, heap) /\ Rings(list, heap, r)

(* What a call finds in a list, in any state. *)
LEMMA NowFacts ==
  ASSUME NEW r, Now(r), NEW l \in Lists, NEW q, q = list[l], NEW s, s = r[l]
  PROVE  /\ list \in [Lists -> ListType]
         /\ q \in ListType /\ s \in Seq(Nodes) /\ Len(s) \in Nat /\ q.size = Len(s) /\ L!Ring(heap, q) = s
         /\ Elements(l) = L!Data(heap, s) /\ Elements(l) \in Seq(ListElems) /\ Len(Elements(l)) = Len(s)
<1>1. Typed(list, heap) /\ Rings(list, heap, r)
  BY DEF Now
<1>2. list \in [Lists -> ListType]
  BY <1>1 DEF Typed
<1>3. /\ q \in ListType /\ s \in Seq(Nodes) /\ Len(s) \in Nat /\ q.size = Len(s) /\ L!Ring(heap, q) = s
      /\ Contents(list, heap)[l] = L!Data(heap, s) /\ Len(L!Data(heap, s)) = Len(s)
      /\ L!Data(heap, s) \in Seq(ListElems)
  BY <1>1, ListFacts
<1>4. QED
  BY <1>2, <1>3 DEF Elements

(* A call that is refused. *)
LEMMA ListRefuseStep ==
  ASSUME NEW r, Now(r), NEW l, ListLive(l), NEW code \in Codes, L!Refuse(code),
         \/ code \in {"CS_SUCCESS", "CS_MEM"}
         \/ code = "CS_EMPTY" /\ Len(r[l]) = 0
         \/ code = "CS_POS" /\ \E i \in -1 .. Len(r[l]) + 1 : i \notin 0 .. Len(r[l]) - 1
  PROVE  ListInv' /\ L!Abs!Next
<1> PICK a : a = IF code \in {"CS_EMPTY", "CS_POS"} THEN "CS_SIZE" ELSE code
  OBVIOUS
<1>1. ListInv' /\ L!Abs!Refuse(a)
  BY ListRefuses DEF Now
<1>2. Elements(l) \in Seq(ListElems) /\ Len(Elements(l)) = Len(r[l]) /\ Len(Elements(l)) \in Nat
  BY NowFacts DEF ListLive
<1>3. Len(r[l]) = 0 => Elements(l) = << >>
  BY <1>2, EmptySeq
<1>4. L!Abs!Next
  BY <1>1, <1>2, <1>3, AbsRefuse
<1>5. QED
  BY <1>1, <1>4

(* list_push_front and list_push_back. *)
LEMMA ListPushStep ==
  ASSUME NEW r, Now(r), NEW l, ListLive(l), NEW e \in ListElems, NEW first \in BOOLEAN, L!Push(l, e, first)
  PROVE  ListInv' /\ L!Abs!Next
<1> DEFINE q == list[l]
           s == r[l]
           p == PushedAt(s, first)
<1>1. l \in Lists /\ q.live /\ Typed(list, heap) /\ Rings(list, heap, r)
  BY DEF ListLive, Now
<1>2. /\ list \in [Lists -> ListType] /\ q \in ListType /\ Len(s) \in Nat
      /\ Elements(l) = L!Data(heap, s) /\ Elements(l) \in Seq(ListElems) /\ Len(Elements(l)) = Len(s)
  BY <1>1, NowFacts
<1>3. CASE L!Refuse("CS_MEM")
  BY <1>3, ListRefuseStep DEF Codes
<1>4. CASE \E n \in Nodes \ DOMAIN heap : L!Becomes(l, Pushed(q, n, first), PushedHeap(heap, q, n, e))
  <2>1. PICK n \in Nodes : n \notin DOMAIN heap /\ L!Becomes(l, Pushed(q, n, first), PushedHeap(heap, q, n, e))
    BY <1>4
  <2> DEFINE u == Pushed(q, n, first)
             g == PushedHeap(heap, q, n, e)
             d == Inserted(Elements(l), p, e)
  <2>2. RingInv([list EXCEPT ![l] = u], g) /\ Contents([list EXCEPT ![l] = u], g) = [Contents(list, heap) EXCEPT ![l] = d]
    <3>1. /\ RingInv([list EXCEPT ![l] = u], g)
          /\ Contents([list EXCEPT ![l] = u], g) =
               [Contents(list, heap) EXCEPT ![l] = Inserted(L!Data(heap, s), p, e)]
      <4> HIDE DEF q
      <4>1. q = list[l]
        BY DEF q
      <4> HIDE DEF g
      <4>2. QED
        BY <1>1, <2>1, <4>1, PushInv DEF g
    <3> HIDE DEF u, g, p
    <3>2. QED
      BY <1>2, <3>1
  <2>3. u \in ListType /\ u.live
    <3>1. [list EXCEPT ![l] = u] \in [Lists -> ListType] /\ [list EXCEPT ![l] = u][l] = u
      <4> HIDE DEF u, g
      <4>1. QED
        BY <1>1, <1>2, <2>2 DEF RingInv, Typed
    <3>2. u.live = q.live
      BY <1>2 DEF Pushed, ListType
    <3> HIDE DEF u
    <3>3. u \in ListType
      BY <1>1, <3>1
    <3>4. QED
      BY <1>1, <3>2, <3>3
  <2>4. L!Becomes(l, u, g)
    BY <2>1
  <2> HIDE DEF u, g, d
  <2>5. ListInv' /\ L!Abs!Becomes(l, d)
    BY <1>1, <1>2, <2>2, <2>3, <2>4, ListBecomes DEF Now
  <2> DEFINE i == p - 1
  <2>6. i \in 0 .. Len(Elements(l)) /\ p = i + 1 /\ p \in 1 .. Len(Elements(l)) + 1
    BY <1>2 DEF PushedAt
  <2>7. d = InsertAt(Elements(l), i + 1, e)
    <3> HIDE DEF p
    <3>1. QED
      BY <1>2, <2>6, InsertAtIs DEF d
  <2>8. L!Abs!Becomes(l, InsertAt(Elements(l), i + 1, e))
    BY <2>5, <2>7
  <2> HIDE DEF i
  <2>9. L!Abs!Next
    BY <1>2, <2>6, <2>8, AbsInsert
  <2>10. QED
    BY <2>5, <2>9
<1>5. QED
  BY <1>3, <1>4 DEF L!Push, L!NewNode, Pushed, PushedHeap, NodeAdded

\* l loses its node at index p of r[l].
LEMMA ListCutStep ==
  ASSUME NEW r, Now(r), NEW l, ListLive(l), NEW q, q = list[l], NEW s, s = r[l], NEW p \in 1 .. Len(s), Len(s) > 1,
         NEW n, n = s[p], L!Becomes(l, Shorter(q, s, p), L!Unlinked(heap, n))
  PROVE  ListInv' /\ L!Abs!Next
<1> DEFINE u == Shorter(q, s, p)
           g == L!Unlinked(heap, n)
           d == Cut(Elements(l), p)
<1>1. l \in Lists /\ q.live /\ Typed(list, heap) /\ Rings(list, heap, r)
  BY DEF ListLive, Now
<1>2. /\ list \in [Lists -> ListType] /\ q \in ListType /\ s \in Seq(Nodes) /\ Len(s) \in Nat /\ q.size = Len(s)
      /\ Elements(l) = L!Data(heap, s) /\ Elements(l) \in Seq(ListElems) /\ Len(Elements(l)) = Len(s)
  BY <1>1, NowFacts
<1>3. u \in ListType /\ u.live
  BY <1>1, <1>2, ShorterFacts
<1>4. L!Becomes(l, u, g) /\ u = Shorter(q, s, p) /\ g = L!Unlinked(heap, s[p])
  OBVIOUS
<1> HIDE DEF u, g
<1>5. RingInv([list EXCEPT ![l] = u], g) /\ Contents([list EXCEPT ![l] = u], g) = [Contents(list, heap) EXCEPT ![l] = d]
  <2>1. /\ RingInv([list EXCEPT ![l] = u], g)
        /\ Contents([list EXCEPT ![l] = u], g) = [Contents(list, heap) EXCEPT ![l] = Cut(L!Data(heap, s), p)]
    BY <1>1, <1>4, CutInv
  <2>2. QED
    BY <1>2, <2>1
<1> HIDE DEF d
<1>6. ListInv' /\ L!Abs!Becomes(l, d)
  BY <1>1, <1>2, <1>3, <1>4, <1>5, ListBecomes DEF Now
<1> DEFINE i == p - 1
<1>7. i \in 0 .. Len(Elements(l)) - 1 /\ p = i + 1 /\ p \in 1 .. Len(Elements(l))
  BY <1>2
<1>8. d = RemoveAt(Elements(l), i + 1)
  BY <1>2, <1>7, RemoveAtIs DEF d
<1>9. L!Abs!Becomes(l, RemoveAt(Elements(l), i + 1))
  BY <1>6, <1>8
<1> HIDE DEF i
<1>10. L!Abs!Next
  BY <1>2, <1>7, <1>9, AbsErase
<1>11. QED
  BY <1>6, <1>10

\* l loses all of its nodes.
LEMMA ListEmptyStep ==
  ASSUME NEW r, Now(r), NEW l, ListLive(l), L!Becomes(l, L!Fresh, L!Without(heap, ToSet(r[l])))
  PROVE  ListInv' /\ L!Abs!Next
<1> DEFINE u == L!Fresh
           g == L!Without(heap, ToSet(r[l]))
           d == << >>
<1>1. l \in Lists /\ list[l].live /\ Typed(list, heap) /\ Rings(list, heap, r) /\ list \in [Lists -> ListType]
  BY DEF ListLive, Now, Typed
<1>2. u \in ListType /\ u.live /\ u.size = 0 /\ u.front = Null
  BY DEF L!Fresh, ListType
<1>3. L!Becomes(l, u, g) /\ g = L!Without(heap, ToSet(r[l]))
  OBVIOUS
<1> HIDE DEF u, g
<1>4. RingInv([list EXCEPT ![l] = u], g) /\ Contents([list EXCEPT ![l] = u], g) = [Contents(list, heap) EXCEPT ![l] = d]
  <2>1. l \in Lists /\ Typed(list, heap) /\ Rings(list, heap, r) /\ u \in ListType /\ u.size = 0 /\ u.front = Null
        /\ g = L!Without(heap, ToSet(r[l]))
    BY <1>1, <1>2, <1>3
  <2>2. Emptied(list, heap, l, u, g)
    BY <2>1, EmptyInv
  <2>3. QED
    BY <2>2 DEF Emptied
<1> HIDE DEF d
<1>5. ListInv' /\ L!Abs!Becomes(l, d)
  BY <1>1, <1>2, <1>3, <1>4, ListBecomes DEF Now
<1>6. L!Abs!Next
  BY <1>5, AbsClear DEF d
<1>7. QED
  BY <1>5, <1>6

(* The pop of the first node. *)
LEMMA ListPopFirstStep ==
  ASSUME NEW r, Now(r), NEW l, ListLive(l), Len(r[l]) > 0, L!PopFirst(l)
  PROVE  ListInv' /\ L!Abs!Next
<1> DEFINE q == list[l]
           s == r[l]
<1>1. l \in Lists /\ Typed(list, heap) /\ Rings(list, heap, r)
  BY DEF ListLive, Now
<1>2. /\ s \in Seq(Nodes) /\ Len(s) \in Nat /\ q.size = Len(s) /\ q.front = s[1] /\ q \in ListType
      /\ Len(s) > 1 => heap[q.front].next = s[2]
  BY <1>1, ListFacts
<1>3. CASE Len(s) = 1
  <2>1. L!Becomes(l, L!Fresh, L!Without(heap, {q.front}))
    BY <1>2, <1>3 DEF L!PopFirst
  <2>2. ToSet(s) = {q.front}
    BY <1>2, <1>3, InSet
  <2>3. QED
    BY <2>1, <2>2, ListEmptyStep
<1>4. CASE Len(s) > 1
  <2>1. L!Becomes(l, [q EXCEPT !.size = @ - 1, !.front = heap[q.front].next], L!Unlinked(heap, q.front))
    BY <1>2, <1>4 DEF L!PopFirst
  <2>2. L!Becomes(l, Shorter(q, s, 1), L!Unlinked(heap, s[1]))
    BY <1>2, <1>4, <2>1 DEF Shorter
  <2>3. 1 \in 1 .. Len(s)
    BY <1>2, <1>4
  <2>4. QED
    BY <1>4, <2>2, <2>3, ListCutStep
<1>5. Len(s) = 1 \/ Len(s) > 1
  <2> DEFINE n == Len(s)
  <2>1. n \in Nat /\ n > 0
    BY <1>2
  <2> HIDE DEF n
  <2>2. n = 1 \/ n > 1
    BY <2>1
  <2>3. QED
    BY <2>2 DEF n
<1>6. QED
  BY <1>3, <1>4, <1>5

(* The removal of a node behind the front keeps the front. *)
LEMMA ShorterInside ==
  ASSUME NEW q \in ListType, NEW s, NEW p, p # 1
  PROVE  Shorter(q, s, p) = [q EXCEPT !.size = @ - 1]
BY DEF Shorter, ListType

(* The pop of the last node. *)
LEMMA ListPopLastStep ==
  ASSUME NEW r, Now(r), NEW l, ListLive(l), Len(r[l]) > 0, L!PopLast(l)
  PROVE  ListInv' /\ L!Abs!Next
<1> DEFINE q == list[l]
           s == r[l]
<1>1. l \in Lists /\ Typed(list, heap) /\ Rings(list, heap, r)
  BY DEF ListLive, Now
<1>2. /\ s \in Seq(Nodes) /\ Len(s) \in Nat /\ q.size = Len(s) /\ q.front = s[1] /\ q \in ListType
      /\ heap[q.front].prev = s[Len(s)]
  BY <1>1, ListFacts
<1>3. CASE Len(s) = 1
  <2>1. L!Becomes(l, L!Fresh, L!Without(heap, {q.front}))
    BY <1>2, <1>3 DEF L!PopLast
  <2>2. ToSet(s) = {q.front}
    BY <1>2, <1>3, InSet
  <2>3. QED
    BY <2>1, <2>2, ListEmptyStep
<1>4. CASE Len(s) > 1
  <2>1. L!Becomes(l, [q EXCEPT !.size = @ - 1], L!Unlinked(heap, s[Len(s)]))
    BY <1>2, <1>4 DEF L!PopLast
  <2>2. Shorter(q, s, Len(s)) = [q EXCEPT !.size = @ - 1]
    <3>1. Len(s) # 1
      BY <1>2, <1>4
    <3>2. QED
      BY <1>2, <3>1, ShorterInside
  <2>3. Len(s) \in 1 .. Len(s)
    BY <1>2, <1>4
  <2> DEFINE p == Len(s)
             n == s[p]
  <2> HIDE DEF p, n
  <2>4. L!Becomes(l, Shorter(q, s, p), L!Unlinked(heap, n)) /\ n = s[p] /\ p \in 1 .. Len(s)
    BY <2>1, <2>2, <2>3 DEF p, n
  <2>5. q = list[l] /\ s = r[l]
    OBVIOUS
  <2> HIDE DEF q, s
  <2>6. QED
    BY <1>4, <2>4, <2>5, ListCutStep
<1>5. Len(s) = 1 \/ Len(s) > 1
  <2> DEFINE n == Len(s)
  <2>1. n \in Nat /\ n > 0
    BY <1>2
  <2> HIDE DEF n
  <2>2. n = 1 \/ n > 1
    BY <2>1
  <2>3. QED
    BY <2>2 DEF n
<1>6. QED
  BY <1>3, <1>4, <1>5

(* Which of its branches list_erase takes. *)
LEMMA EraseCases ==
  ASSUME NEW l, NEW pos \in Int, list[l].size \in Nat, L!Erase(l, pos)
  PROVE  \/ list[l].size = 0 /\ L!Refuse("CS_EMPTY")
         \/ list[l].size > 0 /\ pos \notin 0 .. list[l].size - 1 /\ L!Refuse("CS_POS")
         \/ list[l].size > 0 /\ pos = 0 /\ L!PopFirst(l)
         \/ pos > 0 /\ pos = list[l].size - 1 /\ L!PopLast(l)
         \/ pos > 0 /\ pos < list[l].size - 1
            /\ L!Becomes(l, [list[l] EXCEPT !.size = @ - 1], L!Unlinked(heap, L!Ahead(heap, list[l].front, pos)))
<1>1. \/ list[l].size = 0
      \/ list[l].size > 0 /\ pos \notin 0 .. list[l].size - 1
      \/ list[l].size > 0 /\ pos = 0
      \/ pos > 0 /\ pos = list[l].size - 1
      \/ pos > 0 /\ pos < list[l].size - 1
  OBVIOUS
<1>2. QED
  BY <1>1, Zenon DEF L!Erase

(* list_erase. *)
LEMMA ListEraseStep ==
  ASSUME NEW r, Now(r), NEW l, ListLive(l), NEW pos \in -1 .. list[l].size, L!Erase(l, pos)
  PROVE  ListInv' /\ L!Abs!Next
<1> DEFINE q == list[l]
           s == r[l]
<1>1. l \in Lists /\ Typed(list, heap) /\ Rings(list, heap, r)
  BY DEF ListLive, Now
<1>2. s \in Seq(Nodes) /\ Len(s) \in Nat /\ q.size = Len(s) /\ q \in ListType /\ pos \in Int
  BY <1>1, ListFacts
<1>3. CASE q.size = 0 /\ L!Refuse("CS_EMPTY")
  BY <1>2, <1>3, ListRefuseStep DEF Codes
<1>4. CASE q.size > 0 /\ pos \notin 0 .. q.size - 1 /\ L!Refuse("CS_POS")
  <2>1. pos \in -1 .. Len(s) + 1 /\ pos \notin 0 .. Len(s) - 1
    BY <1>2, <1>4
  <2>2. QED
    BY <1>4, <2>1, ListRefuseStep DEF Codes
<1>5. CASE q.size > 0 /\ pos = 0 /\ L!PopFirst(l)
  BY <1>2, <1>5, ListPopFirstStep
<1>6. CASE pos > 0 /\ pos = q.size - 1 /\ L!PopLast(l)
  <2>1. Len(s) > 0
    BY <1>2, <1>6
  <2>2. QED
    BY <1>6, <2>1, ListPopLastStep
<1>7. CASE pos > 0 /\ pos < q.size - 1
           /\ L!Becomes(l, [q EXCEPT !.size = @ - 1], L!Unlinked(heap, L!Ahead(heap, q.front, pos)))
  <2> DEFINE p == pos + 1
  <2>1. p \in 1 .. Len(s) /\ p # 1 /\ Len(s) > 1 /\ pos \in 0 .. Len(s) - 1
    BY <1>2, <1>7
  <2>2. L!Ahead(heap, q.front, pos) = s[p]
    <3>1. Ringed(heap, q, s)
      BY <1>1 DEF Rings
    <3>2. QED
      BY <2>1, <3>1, AheadIs
  <2> HIDE DEF p
  <2>3. Shorter(q, s, p) = [q EXCEPT !.size = @ - 1]
    BY <1>2, <2>1, ShorterInside
  <2>4. QED
    BY <1>7, <2>1, <2>2, <2>3, ListCutStep
<1>8. QED
  BY <1>2, <1>3, <1>4, <1>5, <1>6, <1>7, EraseCases

(* list_sort. *)
LEMMA ListSortStep ==
  ASSUME NEW r, Now(r), NEW l, ListLive(l), L!Sort(l)
  PROVE  ListInv' /\ L!Abs!Next
<1> DEFINE q == list[l]
           s == r[l]
           key == KeyOf(heap)
           t == Sorted(s, key)
           u == Entering(q, t[1])
           g == L!Joined(heap, t)
           d == L!Data(g, t)
<1>1. l \in Lists /\ q.live /\ Typed(list, heap) /\ Rings(list, heap, r)
  BY DEF ListLive, Now
<1>2. /\ s \in Seq(Nodes) /\ Len(s) \in Nat /\ q.size = Len(s) /\ q \in ListType /\ L!Ring(heap, q) = s
      /\ list \in [Lists -> ListType] /\ Elements(l) = L!Data(heap, s)
  BY <1>1, NowFacts
<1>3. CASE Len(s) < 2
  <2>1. L!Refuse("CS_SUCCESS")
    BY <1>2, <1>3 DEF L!Sort
  <2>2. QED
    BY <2>1, ListRefuseStep DEF Codes
<1>4. CASE Len(s) > 1
  <2>1. L!Becomes(l, u, g)
    <3>1. ~ (q.size < 2)
      BY <1>2, <1>4
    <3>2. L!Sorted(s, key) = t
      BY SameSorts
    <3>3. QED
      BY <1>2, <3>1, <3>2 DEF L!Sort, KeyOf, Entering
  <2> HIDE DEF key, t, u, g, d
  <2>2. /\ RingInv([list EXCEPT ![l] = u], g)
        /\ Contents([list EXCEPT ![l] = u], g) = [Contents(list, heap) EXCEPT ![l] = d]
        /\ SortedBy(L!Data(heap, s), d, TRUE)
    BY <1>1, <1>4, SortInv DEF key, t, u, g, d
  <2>3. u \in ListType /\ u.live
    <3>1. [list EXCEPT ![l] = u] \in [Lists -> ListType] /\ [list EXCEPT ![l] = u][l] = u
      BY <1>1, <1>2, <2>2 DEF RingInv, Typed
    <3>2. u.live = q.live
      BY <1>2 DEF Entering, ListType, u
    <3>3. u \in ListType
      BY <1>1, <3>1
    <3>4. QED
      BY <1>1, <3>2, <3>3
  <2>4. ListInv' /\ L!Abs!Becomes(l, d)
    BY <1>1, <1>2, <2>1, <2>2, <2>3, ListBecomes DEF Now
  <2>5. L!Abs!IsSorting(Elements(l), d, "comp")
    BY <1>2, <2>2, ListSorting
  <2>6. L!Abs!Next
    BY <2>4, <2>5, AbsSort
  <2>7. QED
    BY <2>4, <2>6
<1>5. QED
  BY <1>2, <1>3, <1>4

(* list_clear, which crashes on an empty list. *)
LEMMA ListClearStep ==
  ASSUME NEW r, Now(r), NEW l, ListLive(l), L!Clear(l)
  PROVE  ListInv' /\ L!Abs!Next
<1>1. L!Ring(heap, list[l]) = r[l] /\ L!ToSet(r[l]) = ToSet(r[l])
  BY NowFacts, SameToSet DEF ListLive
<1>2. CASE L!Refuse("crash")
  <2>1. list' = list /\ heap' = heap /\ lret' = "crash"
    BY <1>2 DEF L!Refuse
  <2>2. ListInv'
    BY <2>1 DEF ListInv, Now
  <2>3. L!Abs!Break
    BY <2>1 DEF L!Abs!Break, L!Announced
  <2>4. QED
    BY <2>2, <2>3 DEF L!Abs!Next
<1>3. CASE L!Becomes(l, L!Fresh, L!Without(heap, ToSet(r[l])))
  BY <1>3, ListEmptyStep
<1>4. QED
  BY <1>1, <1>2, <1>3 DEF L!Clear

(* list_free. *)
LEMMA ListFreeStep ==
  ASSUME NEW r, Now(r), NEW l, ListLive(l), L!Free(l)
  PROVE  ListInv' /\ L!Abs!Next
<1> DEFINE u == L!Freed
           g == L!Without(heap, ToSet(r[l]))
           d == << >>
<1>1. l \in Lists /\ list[l].live /\ Typed(list, heap) /\ Rings(list, heap, r) /\ list \in [Lists -> ListType]
  BY DEF ListLive, Now, Typed
<1>2. u \in ListType /\ ~ u.live /\ u.size = 0 /\ u.front = Null
  BY DEF L!Fresh, L!Freed, ListType
<1>3. L!Ring(heap, list[l]) = r[l] /\ L!ToSet(r[l]) = ToSet(r[l])
  BY <1>1, NowFacts, SameToSet
<1>4. list' = [list EXCEPT ![l] = u] /\ heap' = g /\ lret' = "CS_SUCCESS"
  BY <1>3 DEF L!Free, L!Becomes
<1>5. g = L!Without(heap, ToSet(r[l]))
  OBVIOUS
<1> HIDE DEF u, g
<1>6. Emptied(list, heap, l, u, g)
  BY <1>1, <1>2, <1>5, EmptyInv
<1>7. RingInv(list', heap') /\ Contents(list', heap') = [Contents(list, heap) EXCEPT ![l] = d]
  BY <1>4, <1>6 DEF Emptied
<1>8. ListInv'
  BY <1>4, <1>7 DEF ListInv, Codes
<1>9. {k \in Lists : list'[k].live} = {k \in Lists : list[k].live} \ {l}
  BY <1>1, <1>2, <1>4
<1>10. [k \in Lists |-> "comp"] = [[k \in Lists |-> "comp"] EXCEPT ![l] = "comp"]
  OBVIOUS
<1>11. L!Abs!Free(l)
  BY <1>1, <1>4, <1>7, <1>9, <1>10 DEF L!Abs!Free, Contents, L!Announced
<1>12. QED
  BY <1>1, <1>8, <1>11 DEF L!Abs!Next

(* list_init after a free. *)
LEMMA ListStartStep ==
  ASSUME NEW r, Now(r), NEW l \in Lists, L!Start(l)
  PROVE  ListInv' /\ L!Abs!Next
<1> DEFINE u == L!Fresh
           c == Contents(list, heap)
<1>1. ~ list[l].live /\ Typed(list, heap) /\ Rings(list, heap, r) /\ list \in [Lists -> ListType]
      /\ heap \in [DOMAIN heap -> NodeType]
  BY DEF Now, Typed, L!Start
<1>2. u \in ListType /\ u.live /\ u.size = 0 /\ u.front = Null
  BY DEF L!Fresh, ListType
<1>3. CASE L!Refuse("CS_MEM")
  <2>1. ListInv' /\ L!Abs!Refuse("CS_MEM")
    BY <1>3, ListRefuses DEF Now, Codes
  <2>2. L!Abs!Start(l)
    BY <1>1, <2>1 DEF L!Abs!Start
  <2>3. QED
    BY <2>1, <2>2 DEF L!Abs!Next
<1>4. CASE L!Becomes(l, u, heap)
  <2>1. list' = [list EXCEPT ![l] = u] /\ heap' = heap /\ lret' = "CS_SUCCESS"
    BY <1>4 DEF L!Becomes
  <2>2. r[l] \in Seq(Nodes) /\ Len(r[l]) = 0
    BY <1>1, ListFacts
  <2>3. ToSet(r[l]) = {} /\ c[l] = << >>
    <3>1. ToSet(r[l]) = {}
      BY <2>2, InSet
    <3>2. Elements(l) \in Seq(ListElems) /\ Len(Elements(l)) = 0
      BY <2>2, NowFacts
    <3>3. QED
      BY <3>1, <3>2, EmptySeq DEF Elements
  <2>4. heap = L!Without(heap, ToSet(r[l]))
    BY <1>1, <2>3 DEF L!Without
  <2> HIDE DEF u
  <2>5. Emptied(list, heap, l, u, heap)
    BY <1>1, <1>2, <2>4, EmptyInv
  <2>6. RingInv(list', heap') /\ Contents(list', heap') = [c EXCEPT ![l] = << >>]
    BY <2>1, <2>5 DEF Emptied
  <2>7. [c EXCEPT ![l] = << >>] = c
    <3> DEFINE d == << >>
    <3>1. c = [k \in Lists |-> c[k]] /\ c[l] = d
      BY <2>3 DEF Contents
    <3> HIDE DEF d, c
    <3>2. [c EXCEPT ![l] = d] = c
      BY <3>1
    <3>3. QED
      BY <3>2 DEF d
  <2>8. ListInv'
    BY <2>1, <2>6 DEF ListInv, Codes
  <2>9. {k \in Lists : list'[k].live} = {k \in Lists : list[k].live} \cup {l}
    BY <1>1, <1>2, <2>1
  <2>10. [k \in Lists |-> "comp"] = [[k \in Lists |-> "comp"] EXCEPT ![l] = "comp"]
    OBVIOUS
  <2>11. Contents(list', heap') = Contents(list, heap)
    BY <2>6, <2>7
  <2>12. L!Abs!Start(l)
    BY <1>1, <2>1, <2>9, <2>10, <2>11 DEF L!Abs!Start, Contents, L!Announced
  <2>13. QED
    BY <2>8, <2>12 DEF L!Abs!Next
<1>5. QED
  BY <1>3, <1>4 DEF L!Start

(* list_swap. *)
LEMMA ListSwapStep ==
  ASSUME NEW r, Now(r), NEW l \in Lists, NEW m \in Lists, L!Swap(l, m)
  PROVE  ListInv' /\ L!Abs!Next
<1> DEFINE ms == Exchanged(list, l, m)
<1>1. RingInv(list, heap) /\ list \in [Lists -> ListType] /\ list[l].live /\ list[m].live
  BY DEF Now, ListInv, Typed, L!Swap, L!Usable
<1>2. list' = ms /\ heap' = heap /\ lret' = "CS_SUCCESS"
  BY DEF L!Swap, Exchanged
<1>3. RingInv(ms, heap) /\ Contents(ms, heap) = Exchanged(Contents(list, heap), l, m)
  BY <1>1, SwapInv
<1>4. {k \in Lists : ms[k].live} = {k \in Lists : list[k].live}
  BY <1>1 DEF Exchanged
<1> HIDE DEF ms
<1>5. ListInv'
  BY <1>2, <1>3 DEF ListInv, Codes
<1>6. LET o == [k \in Lists |-> "comp"] IN o = [o EXCEPT ![l] = o[m], ![m] = o[l]]
  OBVIOUS
<1>7. L!Abs!Swap(l, m)
  BY <1>1, <1>2, <1>3, <1>4, <1>6 DEF L!Abs!Swap, Contents, Exchanged, L!Announced
<1>8. QED
  BY <1>5, <1>7 DEF L!Abs!Next

(* Every operation of list.c is one of sequences. *)
LEMMA ListStep ==
  ASSUME ListInv, L!Next
  PROVE  ListInv' /\ L!Abs!Next
<1>1. lret # "crash"
  BY DEF L!Next, L!PushFront, L!PushBack, L!Push, L!PopFront, L!PopBack, L!Erase, L!Sort, L!Swap, L!Clear, L!Free,
         L!Start, L!Usable
<1>2. PICK r : Now(r)
  BY <1>1 DEF ListInv, RingInv, Now
<1>3. ASSUME NEW l \in Lists, L!PopFront(l) PROVE ListInv' /\ L!Abs!Next
  <2>1. ListLive(l) /\ list[l].size = Len(r[l]) /\ Len(r[l]) \in Nat
    BY <1>2, <1>3, NowFacts DEF ListLive, L!PopFront, L!Usable
  <2>2. CASE list[l].size = 0
    BY <1>2, <1>3, <2>1, <2>2, ListRefuseStep DEF L!PopFront, Codes
  <2>3. CASE list[l].size # 0
    BY <1>2, <1>3, <2>1, <2>3, ListPopFirstStep DEF L!PopFront
  <2>4. QED
    BY <2>2, <2>3
<1>4. ASSUME NEW l \in Lists, L!PopBack(l) PROVE ListInv' /\ L!Abs!Next
  <2>1. ListLive(l) /\ list[l].size = Len(r[l]) /\ Len(r[l]) \in Nat
    BY <1>2, <1>4, NowFacts DEF ListLive, L!PopBack, L!Usable
  <2>2. CASE list[l].size = 0
    BY <1>2, <1>4, <2>1, <2>2, ListRefuseStep DEF L!PopBack, Codes
  <2>3. CASE list[l].size # 0
    BY <1>2, <1>4, <2>1, <2>3, ListPopLastStep DEF L!PopBack
  <2>4. QED
    BY <2>2, <2>3
<1>5. ASSUME NEW l \in Lists, L!Sort(l) PROVE ListInv' /\ L!Abs!Next
  BY <1>2, <1>5, ListSortStep DEF ListLive, L!Sort, L!Usable
<1>6. ASSUME NEW l \in Lists, L!Clear(l) PROVE ListInv' /\ L!Abs!Next
  BY <1>2, <1>6, ListClearStep DEF ListLive, L!Clear, L!Usable
<1>7. ASSUME NEW l \in Lists, L!Free(l) PROVE ListInv' /\ L!Abs!Next
  BY <1>2, <1>7, ListFreeStep DEF ListLive, L!Free, L!Usable
<1>8. ASSUME NEW l \in Lists, L!Start(l) PROVE ListInv' /\ L!Abs!Next
  BY <1>2, <1>8, ListStartStep
<1>9. ASSUME NEW l \in Lists, NEW e \in ListElems, L!PushFront(l, e) \/ L!PushBack(l, e) PROVE ListInv' /\ L!Abs!Next
  <2>1. PICK first \in BOOLEAN : L!Push(l, e, first)
    BY <1>9 DEF L!PushFront, L!PushBack
  <2>2. ListLive(l)
    BY <2>1 DEF ListLive, L!Push, L!Usable
  <2>3. QED
    BY <1>2, <2>1, <2>2, ListPushStep
<1>10. ASSUME NEW l \in Lists, NEW pos \in -1 .. list[l].size, L!Erase(l, pos) PROVE ListInv' /\ L!Abs!Next
  BY <1>2, <1>10, ListEraseStep DEF ListLive, L!Erase, L!Usable
<1>11. ASSUME NEW l \in Lists, NEW m \in Lists, L!Swap(l, m) PROVE ListInv' /\ L!Abs!Next
  BY <1>2, <1>11, ListSwapStep
<1>12. QED
  BY <1>3, <1>4, <1>5, <1>6, <1>7, <1>8, <1>9, <1>10, <1>11 DEF L!Next

(* All lists are empty at first. *)
LEMMA ListStart == L!Init => ListInv /\ L!Abs!Init
<1> SUFFICES ASSUME L!Init PROVE ListInv /\ L!Abs!Init
  OBVIOUS
<1>1. list = [l \in Lists |-> L!Fresh] /\ heap = << >> /\ lret = "CS_SUCCESS"
  BY DEF L!Init
<1>2. RingInv(list, heap) /\ Contents(list, heap) = [l \in Lists |-> << >>]
  BY <1>1, NoNodes
<1>3. ListInv
  BY <1>1, <1>2 DEF ListInv, Codes
<1>4. L!Abs!Init
  BY <1>1, <1>2 DEF L!Abs!Init, Contents, L!Announced
<1>5. QED
  BY <1>3, <1>4

(* The cardinality of the instances is that of FiniteSets. *)
LEMMA SameCardinality ==
  \A S : L!Cardinality(S) = Cardinality(S) /\ F!Cardinality(S) = Cardinality(S)
BY Zenon DEF Cardinality, L!Cardinality, F!Cardinality

anyvars == << kind, vec, radix, ret, list, heap, lret, flist, fheap, fret >>

(* The lists stay as they are while containers of another kind are used. *)
LEMMA ListAnyStep ==
  ASSUME ListInv, [AnyNext]_anyvars
  PROVE  ListInv' /\ [L!Abs!Next]_(L!Abs!vars)
<1>1. CASE L!Next
  BY <1>1, ListStep
<1>2. CASE UNCHANGED << list, heap, lret >>
  <2>1. ListInv'
    BY <1>2 DEF ListInv
  <2>2. UNCHANGED L!Abs!vars
    BY <1>2 DEF L!Abs!vars
  <2>3. QED
    BY <2>1, <2>2
<1>3. QED
  BY <1>1, <1>2 DEF AnyNext, anyvars

(* The type invariant of lists. *)
LEMMA ListTyped == ListInv => L!TypeOK
<1> SUFFICES ASSUME ListInv PROVE L!TypeOK
  OBVIOUS
<1>1. Typed(list, heap)
  BY DEF ListInv, RingInv
<1>2. PICK r : Rings(list, heap, r)
  BY DEF ListInv, RingInv
<1>3. ASSUME NEW l \in Lists
      PROVE  list[l].live \in BOOLEAN /\ list[l].front \in Nodes \cup {Null}
             /\ list[l].size \in 0 .. Cardinality(Nodes)
  <2>1. list[l] \in ListType
    BY <1>1 DEF Typed
  <2>2. r[l] \in Seq(Nodes) /\ Distinct(r[l]) /\ list[l].size = Len(r[l]) /\ Len(r[l]) \in Nat
    BY <1>2 DEF Rings, Ringed
  <2>3. Len(r[l]) <= Cardinality(Nodes) /\ Cardinality(Nodes) \in Nat
    BY <2>2, DistinctLen
  <2>4. list[l].size \in 0 .. Cardinality(Nodes)
    BY <2>2, <2>3
  <2>5. QED
    BY <2>1, <2>4 DEF ListType
<1>4. lret \in {"CS_SUCCESS", "CS_MEM", "CS_EMPTY", "CS_POS", "crash"}
  BY DEF ListInv, Codes
<1>5. DOMAIN heap \subseteq Nodes /\ heap \in [DOMAIN heap -> [next : Nodes, prev : Nodes, data : ListElems]]
  BY <1>1 DEF Typed, NodeType
<1>6. QED
  BY <1>3, <1>4, <1>5, SameCardinality DEF L!TypeOK

\* s is a ring of nodes of heap that begins at front.
RingFrom(s, front, h) ==
  /\ (s = << >>) <=> (front = Null)
  /\ L!IsInjective(s)
  /\ \A i \in DOMAIN s : /\ s[i] \in DOMAIN h
                         /\ h[s[i]].next = s[(i % Len(s)) + 1]
                         /\ h[s[(i % Len(s)) + 1]].prev = s[i]

(* Lists that are rings are intact. *)
LEMMA ListRinged == ListInv => RingIntact
<1> SUFFICES ASSUME ListInv PROVE RingIntact
  OBVIOUS
<1>1. Typed(list, heap)
  BY DEF ListInv, RingInv
<1>2. PICK r : Rings(list, heap, r)
  BY DEF ListInv, RingInv
<1> DEFINE ring == [l \in Lists |-> L!Ring(heap, list[l])]
<1>3. \A l \in Lists : ring[l] = r[l]
  BY <1>2, RingIs DEF Rings
<1>4. \A s : L!ToSet(s) = ToSet(s)
  BY SameToSet
<1> HIDE DEF ring
<1>5. ASSUME NEW l \in Lists, NEW s, s = ring[l]
      PROVE  RingFrom(s, list[l].front, heap)
  <2>1. s = r[l]
    BY <1>3, <1>5
  <2>2. Ringed(heap, list[l], s)
    BY <1>2, <2>1 DEF Rings
  <2>3. s \in Seq(Nodes) /\ Len(s) \in Nat /\ DOMAIN s = 1 .. Len(s) /\ Distinct(s) /\ list[l].front = Front1(s)
        /\ \A i \in 1 .. Len(s) : Linkage(heap, s, i)
    BY <2>2 DEF Ringed
  <2>4. (s = << >>) <=> (list[l].front = Null)
    <3>1. CASE Len(s) = 0
      BY <2>3, <3>1, EmptySeq DEF Front1
    <3>2. CASE Len(s) # 0
      <4>1. 1 \in 1 .. Len(s)
        BY <2>3, <3>2
      <4>2. s[1] \in Nodes /\ s[1] # Null
        BY <2>3, <4>1, ListsAssumption
      <4>3. s # << >>
        BY <3>2, EmptySeq
      <4>4. QED
        BY <2>3, <3>2, <4>2, <4>3 DEF Front1
    <3>3. QED
      BY <3>1, <3>2
  <2>5. L!IsInjective(s)
    BY <2>3 DEF L!IsInjective, Distinct
  <2>6. ASSUME NEW i \in 1 .. Len(s) PROVE (i % Len(s)) + 1 = After(i, Len(s))
    <3>1. CASE Len(s) = 1
      BY <3>1 DEF After
    <3>2. CASE Len(s) # 1
      <4> DEFINE n == Len(s)
      <4>1. n \in Nat /\ n > 1 /\ i \in 1 .. n
        BY <2>3, <3>2
      <4> HIDE DEF n
      <4>2. (i % n) + 1 = After(i, n)
        BY <4>1, TurnFacts
      <4>3. QED
        BY <4>2 DEF n
    <3>3. QED
      BY <3>1, <3>2
  <2>7. \A i \in DOMAIN s : /\ s[i] \in DOMAIN heap
                            /\ heap[s[i]].next = s[(i % Len(s)) + 1]
                            /\ heap[s[(i % Len(s)) + 1]].prev = s[i]
    BY <2>3, <2>6 DEF Linkage
  <2>8. QED
    BY <2>4, <2>5, <2>7 DEF RingFrom
<1>6. DOMAIN heap = UNION {L!ToSet(ring[l]) : l \in Lists}
  <2>1. ASSUME NEW n PROVE n \in DOMAIN heap <=> \E l \in Lists : n \in L!ToSet(ring[l])
    <3>1. n \in DOMAIN heap <=> \E l \in Lists : n \in ToSet(r[l])
      BY <1>2 DEF Rings
    <3>2. \A l \in Lists : L!ToSet(ring[l]) = ToSet(r[l])
      BY <1>3, <1>4
    <3>3. QED
      BY <3>1, <3>2
  <2>2. QED
    BY <2>1
<1>7. \A l, m \in Lists : l # m => L!ToSet(ring[l]) \cap L!ToSet(ring[m]) = {}
  BY <1>2, <1>3, <1>4 DEF Rings
<1>8. ASSUME NEW l \in Lists
      PROVE  LET s == ring[l] IN
             /\ (s = << >>) <=> (list[l].front = Null)
             /\ L!IsInjective(s)
             /\ \A i \in DOMAIN s : /\ s[i] \in DOMAIN heap
                                    /\ heap[s[i]].next = s[(i % Len(s)) + 1]
                                    /\ heap[s[(i % Len(s)) + 1]].prev = s[i]
  <2>1. RingFrom(ring[l], list[l].front, heap)
    BY <1>5
  <2>2. QED
    BY <2>1 DEF RingFrom
<1>9. QED
  BY <1>6, <1>7, <1>8, Zenon DEF RingIntact, L!RingIntact, ring

(* No operation of list.c breaks a ring, leaks a node or keeps a freed one, on a
   heap of no more nodes than an int can count. *)
THEOREM ListsStayIntact == AnySpec => []RingIntact
<1>1. AnyInit => ListInv
  BY ListStart DEF AnyInit
<1>2. ListInv /\ [AnyNext]_anyvars => ListInv'
  BY ListAnyStep
<1>3. QED
  BY <1>1, <1>2, ListRinged, PTL DEF AnySpec, anyvars

(* The lists are sequences, with the codes that list.c answers where list.h has
   CS_SIZE: every operation has the effect of one on the elements of its lists,
   list_sort sorting stably, up to the first clear of an empty list. *)
THEOREM ListsAreSequences == AnySpec => ListImplements
<1>1. AnyInit => ListInv /\ L!Abs!Init
  BY ListStart DEF AnyInit
<1>2. ListInv /\ [AnyNext]_anyvars => ListInv' /\ [L!Abs!Next]_(L!Abs!vars)
  BY ListAnyStep
<1>3. QED
  BY <1>1, <1>2, PTL DEF AnySpec, anyvars, ListImplements, L!ListImplements, L!Abs!Spec

-----------------------------------------------------------------------------
\* The forward lists: s has the nodes of a forward list, from the head on.

Tail1(s) == IF Len(s) = 0 THEN Null ELSE s[Len(s)]

ChainLink(h, s, i) ==
  s[i] \in DOMAIN h /\ h[s[i]].next = IF i = Len(s) THEN Null ELSE s[i + 1]

Chained(h, q, s) ==
  /\ s \in Seq(Nodes) /\ Len(s) = q.size /\ Distinct(s) /\ q.head = Front1(s) /\ q.tail = Tail1(s)
  /\ \A i \in 1 .. Len(s) : ChainLink(h, s, i)

(* A chain is no longer than there are nodes on the heap. *)
LEMMA LenBound ==
  ASSUME NEW D, IsFiniteSet(D), NEW s \in Seq(D), Distinct(s)
  PROVE  Len(s) <= Cardinality(D) /\ Cardinality(D) \in Nat
<1> DEFINE n == Len(s)
           f == [i \in 1 .. n |-> s[i]]
<1>1. n \in Nat /\ \A i \in 1 .. n : s[i] \in D
  OBVIOUS
<1>2. f \in [1 .. n -> D] /\ \A i, j \in 1 .. n : f[i] = f[j] => i = j
  BY <1>1 DEF Distinct
<1> HIDE DEF f, n
<1>3. f \in Injection(1 .. n, D)
  BY <1>2 DEF Injection, IsInjective
<1>4. Cardinality(1 .. n) = n
  <2>1. 1 \in Int /\ n \in Int
    BY <1>1
  <2>2. Cardinality(1 .. n) = IF 1 > n THEN 0 ELSE n - 1 + 1
    BY <2>1, FS_Interval
  <2>3. QED
    BY <1>1, <2>2
<1>5. Cardinality(1 .. n) <= Cardinality(D) /\ Cardinality(D) \in Nat
  BY <1>3, FS_Injection, FS_CardinalityType
<1>6. QED
  BY <1>4, <1>5 DEF n

NextIn(h) == [m \in DOMAIN h \cup {Null} |-> IF m = Null THEN Null ELSE h[m].next]

RecChain(at, h, n, c) == at = [i \in 0 .. c |-> IF i = 0 THEN n ELSE NextIn(h)[at[i - 1]]]

ChainOf(at, c) == [i \in 1 .. F!Cardinality({k \in 0 .. c - 1 : at[k] # Null}) |-> at[i - 1]]

(* The walk along a chain is a recursive function. *)
LEMMA ChainDef ==
  ASSUME NEW h, NEW n
  PROVE  F!Chain(h, n) = ChainOf(CHOOSE at : RecChain(at, h, n, F!Cardinality(DOMAIN h)), F!Cardinality(DOMAIN h))
BY DEF F!Chain, ChainOf, RecChain, NextIn

(* It visits the nodes of s and then stays at NULL. *)
LEMMA ChainIs ==
  ASSUME NEW h, IsFiniteSet(DOMAIN h), DOMAIN h \subseteq Nodes, NEW q, NEW s, Chained(h, q, s)
  PROVE  F!Chain(h, q.head) = s
<1> DEFINE D == DOMAIN h
           c == Cardinality(D)
           n == q.head
           N == Len(s)
           v == [i \in 0 .. c |-> IF i < N THEN s[i + 1] ELSE Null]
           a == CHOOSE at : RecChain(at, h, n, c)
<1>1. s \in Seq(Nodes) /\ N \in Nat /\ Distinct(s) /\ n = Front1(s)
      /\ \A i \in 1 .. N : s[i] \in D /\ s[i] \in Nodes /\ h[s[i]].next = IF i = N THEN Null ELSE s[i + 1]
  BY DEF Chained, ChainLink
<1>2. s \in Seq(D)
  <2>1. s = [i \in 1 .. N |-> s[i]]
    BY <1>1
  <2> HIDE DEF D, N
  <2>2. [i \in 1 .. N |-> s[i]] \in Seq(D)
    BY <1>1
  <2>3. QED
    BY <2>1, <2>2
<1> HIDE DEF D
<1>3. N <= c /\ c \in Nat
  BY <1>1, <1>2, LenBound DEF D
<1>4. \A m \in D : NextIn(h)[m] = h[m].next
  BY ListsAssumption DEF NextIn, D
<1>5. NextIn(h)[Null] = Null
  BY DEF NextIn
<1> HIDE DEF c, n, N
<1>6. RecChain(v, h, n, c)
  <2> DEFINE g == [i \in 0 .. c |-> IF i = 0 THEN n ELSE NextIn(h)[v[i - 1]]]
  <2>1. ASSUME NEW i \in 0 .. c PROVE v[i] = g[i]
    <3>1. CASE i = 0
      <4>1. g[i] = n
        BY <3>1
      <4>2. v[i] = IF 0 < N THEN s[1] ELSE Null
        BY <3>1
      <4>3. QED
        BY <1>1, <4>1, <4>2 DEF Front1, N
    <3>2. CASE i # 0
      <4>1. i - 1 \in 0 .. c /\ (i - 1) + 1 = i
        BY <1>3, <3>2
      <4>2. g[i] = NextIn(h)[v[i - 1]]
        BY <3>2
      <4>3. v[i - 1] = IF i - 1 < N THEN s[i] ELSE Null
        BY <4>1
      <4>4. v[i] = IF i < N THEN s[i + 1] ELSE Null
        OBVIOUS
      <4> HIDE DEF v, g
      <4>5. CASE i - 1 < N
        <5>1. i \in 1 .. N
          BY <1>1, <1>3, <3>2, <4>5
        <5>2. g[i] = IF i = N THEN Null ELSE s[i + 1]
          BY <1>1, <1>4, <4>2, <4>3, <4>5, <5>1
        <5>3. (i = N) <=> ~ (i < N)
          BY <1>1, <5>1
        <5>4. QED
          BY <4>4, <5>2, <5>3
      <4>6. CASE ~ (i - 1 < N)
        <5>1. ~ (i < N)
          BY <1>1, <1>3, <4>6
        <5>2. QED
          BY <1>5, <4>2, <4>3, <4>4, <4>6, <5>1
      <4>7. QED
        BY <4>5, <4>6
    <3>3. QED
      BY <3>1, <3>2
  <2>2. v = g
    <3>1. v = [i \in 0 .. c |-> v[i]] /\ g = [i \in 0 .. c |-> g[i]]
      OBVIOUS
    <3> HIDE DEF v, g
    <3>2. QED
      BY <2>1, <3>1
  <2>3. QED
    BY <2>2 DEF RecChain
<1>7. RecChain(a, h, n, c)
  <2> HIDE DEF v
  <2>1. QED
    BY <1>6, Zenon
<1> HIDE DEF a
<1>8. a = [i \in 0 .. c |-> IF i = 0 THEN n ELSE NextIn(h)[a[i - 1]]]
  BY <1>7 DEF RecChain
<1>9. v = [i \in 0 .. c |-> IF i = 0 THEN n ELSE NextIn(h)[v[i - 1]]]
  <2> HIDE DEF v
  <2>1. QED
    BY <1>6 DEF RecChain
<1>10. \A i \in 0 .. c : v[i] = IF i < N THEN s[i + 1] ELSE Null
  OBVIOUS
<1> HIDE DEF v
<1>11. \A i \in 0 .. c : a[i] = v[i]
  <2> DEFINE S == {i \in 0 .. c : a[i] = v[i]}
  <2>1. 0 \in S
    BY <1>3, <1>8, <1>9
  <2>2. ASSUME NEW i \in 0 .. c - 1, i \in S PROVE i + 1 \in S
    <3>1. i + 1 \in 0 .. c /\ (i + 1) - 1 = i /\ i + 1 # 0
      BY <1>3
    <3>2. a[i + 1] = NextIn(h)[a[i]] /\ v[i + 1] = NextIn(h)[v[i]]
      BY <1>8, <1>9, <3>1
    <3>3. QED
      BY <2>2, <3>1, <3>2
  <2>3. \A i \in 0 .. c : i \in S
    <3> HIDE DEF S
    <3>1. QED
      BY <1>3, <2>1, <2>2, Induction
  <2>4. QED
    BY <2>3
<1>12. {k \in 0 .. c - 1 : a[k] # Null} = 0 .. N - 1
  <2>1. ASSUME NEW k \in 0 .. c - 1 PROVE a[k] # Null <=> k < N
    <3>1. k \in 0 .. c /\ (k < N => k + 1 \in 1 .. N)
      BY <1>1, <1>3
    <3>2. a[k] = IF k < N THEN s[k + 1] ELSE Null
      BY <1>10, <1>11, <3>1
    <3>3. QED
      BY <1>1, <3>1, <3>2, ListsAssumption
  <2>2. \A k \in Int : k \in 0 .. N - 1 => k \in 0 .. c - 1
    BY <1>1, <1>3
  <2>3. QED
    BY <1>1, <1>3, <2>1, <2>2
<1>13. Cardinality(0 .. N - 1) = N
  <2>1. 0 \in Int /\ N - 1 \in Int
    BY <1>1
  <2>2. Cardinality(0 .. N - 1) = IF 0 > N - 1 THEN 0 ELSE (N - 1) - 0 + 1
    BY <2>1, FS_Interval
  <2>3. QED
    BY <1>1, <2>2
<1>14. ChainOf(a, c) = [i \in 1 .. N |-> a[i - 1]]
  BY <1>12, <1>13, SameCardinality DEF ChainOf
<1>15. [i \in 1 .. N |-> a[i - 1]] = s
  <2>1. s = [i \in 1 .. N |-> s[i]]
    BY <1>1 DEF N
  <2>2. ASSUME NEW i \in 1 .. N PROVE a[i - 1] = s[i]
    <3>1. i - 1 \in 0 .. c /\ i - 1 < N /\ (i - 1) + 1 = i
      BY <1>1, <1>3
    <3>2. QED
      BY <1>10, <1>11, <3>1
  <2>3. QED
    BY <2>1, <2>2
<1>16. F!Chain(h, n) = ChainOf(a, c)
  BY ChainDef, SameCardinality DEF a, c, D
<1>17. QED
  BY <1>14, <1>15, <1>16 DEF n

LinkType == [next : Nodes \cup {Null}, data : ListElems]
ForwardType == [live : BOOLEAN, head : Nodes \cup {Null}, tail : Nodes \cup {Null}, size : Nat]

ChainsTyped(ls, h) ==
  /\ ls \in [Lists -> ForwardType] /\ DOMAIN h \subseteq Nodes /\ h \in [DOMAIN h -> LinkType]
  /\ \A l \in Lists : ls[l].live \/ ls[l].size = 0

Chains(ls, h, r) ==
  /\ r \in [Lists -> Seq(Nodes)]
  /\ \A l \in Lists : Chained(h, ls[l], r[l])
  /\ \A n : n \in DOMAIN h <=> \E l \in Lists : n \in ToSet(r[l])
  /\ \A l, m \in Lists : \A n : n \in ToSet(r[l]) /\ n \in ToSet(r[m]) => l = m

\* What the structures and the heap are always like.
ChainInv(ls, h) == ChainsTyped(ls, h) /\ \E r : Chains(ls, h, r)

\* The elements of all lists.
ForwardContents(ls, h) == [l \in Lists |-> F!Data(h, F!Chain(h, ls[l].head))]

(* The elements of all forward lists, by their nodes. *)
LEMMA ForwardContentsIs ==
  ASSUME NEW ls, NEW h, ChainsTyped(ls, h), NEW r, Chains(ls, h, r)
  PROVE  ForwardContents(ls, h) = [l \in Lists |-> F!Data(h, r[l])]
<1>1. \A l \in Lists : F!Chain(h, ls[l].head) = r[l]
  <2>1. DOMAIN h \subseteq Nodes /\ IsFiniteSet(DOMAIN h)
    BY ListsAssumption, FS_Subset DEF ChainsTyped
  <2> SUFFICES ASSUME NEW l \in Lists PROVE F!Chain(h, ls[l].head) = r[l]
    OBVIOUS
  <2>2. Chained(h, ls[l], r[l])
    BY DEF Chains
  <2> DEFINE q == ls[l]
             s == r[l]
  <2> HIDE DEF q, s
  <2>3. F!Chain(h, q.head) = s
    BY <2>1, <2>2, ChainIs DEF q, s
  <2>4. QED
    BY <2>3 DEF q, s
<1>2. QED
  BY <1>1 DEF ForwardContents

(* A list depends on its own nodes only. *)
LEMMA ChainedElsewhere ==
  ASSUME NEW h, NEW q, NEW s, Chained(h, q, s), NEW g,
         \A n \in ToSet(s) : n \in DOMAIN g /\ g[n] = h[n]
  PROVE  Chained(g, q, s) /\ F!Data(g, s) = F!Data(h, s)
<1>1. s \in Seq(Nodes)
  BY DEF Chained
<1>2. \A i \in 1 .. Len(s) : s[i] \in DOMAIN g /\ g[s[i]] = h[s[i]]
  BY <1>1, InSet
<1>4. \A i \in 1 .. Len(s) : ChainLink(g, s, i)
  BY <1>2 DEF Chained, ChainLink
<1>5. DOMAIN s = 1 .. Len(s)
  BY <1>1
<1>6. F!Data(g, s) = F!Data(h, s)
  BY <1>2, <1>5 DEF F!Data
<1>7. QED
  BY <1>4, <1>6 DEF Chained

(* An operation on the list l: its nodes become those of s. *)
LEMMA ChainFrame ==
  ASSUME NEW ls, NEW h, ChainsTyped(ls, h), NEW r, Chains(ls, h, r), NEW l \in Lists,
         NEW q \in ForwardType, q.live \/ q.size = 0,
         NEW g, DOMAIN g \subseteq Nodes, g \in [DOMAIN g -> LinkType],
         NEW s \in Seq(Nodes), Chained(g, q, s),
         \A n : n \in DOMAIN g <=> (n \in DOMAIN h /\ n \notin ToSet(r[l])) \/ n \in ToSet(s),
         \A n \in ToSet(s) : n \in ToSet(r[l]) \/ n \notin DOMAIN h,
         \A n \in DOMAIN h : n \notin ToSet(r[l]) => g[n] = h[n]
  PROVE  /\ ChainInv([ls EXCEPT ![l] = q], g)
         /\ ForwardContents([ls EXCEPT ![l] = q], g) = [ForwardContents(ls, h) EXCEPT ![l] = F!Data(g, s)]
<1> DEFINE ms == [ls EXCEPT ![l] = q]
           t == [r EXCEPT ![l] = s]
<1>1. ms \in [Lists -> ForwardType] /\ ms[l] = q /\ \A m \in Lists : m # l => ms[m] = ls[m]
  BY DEF ChainsTyped
<1>2. t \in [Lists -> Seq(Nodes)] /\ t[l] = s /\ \A m \in Lists : m # l => t[m] = r[m]
  BY DEF Chains
<1> HIDE DEF ms, t
<1>3. ASSUME NEW m \in Lists, m # l PROVE \A n \in ToSet(r[m]) : n \in DOMAIN h /\ n \notin ToSet(r[l])
  BY <1>3 DEF Chains
<1>4. ASSUME NEW m \in Lists, m # l PROVE Chained(g, ms[m], t[m]) /\ F!Data(g, t[m]) = F!Data(h, r[m])
  <2>1. \A n \in ToSet(r[m]) : n \in DOMAIN g /\ g[n] = h[n]
    BY <1>3, <1>4
  <2>2. Chained(h, ls[m], r[m])
    BY DEF Chains
  <2> DEFINE u == r[m]
             p == ls[m]
  <2> HIDE DEF u, p
  <2>3. Chained(g, p, u) /\ F!Data(g, u) = F!Data(h, u)
    BY <2>1, <2>2, ChainedElsewhere DEF u, p
  <2>4. QED
    BY <1>1, <1>2, <1>4, <2>3 DEF u, p
<1>5. \A m \in Lists : Chained(g, ms[m], t[m])
  BY <1>1, <1>2, <1>4
<1>6. ASSUME NEW n PROVE n \in DOMAIN g <=> \E m \in Lists : n \in ToSet(t[m])
  <2>1. n \in DOMAIN h <=> \E m \in Lists : n \in ToSet(r[m])
    BY DEF Chains
  <2>2. (n \in DOMAIN h /\ n \notin ToSet(r[l])) <=> \E m \in Lists : m # l /\ n \in ToSet(r[m])
    BY <1>3, <2>1
  <2>3. QED
    BY <1>2, <2>2
<1>7. ASSUME NEW m \in Lists, NEW k \in Lists, NEW n, n \in ToSet(t[m]), n \in ToSet(t[k]) PROVE m = k
  <2>1. \A j \in Lists : j # l => ~ (n \in ToSet(s) /\ n \in ToSet(r[j]))
    BY <1>3
  <2>2. CASE m = l
    BY <1>2, <1>7, <2>1, <2>2
  <2>3. CASE k = l
    BY <1>2, <1>7, <2>1, <2>3
  <2>4. CASE m # l /\ k # l
    BY <1>2, <1>7, <2>4 DEF Chains
  <2>5. QED
    BY <2>2, <2>3, <2>4
<1>8. Chains(ms, g, t)
  BY <1>2, <1>5, <1>6, <1>7 DEF Chains
<1>9. ChainsTyped(ms, g)
  <2>1. \A m \in Lists : ms[m].live \/ ms[m].size = 0
    BY <1>1 DEF ChainsTyped
  <2>2. QED
    BY <1>1, <2>1 DEF ChainsTyped
<1>10. ForwardContents(ms, g) = [ForwardContents(ls, h) EXCEPT ![l] = F!Data(g, s)]
  <2>1. ForwardContents(ms, g) = [m \in Lists |-> F!Data(g, t[m])]
    BY <1>8, <1>9, ForwardContentsIs
  <2>2. ForwardContents(ls, h) = [m \in Lists |-> F!Data(h, r[m])]
    BY ForwardContentsIs
  <2>3. QED
    BY <1>2, <1>4, <2>1, <2>2
<1>11. QED
  BY <1>8, <1>9, <1>10 DEF ChainInv, ms

LinkAdded(h, n, e, head) ==
  [m \in DOMAIN h \cup {n} |-> IF m = n THEN [next |-> head, data |-> e] ELSE h[m]]

\* The structure of a list with a new head.
Headed(q, n) == [q EXCEPT !.head = n, !.tail = IF q.size = 0 THEN n ELSE @, !.size = @ + 1]

(* The structure that forward_list_push_front leaves. *)
LEMMA HeadedFacts ==
  ASSUME NEW q \in ForwardType, NEW n \in Nodes
  PROVE  /\ Headed(q, n) \in ForwardType /\ Headed(q, n).live = q.live /\ Headed(q, n).size = q.size + 1
         /\ Headed(q, n).head = n /\ Headed(q, n).tail = IF q.size = 0 THEN n ELSE q.tail
<1> DEFINE z == q.size + 1
           f == IF q.size = 0 THEN n ELSE q.tail
<1>1. z \in Nat /\ f \in Nodes \cup {Null}
  BY DEF ForwardType
<1>2. Headed(q, n) = [q EXCEPT !.head = n, !.tail = f, !.size = z]
  BY DEF Headed
<1> HIDE DEF z, f
<1>3. LET u == [q EXCEPT !.head = n, !.tail = f, !.size = z] IN
      u \in ForwardType /\ u.live = q.live /\ u.size = z /\ u.head = n /\ u.tail = f
  BY <1>1 DEF ForwardType
<1>4. QED
  BY <1>2, <1>3 DEF z, f

\* n is in g, and the other nodes are as in h.
LinkJoins(g, h, n, e) ==
  /\ DOMAIN g = DOMAIN h \cup {n} /\ g \in [DOMAIN g -> LinkType]
  /\ (\A m \in DOMAIN h : g[m] = h[m]) /\ g[n].data = e

(* A new node in front of a chain. *)
LEMMA HeadedChain ==
  ASSUME NEW h, DOMAIN h \subseteq Nodes, h \in [DOMAIN h -> LinkType], NEW q \in ForwardType,
         NEW s, Chained(h, q, s), NEW n \in Nodes, n \notin DOMAIN h, NEW e \in ListElems,
         NEW g, g = LinkAdded(h, n, e, q.head)
  PROVE  Chained(g, Headed(q, n), Inserted(s, 1, n)) /\ LinkJoins(g, h, n, e)
<1> DEFINE N == Len(s) + 1
           t == Inserted(s, 1, n)
           u == Headed(q, n)
<1>1. /\ s \in Seq(Nodes) /\ Len(s) \in Nat /\ q.size = Len(s) /\ Distinct(s) /\ q.head = Front1(s)
      /\ q.tail = Tail1(s) /\ \A i \in 1 .. Len(s) : ChainLink(h, s, i)
  BY DEF Chained
<1>2. N \in Nat /\ 1 \in 1 .. N /\ N \in 1 .. N /\ N # 0
  BY <1>1
<1>3. n \notin ToSet(s)
  BY <1>1, InSet DEF ChainLink
<1>4. t \in Seq(Nodes) /\ Len(t) = N /\ Distinct(t)
  BY <1>1, <1>2, <1>3, InsertedFacts
<1>5. t[1] = n /\ \A k \in 1 .. Len(s) : t[k + 1] = s[k]
  <2>1. \A i \in 1 .. N : t[i] = IF i < 1 THEN s[i] ELSE IF i = 1 THEN n ELSE s[i - 1]
    BY DEF Inserted
  <2> HIDE DEF t
  <2>2. ASSUME NEW k \in 1 .. Len(s) PROVE t[k + 1] = s[k]
    <3>1. k + 1 \in 1 .. N /\ ~ (k + 1 < 1) /\ k + 1 # 1 /\ (k + 1) - 1 = k
      BY <1>1
    <3>2. QED
      BY <2>1, <3>1
  <2>3. QED
    BY <1>2, <2>1, <2>2
<1>6. u.size = N /\ u.head = n /\ u.tail = IF Len(s) = 0 THEN n ELSE q.tail
  BY <1>1, HeadedFacts
<1>7. q.head \in Nodes \cup {Null}
  BY DEF ForwardType
<1>8. DOMAIN g = DOMAIN h \cup {n} /\ (\A m \in DOMAIN h : g[m] = h[m]) /\ g[n].next = q.head /\ g[n].data = e
      /\ g[n] \in LinkType
  BY <1>7 DEF LinkAdded, LinkType
<1>9. g \in [DOMAIN g -> LinkType]
  <2>1. g = [m \in DOMAIN g |-> g[m]]
    BY DEF LinkAdded
  <2>2. \A m \in DOMAIN g : g[m] \in LinkType
    BY <1>8
  <2>3. QED
    BY <2>1, <2>2
<1> HIDE DEF t, u
<1>10. u.head = Front1(t)
  BY <1>2, <1>4, <1>5, <1>6 DEF Front1
<1>11. u.tail = Tail1(t)
  <2>1. Tail1(t) = t[N]
    BY <1>2, <1>4 DEF Tail1
  <2>2. CASE Len(s) = 0
    BY <1>5, <1>6, <2>1, <2>2
  <2>3. CASE Len(s) # 0
    <3>1. Len(s) \in 1 .. Len(s)
      BY <1>1, <2>3
    <3>2. t[N] = s[Len(s)]
      BY <1>5, <3>1
    <3>3. QED
      BY <1>1, <1>6, <2>1, <2>3, <3>2 DEF Tail1
  <2>4. QED
    BY <2>2, <2>3
<1>12. ASSUME NEW i \in 1 .. N PROVE ChainLink(g, t, i)
  <2>1. CASE i = 1
    <3>1. CASE Len(s) = 0
      BY <1>1, <1>4, <1>5, <1>8, <2>1, <3>1 DEF ChainLink, Front1
    <3>2. CASE Len(s) # 0
      <4>1. 1 \in 1 .. Len(s) /\ N # 1
        BY <1>1, <3>2
      <4>2. t[2] = s[1] /\ q.head = s[1]
        BY <1>1, <1>5, <3>2, <4>1 DEF Front1
      <4>3. QED
        BY <1>4, <1>5, <1>8, <2>1, <4>1, <4>2 DEF ChainLink
    <3>3. QED
      BY <3>1, <3>2
  <2>2. CASE i # 1
    <3> DEFINE k == i - 1
    <3>1. k \in 1 .. Len(s) /\ i = k + 1 /\ (i = N <=> k = Len(s)) /\ (k # Len(s) => k + 1 \in 1 .. Len(s))
      BY <1>1, <2>2
    <3>2. t[i] = s[k] /\ ChainLink(h, s, k)
      BY <1>1, <1>5, <3>1
    <3> HIDE DEF k
    <3>3. k # Len(s) => t[i + 1] = s[k + 1]
      <4>1. ASSUME k # Len(s) PROVE t[(k + 1) + 1] = s[k + 1]
        BY <1>5, <3>1, <4>1
      <4>2. QED
        BY <3>1, <4>1
    <3>4. QED
      BY <1>4, <1>8, <3>1, <3>2, <3>3 DEF ChainLink
  <2>3. QED
    BY <2>1, <2>2
<1>13. Chained(g, u, t)
  BY <1>4, <1>6, <1>10, <1>11, <1>12 DEF Chained
<1>14. QED
  BY <1>8, <1>9, <1>13 DEF LinkJoins, t, u

(* The elements of a sequence of nodes, one by one. *)
LEMMA ForwardDataIs ==
  ASSUME NEW h, NEW X, NEW s \in Seq(X)
  PROVE  /\ DOMAIN F!Data(h, s) = 1 .. Len(s) /\ Len(F!Data(h, s)) = Len(s)
         /\ F!Data(h, s) = [i \in 1 .. Len(s) |-> h[s[i]].data]
         /\ \A i \in 1 .. Len(s) : F!Data(h, s)[i] = h[s[i]].data
<1>1. DOMAIN s = 1 .. Len(s) /\ Len(s) \in Nat
  OBVIOUS
<1>2. F!Data(h, s) = [i \in 1 .. Len(s) |-> h[s[i]].data]
  BY <1>1 DEF F!Data
<1>3. Len(F!Data(h, s)) = Len(s)
  BY <1>1, <1>2
<1>4. QED
  BY <1>2, <1>3

(* What a call finds in a forward list. *)
LEMMA ForwardFacts ==
  ASSUME NEW ls, NEW h, ChainsTyped(ls, h), NEW r, Chains(ls, h, r), NEW l \in Lists, NEW q, q = ls[l], NEW s, s = r[l]
  PROVE  /\ q \in ForwardType /\ s \in Seq(Nodes) /\ Len(s) \in Nat /\ q.size = Len(s) /\ F!Chain(h, q.head) = s
         /\ Chained(h, q, s) /\ (\A n \in ToSet(s) : n \in DOMAIN h)
         /\ ~ q.live => Len(s) = 0
         /\ ForwardContents(ls, h)[l] = F!Data(h, s) /\ Len(F!Data(h, s)) = Len(s)
         /\ F!Data(h, s) \in Seq(ListElems)
<1>1. q \in ForwardType /\ (q.live \/ q.size = 0) /\ h \in [DOMAIN h -> LinkType] /\ DOMAIN h \subseteq Nodes
  BY DEF ChainsTyped
<1>2. Chained(h, q, s) /\ s \in Seq(Nodes) /\ \A n \in ToSet(s) : n \in DOMAIN h
  BY DEF Chains
<1>3. Len(s) \in Nat /\ q.size = Len(s)
  BY <1>2 DEF Chained
<1>4. F!Chain(h, q.head) = s
  <2>1. IsFiniteSet(DOMAIN h)
    BY <1>1, ListsAssumption, FS_Subset
  <2>2. QED
    BY <1>1, <1>2, <2>1, ChainIs
<1>5. F!Data(h, s) \in Seq(ListElems) /\ Len(F!Data(h, s)) = Len(s)
  <2> DEFINE n == Len(s)
             d == [i \in 1 .. n |-> h[s[i]].data]
  <2>1. F!Data(h, s) = d /\ Len(F!Data(h, s)) = Len(s)
    BY <1>2, ForwardDataIs
  <2>2. \A i \in 1 .. n : h[s[i]].data \in ListElems
    <3> SUFFICES ASSUME NEW i \in 1 .. n PROVE h[s[i]].data \in ListElems
      OBVIOUS
    <3>1. s[i] \in DOMAIN h
      BY <1>2, InSet
    <3>2. h[s[i]] \in LinkType
      BY <1>1, <3>1
    <3>3. QED
      BY <3>2 DEF LinkType
  <2> HIDE DEF n
  <2>3. n \in Nat
    BY <1>3 DEF n
  <2>4. d \in Seq(ListElems)
    BY <2>2, <2>3
  <2>5. QED
    BY <2>1, <2>4
<1>6. ForwardContents(ls, h)[l] = F!Data(h, s)
  BY <1>4 DEF ForwardContents
<1>7. QED
  BY <1>1, <1>2, <1>3, <1>4, <1>5, <1>6

\* The list l becomes u, and its elements d.
ForwardBecome(ls, h, l, u, g, d) ==
  /\ ChainInv([ls EXCEPT ![l] = u], g)
  /\ ForwardContents([ls EXCEPT ![l] = u], g) = [ForwardContents(ls, h) EXCEPT ![l] = d]

(* forward_list_push_front. *)
LEMMA HeadedInv ==
  ASSUME NEW ls, NEW h, ChainsTyped(ls, h), NEW r, Chains(ls, h, r), NEW l \in Lists, NEW q, q = ls[l], q.live,
         NEW n \in Nodes, n \notin DOMAIN h, NEW e \in ListElems, NEW g, g = LinkAdded(h, n, e, q.head)
  PROVE  ForwardBecome(ls, h, l, Headed(q, n), g, Inserted(F!Data(h, r[l]), 1, e))
<1> DEFINE s == r[l]
           t == Inserted(s, 1, n)
           u == Headed(q, n)
           c == Inserted(F!Data(h, s), 1, e)
<1>1. /\ q \in ForwardType /\ s \in Seq(Nodes) /\ Len(s) \in Nat /\ Chained(h, q, s) /\ \A m \in ToSet(s) : m \in DOMAIN h
  BY ForwardFacts
<1>2. DOMAIN h \subseteq Nodes /\ h \in [DOMAIN h -> LinkType]
  BY DEF ChainsTyped
<1>3. Chained(g, u, t) /\ LinkJoins(g, h, n, e)
  <2> HIDE DEF s
  <2>1. QED
    BY <1>1, <1>2, HeadedChain
<1>4. /\ DOMAIN g = DOMAIN h \cup {n} /\ g \in [DOMAIN g -> LinkType]
      /\ (\A m \in DOMAIN h : g[m] = h[m]) /\ g[n].data = e
  BY <1>3 DEF LinkJoins
<1>5. u \in ForwardType /\ u.live
  BY <1>1, HeadedFacts
<1>6. t \in Seq(Nodes) /\ Len(t) = Len(s) + 1 /\ \A m : m \in ToSet(t) <=> m = n \/ m \in ToSet(s)
  <2>1. 1 \in 1 .. Len(s) + 1
    BY <1>1
  <2>2. QED
    BY <1>1, <2>1, InsertedFacts
<1>7. F!Data(g, t) = c
  <2>1. /\ F!Data(g, t) = [i \in 1 .. Len(s) + 1 |-> g[t[i]].data]
    <3> HIDE DEF t
    <3>1. QED
      BY <1>6, ForwardDataIs
  <2>2. Len(F!Data(h, s)) = Len(s) /\ \A i \in 1 .. Len(s) : F!Data(h, s)[i] = h[s[i]].data
    BY <1>1, ForwardDataIs
  <2>3. c = [i \in 1 .. Len(s) + 1 |->
               IF i < 1 THEN F!Data(h, s)[i] ELSE IF i = 1 THEN e ELSE F!Data(h, s)[i - 1]]
    BY <2>2 DEF Inserted
  <2>4. ASSUME NEW i \in 1 .. Len(s) + 1
        PROVE  g[t[i]].data = IF i < 1 THEN F!Data(h, s)[i] ELSE IF i = 1 THEN e ELSE F!Data(h, s)[i - 1]
    <3>1. t[i] = IF i < 1 THEN s[i] ELSE IF i = 1 THEN n ELSE s[i - 1]
      BY DEF Inserted
    <3> HIDE DEF t, s
    <3>2. ~ (i < 1)
      BY <1>1
    <3>3. CASE i = 1
      BY <1>4, <3>1, <3>2, <3>3
    <3>4. CASE i # 1
      <4>1. i - 1 \in 1 .. Len(s)
        BY <1>1, <3>4
      <4>2. g[s[i - 1]] = h[s[i - 1]]
        BY <1>1, <1>4, <4>1, InSet
      <4>3. QED
        BY <2>2, <3>1, <3>2, <3>4, <4>1, <4>2
    <3>5. QED
      BY <3>3, <3>4
  <2> HIDE DEF t, c, s
  <2>5. QED
    BY <2>1, <2>3, <2>4
<1> HIDE DEF u, t, c
<1>8. ChainInv([ls EXCEPT ![l] = u], g)
      /\ ForwardContents([ls EXCEPT ![l] = u], g) = [ForwardContents(ls, h) EXCEPT ![l] = F!Data(g, t)]
  <2>1. DOMAIN g \subseteq Nodes /\ g \in [DOMAIN g -> LinkType] /\ (u.live \/ u.size = 0) /\ u \in ForwardType
        /\ t \in Seq(Nodes) /\ Chained(g, u, t)
    BY <1>2, <1>3, <1>4, <1>5, <1>6
  <2>2. \A m : m \in DOMAIN g <=> (m \in DOMAIN h /\ m \notin ToSet(r[l])) \/ m \in ToSet(t)
    BY <1>1, <1>4, <1>6
  <2>3. \A m \in ToSet(t) : m \in ToSet(r[l]) \/ m \notin DOMAIN h
    BY <1>6
  <2>4. \A m \in DOMAIN h : m \notin ToSet(r[l]) => g[m] = h[m]
    BY <1>4
  <2>5. QED
    BY <2>1, <2>2, <2>3, <2>4, ChainFrame
<1>9. QED
  BY <1>7, <1>8 DEF c, u, ForwardBecome

(* All nodes of a forward list are freed. *)
LEMMA ForwardEmptied ==
  ASSUME NEW ls, NEW h, ChainsTyped(ls, h), NEW r, Chains(ls, h, r), NEW l \in Lists,
         NEW u \in ForwardType, u.size = 0, u.head = Null, u.tail = Null, NEW g, g = F!Without(h, ToSet(r[l]))
  PROVE  ForwardBecome(ls, h, l, u, g, << >>)
<1> DEFINE R == ToSet(r[l])
<1>1. h \in [DOMAIN h -> LinkType] /\ DOMAIN h \subseteq Nodes
  BY DEF ChainsTyped
<1>2. g = [n \in DOMAIN h \ R |-> h[n]]
  BY DEF F!Without
<1> HIDE DEF R
<1>3. DOMAIN g = DOMAIN h \ R /\ g \in [DOMAIN g -> LinkType] /\ \A n \in DOMAIN g : g[n] = h[n]
  BY <1>1, <1>2
<1> DEFINE s == << >>
<1>4. s \in Seq(Nodes) /\ Len(s) = 0 /\ ToSet(s) = {} /\ DOMAIN s = {}
  BY DEF ToSet
<1>5. F!Data(g, s) = s
  BY DEF F!Data
<1> HIDE DEF s
<1>6. Chained(g, u, s)
  BY <1>4 DEF Chained, Distinct, Front1, Tail1
<1>7. ChainInv([ls EXCEPT ![l] = u], g)
      /\ ForwardContents([ls EXCEPT ![l] = u], g) = [ForwardContents(ls, h) EXCEPT ![l] = F!Data(g, s)]
  <2>1. \A n : n \in DOMAIN g <=> (n \in DOMAIN h /\ n \notin ToSet(r[l])) \/ n \in ToSet(s)
    BY <1>3, <1>4 DEF R
  <2>2. \A n \in ToSet(s) : n \in ToSet(r[l]) \/ n \notin DOMAIN h
    BY <1>4
  <2>3. \A n \in DOMAIN h : n \notin ToSet(r[l]) => g[n] = h[n]
    BY <1>3 DEF R
  <2>4. DOMAIN g \subseteq Nodes
    BY <1>1, <1>3
  <2>5. (u.live \/ u.size = 0) /\ g \in [DOMAIN g -> LinkType] /\ s \in Seq(Nodes)
    BY <1>3, <1>4
  <2>6. QED
    BY <1>6, <2>1, <2>2, <2>3, <2>4, <2>5, ChainFrame
<1>8. QED
  BY <1>5, <1>7 DEF s, ForwardBecome

\* The structure of a list without its head.
Beheaded(q, head) == [q EXCEPT !.size = @ - 1, !.head = head]

(* The structure that forward_list_pop_front leaves. *)
LEMMA BeheadedFacts ==
  ASSUME NEW q \in ForwardType, NEW n \in Nodes, q.size > 0
  PROVE  /\ Beheaded(q, n) \in ForwardType /\ Beheaded(q, n).live = q.live /\ Beheaded(q, n).size = q.size - 1
         /\ Beheaded(q, n).head = n /\ Beheaded(q, n).tail = q.tail
<1> DEFINE z == q.size - 1
<1>1. z \in Nat
  BY DEF ForwardType
<1>2. Beheaded(q, n) = [q EXCEPT !.size = z, !.head = n]
  BY DEF Beheaded
<1> HIDE DEF z
<1>3. LET u == [q EXCEPT !.size = z, !.head = n] IN
      u \in ForwardType /\ u.live = q.live /\ u.size = z /\ u.head = n /\ u.tail = q.tail
  BY <1>1 DEF ForwardType
<1>4. QED
  BY <1>2, <1>3 DEF z

\* d has the data in h of the nodes of s.
DataOf(d, h, s) == d = [i \in 1 .. Len(s) |-> h[s[i]].data]

(* The elements of the nodes of s are such data. *)
LEMMA ForwardDataOf ==
  ASSUME NEW h, NEW s \in Seq(Nodes)
  PROVE  DataOf(F!Data(h, s), h, s)
BY ForwardDataIs DEF DataOf

(* ChainFrame, told of the structure and the elements together. *)
LEMMA ChainBecomes ==
  ASSUME NEW ls, NEW h, ChainsTyped(ls, h), NEW r, Chains(ls, h, r), NEW l \in Lists,
         NEW q \in ForwardType, q.live \/ q.size = 0,
         NEW g, DOMAIN g \subseteq Nodes, g \in [DOMAIN g -> LinkType],
         NEW s \in Seq(Nodes), Chained(g, q, s),
         \A n : n \in DOMAIN g <=> (n \in DOMAIN h /\ n \notin ToSet(r[l])) \/ n \in ToSet(s),
         \A n \in ToSet(s) : n \in ToSet(r[l]) \/ n \notin DOMAIN h,
         \A n \in DOMAIN h : n \notin ToSet(r[l]) => g[n] = h[n]
  PROVE  ForwardBecome(ls, h, l, q, g, F!Data(g, s))
BY ChainFrame DEF ForwardBecome

(* forward_list_pop_front of one of several nodes. *)
LEMMA BeheadedInv ==
  ASSUME NEW ls, NEW h, ChainsTyped(ls, h), NEW r, Chains(ls, h, r), NEW l \in Lists, NEW q, q = ls[l], q.live,
         NEW s, s = r[l], Len(s) > 1, NEW u, u = Beheaded(q, s[2]), NEW g, g = F!Without(h, {s[1]})
  PROVE  ForwardBecome(ls, h, l, u, g, Cut(F!Data(h, s), 1))
<1> DEFINE t == Cut(s, 1)
           M == Len(s) - 1
           n == s[1]
           c == Cut(F!Data(h, s), 1)
<1>1. /\ q \in ForwardType /\ s \in Seq(Nodes) /\ Len(s) \in Nat /\ q.size = Len(s)
      /\ Chained(h, q, s) /\ \A m \in ToSet(s) : m \in DOMAIN h
  BY ForwardFacts
<1>2. Distinct(s) /\ q.tail = Tail1(s) /\ \A i \in 1 .. Len(s) : ChainLink(h, s, i)
  BY <1>1 DEF Chained
<1>3. M \in Nat /\ M > 0 /\ 1 \in 1 .. Len(s) /\ 2 \in 1 .. Len(s) /\ 1 \in 1 .. M /\ M \in 1 .. M
  BY <1>1
<1>4. DOMAIN h \subseteq Nodes /\ h \in [DOMAIN h -> LinkType]
  BY DEF ChainsTyped
<1>5. g = [m \in DOMAIN h \ {n} |-> h[m]]
  BY DEF F!Without
<1> HIDE DEF n
<1>6. DOMAIN g = DOMAIN h \ {n} /\ g \in [DOMAIN g -> LinkType] /\ \A m \in DOMAIN g : g[m] = h[m]
  BY <1>4, <1>5
<1>7. t \in Seq(Nodes) /\ Len(t) = M /\ Distinct(t) /\ \A y : y \in ToSet(t) <=> y \in ToSet(s) /\ y # n
  BY <1>1, <1>2, <1>3, CutFacts DEF n
<1>8. \A i \in 1 .. M : t[i] = s[i + 1] /\ i + 1 \in 1 .. Len(s)
  <2>1. \A i \in 1 .. M : t[i] = IF i < 1 THEN s[i] ELSE s[i + 1]
    BY DEF Cut
  <2> HIDE DEF t
  <2>2. \A i \in 1 .. M : ~ (i < 1) /\ i + 1 \in 1 .. Len(s)
    BY <1>1
  <2>3. QED
    BY <2>1, <2>2
<1> HIDE DEF t
<1>9. s[2] \in Nodes
  BY <1>1, <1>3
<1>10. /\ u \in ForwardType /\ u.live /\ u.size = M /\ u.head = s[2] /\ u.tail = q.tail
  <2>1. q.size > 0
    BY <1>1, <1>3
  <2>2. QED
    BY <1>1, <1>9, <2>1, BeheadedFacts
<1>11. u.head = Front1(t)
  BY <1>3, <1>7, <1>8, <1>10 DEF Front1
<1>12. u.tail = Tail1(t)
  <2>1. t[M] = s[M + 1] /\ M + 1 = Len(s) /\ Len(s) # 0 /\ M # 0
    BY <1>1, <1>3, <1>8
  <2>2. QED
    BY <1>2, <1>7, <1>10, <2>1 DEF Tail1
<1>13. ASSUME NEW i \in 1 .. M PROVE ChainLink(g, t, i)
  <2>1. t[i] = s[i + 1] /\ i + 1 \in 1 .. Len(s) /\ (i = M <=> i + 1 = Len(s)) /\ (i # M => i + 1 \in 1 .. M)
    BY <1>1, <1>8
  <2>2. ChainLink(h, s, i + 1)
    BY <1>2, <2>1
  <2>3. t[i] # n
    <3>1. i + 1 # 1
      BY <1>3
    <3>2. QED
      BY <1>2, <1>3, <2>1, <3>1 DEF Distinct, n
  <2>4. i # M => t[i + 1] = s[(i + 1) + 1]
    BY <1>8, <2>1
  <2>5. QED
    BY <1>6, <1>7, <2>1, <2>2, <2>3, <2>4 DEF ChainLink
<1>14. Chained(g, u, t)
  BY <1>7, <1>10, <1>11, <1>12, <1>13 DEF Chained
<1>15. F!Data(g, t) = c
  <2>1. F!Data(g, t) = [i \in 1 .. M |-> g[t[i]].data]
    <3> HIDE DEF M, c
    <3>1. DataOf(F!Data(g, t), g, t)
      BY <1>7, ForwardDataOf
    <3>2. F!Data(g, t) = [i \in 1 .. Len(t) |-> g[t[i]].data]
      BY <3>1 DEF DataOf
    <3>3. QED
      BY <1>7, <3>2
  <2>2. Len(F!Data(h, s)) = Len(s) /\ \A i \in 1 .. Len(s) : F!Data(h, s)[i] = h[s[i]].data
    BY <1>1, ForwardDataIs
  <2>3. c = [i \in 1 .. M |-> IF i < 1 THEN F!Data(h, s)[i] ELSE F!Data(h, s)[i + 1]]
    BY <2>2 DEF Cut
  <2>4. ASSUME NEW i \in 1 .. M PROVE g[t[i]].data = IF i < 1 THEN F!Data(h, s)[i] ELSE F!Data(h, s)[i + 1]
    <3>1. t[i] = s[i + 1] /\ i + 1 \in 1 .. Len(s) /\ ~ (i < 1)
      BY <1>3, <1>8
    <3>2. g[t[i]] = h[t[i]]
      BY <1>6, <1>13 DEF ChainLink
    <3>3. QED
      BY <2>2, <3>1, <3>2
  <2> HIDE DEF c, M
  <2>5. QED
    BY <2>1, <2>3, <2>4
<1> HIDE DEF c, M
<1>16. ForwardBecome(ls, h, l, u, g, F!Data(g, t))
  <2>1. DOMAIN g \subseteq Nodes /\ g \in [DOMAIN g -> LinkType] /\ (u.live \/ u.size = 0) /\ u \in ForwardType
        /\ t \in Seq(Nodes) /\ Chained(g, u, t)
    BY <1>4, <1>6, <1>7, <1>10, <1>14
  <2>2. n \in ToSet(s)
    BY <1>1, <1>3, InSet DEF n
  <2>3. \A m : m \in DOMAIN g <=> (m \in DOMAIN h /\ m \notin ToSet(r[l])) \/ m \in ToSet(t)
    BY <1>1, <1>6, <1>7, <2>2
  <2>4. \A m \in ToSet(t) : m \in ToSet(r[l]) \/ m \notin DOMAIN h
    BY <1>1, <1>7
  <2>5. \A m \in DOMAIN h : m \notin ToSet(r[l]) => g[m] = h[m]
    BY <1>6, <2>2
  <2>6. QED
    BY <2>1, <2>3, <2>4, <2>5, ChainBecomes
<1>17. QED
  BY <1>15, <1>16 DEF c

\* The structure of a list whose nodes are those of t.
Rejoined(q, t) == [q EXCEPT !.head = t[1], !.tail = t[Len(t)]]

\* g is h with the nodes of t, and no others, linked anew.
LinkedAnew(g, h, t) ==
  /\ DOMAIN g = DOMAIN h /\ g \in [DOMAIN g -> LinkType]
  /\ \A n \in DOMAIN h : g[n].data = h[n].data /\ (n \notin ToSet(t) => g[n] = h[n])

(* The nodes of a sorted forward list are linked to a chain again. *)
LEMMA JoinedChain ==
  ASSUME NEW D, NEW h \in [D -> LinkType], NEW t \in Seq(Nodes), Distinct(t), Len(t) > 1,
         \A n \in ToSet(t) : n \in D, NEW u, u.size = Len(t), u.head = t[1], u.tail = t[Len(t)],
         NEW g, g = F!Joined(h, t)
  PROVE  Chained(g, u, t) /\ LinkedAnew(g, h, t)
<1> DEFINE T == F!ToSet(t)
           N == Len(t)
           place == [n \in DOMAIN h |-> CHOOSE j \in DOMAIN t : t[j] = n]
           after == [i \in 1 .. N |-> IF i = N THEN Null ELSE t[i + 1]]
<1>1. N \in Nat /\ N > 1 /\ DOMAIN t = 1 .. N /\ T = ToSet(t) /\ DOMAIN h = D
      /\ \A i \in 1 .. N : t[i] \in Nodes /\ t[i] \in T /\ t[i] \in D
  BY SameToSet, InSet
<1>2. g = [n \in DOMAIN h |->
             IF n \notin T THEN h[n]
             ELSE [h[n] EXCEPT !.next = IF (CHOOSE j \in DOMAIN t : t[j] = n) = N THEN Null
                                        ELSE t[(CHOOSE j \in DOMAIN t : t[j] = n) + 1]]]
  BY DEF F!Joined
<1>3. ASSUME NEW i \in 1 .. N PROVE (CHOOSE j \in DOMAIN t : t[j] = t[i]) = i
  <2>1. \A j \in DOMAIN t : t[j] = t[i] => j = i
    BY <1>1 DEF Distinct
  <2>2. QED
    BY <1>1, <2>1
<1>4. \A i \in 1 .. N : after[i] \in Nodes \cup {Null} /\ after[i] = IF i = N THEN Null ELSE t[i + 1]
  <2> SUFFICES ASSUME NEW i \in 1 .. N PROVE after[i] \in Nodes \cup {Null}
    OBVIOUS
  <2>1. CASE i = N
    BY <2>1
  <2>2. CASE i # N
    <3> HIDE DEF N, after
    <3>1. i + 1 \in 1 .. N
      BY <1>1, <2>2
    <3>2. after[i] = t[i + 1]
      BY <2>2 DEF after
    <3>3. QED
      BY <1>1, <3>1, <3>2
  <2>3. QED
    BY <2>1, <2>2
<1> HIDE DEF T
<1>5. ASSUME NEW i \in 1 .. N PROVE g[t[i]] = [h[t[i]] EXCEPT !.next = after[i]]
  <2> DEFINE n == t[i]
             k == CHOOSE j \in DOMAIN t : t[j] = n
  <2>1. n \in DOMAIN h /\ n \in T /\ k = i
    BY <1>1, <1>3
  <2>2. g[n] = [h[n] EXCEPT !.next = IF k = N THEN Null ELSE t[k + 1]]
    <3> HIDE DEF n
    <3>1. QED
      BY <1>2, <2>1
  <2> HIDE DEF n, k
  <2>3. g[n] = [h[n] EXCEPT !.next = IF i = N THEN Null ELSE t[i + 1]]
    BY <2>1, <2>2
  <2>4. QED
    BY <2>3 DEF n
<1> HIDE DEF after
<1>6. ASSUME NEW i \in 1 .. N
      PROVE  g[t[i]] \in LinkType /\ g[t[i]].data = h[t[i]].data /\ g[t[i]].next = after[i]
  <2> DEFINE x == after[i]
             m == h[t[i]]
  <2>1. m \in LinkType /\ x \in Nodes \cup {Null} /\ g[t[i]] = [m EXCEPT !.next = x]
    BY <1>1, <1>4, <1>5
  <2> HIDE DEF x, m
  <2>2. g[t[i]] \in LinkType /\ g[t[i]].data = m.data /\ g[t[i]].next = x
    BY <2>1 DEF LinkType
  <2>3. QED
    BY <2>2 DEF m, x
<1>7. DOMAIN g = D /\ \A n \in D : n \notin T => g[n] = h[n]
  BY <1>1, <1>2
<1>8. ASSUME NEW n \in D PROVE g[n] \in LinkType /\ g[n].data = h[n].data
  <2>1. CASE n \in T
    <3>1. PICK i \in 1 .. N : t[i] = n
      BY <1>1, <2>1, InSet
    <3>2. QED
      BY <1>6, <3>1
  <2>2. CASE n \notin T
    BY <1>7, <2>2
  <2>3. QED
    BY <2>1, <2>2
<1>9. g \in [DOMAIN g -> LinkType]
  <2>1. g = [n \in DOMAIN g |-> g[n]]
    BY <1>2
  <2>2. QED
    BY <1>7, <1>8, <2>1
<1>10. LinkedAnew(g, h, t)
  <2>1. T = ToSet(t) /\ DOMAIN h = D
    BY <1>1
  <2>2. \A n \in D : g[n].data = h[n].data /\ (n \notin T => g[n] = h[n])
    BY <1>7, <1>8
  <2> HIDE DEF T
  <2>3. QED
    BY <1>7, <1>9, <2>1, <2>2 DEF LinkedAnew
<1>11. ASSUME NEW i \in 1 .. N PROVE ChainLink(g, t, i)
  <2>1. t[i] \in DOMAIN g
    BY <1>1, <1>7
  <2>2. g[t[i]].next = IF i = N THEN Null ELSE t[i + 1]
    BY <1>4, <1>6
  <2>3. QED
    BY <2>1, <2>2 DEF ChainLink
<1>12. Chained(g, u, t)
  BY <1>1, <1>11 DEF Chained, Front1, Tail1
<1>13. QED
  BY <1>10, <1>12

(* forward_list_sort. *)
LEMMA ForwardSortInv ==
  ASSUME NEW ls, NEW h, ChainsTyped(ls, h), NEW r, Chains(ls, h, r), NEW l \in Lists, NEW q, q = ls[l], q.live,
         NEW s, s = r[l], Len(s) > 1, NEW key, key = KeyOf(h),
         NEW t, t = ForwardSorted(s, key), NEW u, u = Rejoined(q, t), NEW g, g = F!Joined(h, t)
  PROVE  /\ ForwardBecome(ls, h, l, u, g, F!Data(g, t))
         /\ SortedBy(F!Data(h, s), F!Data(g, t), FALSE)
<1> DEFINE D == DOMAIN h
           X == ToSet(s)
           N == Len(s)
<1>1. /\ Chained(h, q, s) /\ s \in Seq(Nodes) /\ N \in Nat /\ N > 1 /\ Distinct(s) /\ q.size = N
      /\ \A n \in X : n \in D
  BY ForwardFacts DEF Chained
<1>2. D \subseteq Nodes /\ h \in [D -> LinkType] /\ q \in ForwardType
  BY DEF ChainsTyped
<1>3. \A n \in X : n \in D /\ h[n].data \in ListElems
  BY <1>1, <1>2 DEF LinkType
<1>4. Sortable(s, key, X)
  BY <1>1, <1>3, ListSortable DEF KeyOf
<1> HIDE DEF X
<1>5. /\ Arranges(t, s, X)
      /\ \A i, j \in 1 .. N : i < j => key[t[i]] <= key[t[j]]
  BY <1>4, MergeSortSorts
<1>6. X \subseteq Nodes
  BY <1>1, InSet DEF X
<1>7. t \in Seq(Nodes) /\ Distinct(t) /\ Len(t) = N /\ ToSet(t) = X /\ \A i \in 1 .. N : t[i] \in X
  <2>1. t \in Seq(X) /\ Distinct(t) /\ Len(t) = N /\ ToSet(t) = X
    BY <1>5 DEF Arranges
  <2>2. \A i \in 1 .. N : t[i] \in X
    BY <2>1
  <2>3. t \in Seq(Nodes)
    BY <1>6, <2>1
  <2>4. QED
    BY <2>1, <2>2, <2>3
<1> HIDE DEF N
<1>8. u \in ForwardType /\ u.live /\ u.size = Len(t) /\ u.head = t[1] /\ u.tail = t[Len(t)]
  <2> DEFINE x == t[1]
             y == t[Len(t)]
  <2>1. 1 \in 1 .. N /\ N \in 1 .. N
    BY <1>1
  <2>2. x \in Nodes /\ y \in Nodes
    BY <1>6, <1>7, <2>1
  <2>3. u = [q EXCEPT !.head = x, !.tail = y]
    BY DEF Rejoined
  <2> HIDE DEF x, y
  <2>4. u \in ForwardType /\ u.live = q.live /\ u.size = q.size /\ u.head = x /\ u.tail = y
    BY <1>2, <2>2, <2>3 DEF ForwardType
  <2>5. QED
    BY <1>1, <1>7, <2>4 DEF x, y
<1>9. Chained(g, u, t) /\ LinkedAnew(g, h, t)
  <2>1. Len(t) > 1 /\ \A n \in ToSet(t) : n \in D
    BY <1>1, <1>3, <1>7
  <2> HIDE DEF D
  <2>2. QED
    BY <1>2, <1>7, <1>8, <2>1, JoinedChain
<1>10. /\ DOMAIN g = D /\ g \in [DOMAIN g -> LinkType]
       /\ \A n \in D : g[n].data = h[n].data /\ (n \notin ToSet(t) => g[n] = h[n])
  BY <1>9 DEF LinkedAnew
<1>11. ForwardBecome(ls, h, l, u, g, F!Data(g, t))
  <2>1. u.live \/ u.size = 0
    BY <1>8
  <2>2. DOMAIN g \subseteq Nodes
    BY <1>2, <1>10
  <2>3. ToSet(t) = ToSet(r[l])
    BY <1>7 DEF X
  <2>4. \A n : n \in DOMAIN g <=> (n \in DOMAIN h /\ n \notin ToSet(r[l])) \/ n \in ToSet(t)
    BY <1>3, <1>10, <2>3 DEF X
  <2>5. \A n \in ToSet(t) : n \in ToSet(r[l]) \/ n \notin DOMAIN h
    BY <2>3
  <2>6. \A n \in DOMAIN h : n \notin ToSet(r[l]) => g[n] = h[n]
    BY <1>10, <2>3
  <2>7. t \in Seq(Nodes) /\ u \in ForwardType /\ Chained(g, u, t) /\ g \in [DOMAIN g -> LinkType]
    BY <1>7, <1>8, <1>9, <1>10
  <2> HIDE DEF D
  <2>8. QED
    BY <2>1, <2>2, <2>4, <2>5, <2>6, <2>7, ChainBecomes
<1>12. SortedBy(F!Data(h, s), F!Data(g, t), FALSE)
  <2> DEFINE c == F!Data(h, s)
             d == F!Data(g, t)
  <2>1. c = [i \in 1 .. N |-> h[s[i]].data]
    <3>1. DataOf(c, h, s)
      BY <1>1, ForwardDataOf
    <3>2. QED
      BY <3>1 DEF DataOf, N
  <2>2. d = [i \in 1 .. N |-> g[t[i]].data]
    <3>1. DataOf(d, g, t)
      BY <1>7, ForwardDataOf
    <3> HIDE DEF d
    <3>2. QED
      BY <1>7, <3>1 DEF DataOf
  <2> HIDE DEF c, d
  <2>3. DOMAIN c = 1 .. N /\ DOMAIN d = 1 .. N /\ Len(c) = N /\ Len(d) = N
        /\ (\A i \in 1 .. N : c[i] = h[s[i]].data) /\ \A i \in 1 .. N : d[i] = g[t[i]].data
    BY <1>1, <2>1, <2>2
  <2>4. ASSUME NEW i \in 1 .. N PROVE key[s[i]] = ListKey(c[i])
    <3>1. s[i] \in D
      BY <1>1, InSet DEF X, N
    <3>2. QED
      BY <2>3, <3>1 DEF KeyOf
  <2>5. ASSUME NEW i \in 1 .. N, NEW j \in 1 .. N, t[i] = s[j] PROVE d[i] = c[j]
    <3>1. g[t[i]].data = h[t[i]].data
      BY <1>3, <1>7, <1>10
    <3>2. QED
      BY <2>3, <2>5, <3>1
  <2>6. Ordered(t, s, key, FALSE) /\ FALSE \in BOOLEAN
    BY <1>5 DEF Ordered, N
  <2> HIDE DEF D
  <2>7. s \in Seq(Nodes) /\ Arranges(t, s, X)
    BY <1>1, <1>5
  <2>8. Follows(c, d, s, t, key)
    BY <2>3, <2>4, <2>5 DEF Follows, N
  <2>9. SortedBy(c, d, FALSE)
    BY <1>4, <2>6, <2>7, <2>8, SortedData
  <2>10. QED
    BY <2>9 DEF c, d
<1>13. QED
  BY <1>11, <1>12

(* No forward list has a node at first. *)
LEMMA NoLinks ==
  ASSUME NEW ls, ls = [l \in Lists |-> F!Fresh], NEW h, h = << >>
  PROVE  ChainInv(ls, h) /\ ForwardContents(ls, h) = [l \in Lists |-> << >>]
<1> DEFINE none == << >>
           r == [l \in Lists |-> none]
<1>1. none \in Seq(Nodes) /\ Len(none) = 0 /\ ToSet(none) = {} /\ F!Data(h, none) = none
  BY DEF ToSet, F!Data
<1>2. DOMAIN h = {} /\ h \in [DOMAIN h -> LinkType]
  OBVIOUS
<1> HIDE DEF none
<1>3. r \in [Lists -> Seq(Nodes)] /\ \A l \in Lists : r[l] = none
  BY <1>1
<1>4. ls \in [Lists -> ForwardType] /\ \A l \in Lists : ls[l].head = Null /\ ls[l].tail = Null /\ ls[l].size = 0
  BY DEF F!Fresh, ForwardType
<1> HIDE DEF r
<1>5. \A l \in Lists : Chained(h, ls[l], r[l])
  BY <1>1, <1>3, <1>4 DEF Chained, Distinct, Front1, Tail1
<1>6. Chains(ls, h, r)
  BY <1>1, <1>2, <1>3, <1>5 DEF Chains
<1>7. ChainsTyped(ls, h)
  BY <1>2, <1>4 DEF ChainsTyped
<1>8. ForwardContents(ls, h) = [l \in Lists |-> none]
  BY <1>1, <1>3, <1>6, <1>7, ForwardContentsIs
<1>9. QED
  BY <1>6, <1>7, <1>8 DEF ChainInv, none

(* forward_list_swap exchanges the structures. *)
LEMMA ForwardSwapInv ==
  ASSUME NEW ls, NEW h, ChainInv(ls, h), NEW l \in Lists, NEW m \in Lists
  PROVE  /\ ChainInv(Exchanged(ls, l, m), h)
         /\ ForwardContents(Exchanged(ls, l, m), h) = Exchanged(ForwardContents(ls, h), l, m)
<1>1. ChainsTyped(ls, h)
  BY DEF ChainInv
<1>2. PICK r : Chains(ls, h, r)
  BY DEF ChainInv
<1> DEFINE at(k) == Other(k, l, m)
           ms == Exchanged(ls, l, m)
           t == Exchanged(r, l, m)
           c == ForwardContents(ls, h)
<1>3. \A k \in Lists : at(k) \in Lists /\ at(at(k)) = k
  BY DEF Other
<1>4. DOMAIN ls = Lists /\ DOMAIN r = Lists /\ DOMAIN c = Lists
  BY <1>1, <1>2 DEF ChainsTyped, Chains, ForwardContents
<1>5. Exchanges(ms, ls, Lists, l, m) /\ Exchanges(t, r, Lists, l, m)
  BY <1>4, ExchangedFacts
<1>6. Exchanges(Exchanged(c, l, m), c, Lists, l, m)
  <2> HIDE DEF c
  <2>1. QED
    BY <1>4, ExchangedFacts
<1> HIDE DEF ms, t
<1>7. DOMAIN ms = Lists /\ ms = [k \in Lists |-> ms[k]] /\ \A k \in Lists : ms[k] = ls[at(k)]
  BY <1>5 DEF Exchanges
<1>8. DOMAIN t = Lists /\ t = [k \in Lists |-> t[k]] /\ \A k \in Lists : t[k] = r[at(k)]
  BY <1>5 DEF Exchanges
<1>9. Exchanged(c, l, m) = [k \in Lists |-> c[at(k)]]
  <2> DEFINE d == Exchanged(c, l, m)
  <2> HIDE DEF d, c
  <2>1. d = [k \in Lists |-> d[k]] /\ \A k \in Lists : d[k] = c[at(k)]
    BY <1>6 DEF Exchanges, d
  <2>2. d = [k \in Lists |-> c[at(k)]]
    BY <2>1
  <2>3. QED
    BY <2>2 DEF d
<1> HIDE DEF at
<1>10. ms \in [Lists -> ForwardType] /\ t \in [Lists -> Seq(Nodes)]
  <2>1. \A k \in Lists : ms[k] \in ForwardType
    BY <1>1, <1>3, <1>7 DEF ChainsTyped
  <2>2. \A k \in Lists : t[k] \in Seq(Nodes)
    BY <1>2, <1>3, <1>8 DEF Chains
  <2>3. QED
    BY <1>7, <1>8, <2>1, <2>2
<1>11. ChainsTyped(ms, h)
  BY <1>1, <1>3, <1>7, <1>10 DEF ChainsTyped
<1>12. Chains(ms, h, t)
  <2>1. \A k \in Lists : Chained(h, ms[k], t[k])
    BY <1>2, <1>3, <1>7, <1>8 DEF Chains
  <2>2. \A n : n \in DOMAIN h <=> \E k \in Lists : n \in ToSet(t[k])
    <3> TAKE n
    <3>1. n \in DOMAIN h <=> \E k \in Lists : n \in ToSet(r[k])
      BY <1>2 DEF Chains
    <3>2. (\E k \in Lists : n \in ToSet(r[k])) <=> \E k \in Lists : n \in ToSet(t[k])
      BY <1>3, <1>8
    <3>3. QED
      BY <3>1, <3>2
  <2>3. \A j, k \in Lists : \A n : n \in ToSet(t[j]) /\ n \in ToSet(t[k]) => j = k
    <3> SUFFICES ASSUME NEW j \in Lists, NEW k \in Lists, NEW n, n \in ToSet(t[j]), n \in ToSet(t[k]) PROVE j = k
      OBVIOUS
    <3>1. at(j) = at(k)
      BY <1>2, <1>3, <1>8 DEF Chains
    <3>2. QED
      BY <1>3, <3>1
  <2>4. QED
    BY <1>10, <2>1, <2>2, <2>3 DEF Chains
<1>13. ForwardContents(ms, h) = [k \in Lists |-> c[at(k)]]
  <2>1. \A k \in Lists : c[at(k)] = F!Data(h, F!Chain(h, ms[k].head))
    BY <1>3, <1>7 DEF ForwardContents
  <2>2. QED
    BY <2>1 DEF ForwardContents
<1>14. QED
  BY <1>9, <1>11, <1>12, <1>13 DEF ChainInv, ms

\* What the forward lists, their heap and their answers are always like.
ForwardInv == ChainInv(flist, fheap) /\ fret \in {"CS_SUCCESS", "CS_MEM", "CS_EMPTY"}

\* r has the nodes of each forward list.
ForwardNow(r) == ForwardInv /\ ChainsTyped(flist, fheap) /\ Chains(flist, fheap, r)

ForwardLive(l) == l \in Lists /\ flist[l].live

\* The elements of l.
ForwardElements(l) == ForwardContents(flist, fheap)[l]

(* What a call finds in a forward list, in any state. *)
LEMMA ForwardNowFacts ==
  ASSUME NEW r, ForwardNow(r), NEW l \in Lists, NEW q, q = flist[l], NEW s, s = r[l]
  PROVE  /\ flist \in [Lists -> ForwardType]
         /\ q \in ForwardType /\ s \in Seq(Nodes) /\ Len(s) \in Nat /\ q.size = Len(s) /\ F!Chain(fheap, q.head) = s
         /\ ForwardElements(l) = F!Data(fheap, s) /\ ForwardElements(l) \in Seq(ListElems)
         /\ Len(ForwardElements(l)) = Len(s)
<1>1. ChainsTyped(flist, fheap) /\ Chains(flist, fheap, r)
  BY DEF ForwardNow
<1>2. flist \in [Lists -> ForwardType]
  BY <1>1 DEF ChainsTyped
<1>3. /\ q \in ForwardType /\ s \in Seq(Nodes) /\ Len(s) \in Nat /\ q.size = Len(s) /\ F!Chain(fheap, q.head) = s
      /\ ForwardContents(flist, fheap)[l] = F!Data(fheap, s) /\ Len(F!Data(fheap, s)) = Len(s)
      /\ F!Data(fheap, s) \in Seq(ListElems)
  BY <1>1, ForwardFacts
<1>4. QED
  BY <1>2, <1>3 DEF ForwardElements

(* An operation that succeeds changes the elements of its list only. *)
LEMMA ForwardBecomes ==
  ASSUME NEW r, ForwardNow(r), NEW l, ForwardLive(l), NEW u, u.live, NEW g, NEW d, F!Becomes(l, u, g),
         ForwardBecome(flist, fheap, l, u, g, d)
  PROVE  ForwardInv' /\ F!Abs!Becomes(l, d)
<1>1. flist' = [flist EXCEPT ![l] = u] /\ fheap' = g /\ fret' = "CS_SUCCESS"
  BY DEF F!Becomes
<1>2. ChainInv(flist', fheap') /\ ForwardContents(flist', fheap') = [ForwardContents(flist, fheap) EXCEPT ![l] = d]
  BY <1>1 DEF ForwardBecome
<1>3. flist \in [Lists -> ForwardType]
  BY DEF ForwardNow, ChainsTyped
<1>4. {k \in Lists : flist'[k].live} = {k \in Lists : flist[k].live}
  BY <1>1, <1>3 DEF ForwardLive
<1>5. ForwardInv'
  BY <1>1, <1>2 DEF ForwardInv
<1>6. F!Abs!Becomes(l, d)
  BY <1>1, <1>2, <1>4 DEF F!Abs!Becomes, ForwardContents
<1>7. QED
  BY <1>5, <1>6

(* A refused call changes nothing. *)
LEMMA ForwardRefuses ==
  ASSUME ForwardInv, NEW code \in {"CS_SUCCESS", "CS_MEM", "CS_EMPTY"}, F!Refuse(code)
  PROVE  ForwardInv' /\ F!Abs!Refuse(code)
<1>1. flist' = flist /\ fheap' = fheap /\ fret' = code
  BY DEF F!Refuse
<1>2. ForwardInv'
  BY <1>1 DEF ForwardInv
<1>3. F!Abs!Refuse(code)
  BY <1>1 DEF F!Abs!Refuse
<1>4. QED
  BY <1>2, <1>3

(* A call that changes nothing. *)
LEMMA ForwardIdleStep ==
  ASSUME NEW r, ForwardNow(r), NEW l, ForwardLive(l), NEW code \in {"CS_SUCCESS", "CS_MEM"}, F!Refuse(code)
  PROVE  ForwardInv' /\ F!Abs!Next
<1>1. ForwardInv' /\ F!Abs!Refuse(code)
  BY ForwardRefuses DEF ForwardNow
<1>2. F!Abs!Resize(l)
  BY <1>1 DEF F!Abs!Resize, ForwardLive
<1>3. QED
  BY <1>1, <1>2 DEF F!Abs!Next, ForwardLive

(* A pop of an empty forward list. *)
LEMMA ForwardNoneStep ==
  ASSUME NEW r, ForwardNow(r), NEW l, ForwardLive(l), F!Refuse("CS_EMPTY"), Len(r[l]) = 0
  PROVE  ForwardInv' /\ F!Abs!Next
<1>1. ForwardInv' /\ F!Abs!Refuse("CS_EMPTY")
  BY ForwardRefuses DEF ForwardNow
<1>2. ForwardElements(l) = << >>
  BY ForwardNowFacts, EmptySeq DEF ForwardLive
<1>3. F!Abs!PopFront(l)
  BY <1>1, <1>2 DEF F!Abs!PopFront, ForwardLive, ForwardElements, ForwardContents
<1>4. QED
  BY <1>1, <1>3 DEF F!Abs!Next, ForwardLive

(* forward_list_push_front. *)
LEMMA ForwardPushStep ==
  ASSUME NEW r, ForwardNow(r), NEW l, ForwardLive(l), NEW e \in ListElems, F!PushFront(l, e)
  PROVE  ForwardInv' /\ F!Abs!Next
<1> DEFINE q == flist[l]
           c == ForwardElements(l)
<1>1. l \in Lists /\ q.live /\ ChainsTyped(flist, fheap) /\ Chains(flist, fheap, r)
  BY DEF ForwardLive, ForwardNow
<1>2. q \in ForwardType /\ c = F!Data(fheap, r[l]) /\ c \in Seq(ListElems) /\ Len(c) \in Nat
  BY <1>1, ForwardNowFacts
<1>3. CASE F!Refuse("CS_MEM")
  <2> HIDE DEF q, c
  <2>1. QED
    BY <1>3, ForwardIdleStep
<1>4. CASE \E n \in Nodes \ DOMAIN fheap : F!Becomes(l, Headed(q, n), LinkAdded(fheap, n, e, q.head))
  <2>1. PICK n \in Nodes : n \notin DOMAIN fheap /\ F!Becomes(l, Headed(q, n), LinkAdded(fheap, n, e, q.head))
    BY <1>4
  <2> DEFINE u == Headed(q, n)
             g == LinkAdded(fheap, n, e, q.head)
             d == Inserted(c, 1, e)
  <2>2. u.live
    BY <1>1, <1>2, HeadedFacts
  <2>3. ForwardBecome(flist, fheap, l, u, g, Inserted(F!Data(fheap, r[l]), 1, e))
    BY <1>1, <2>1, HeadedInv
  <2>4. F!Becomes(l, u, g)
    BY <2>1
  <2> HIDE DEF u, g, c
  <2>5. ForwardBecome(flist, fheap, l, u, g, d)
    BY <1>2, <2>3
  <2>6. d = InsertAt(c, 1, e)
    <3>1. 1 \in 1 .. Len(c) + 1
      BY <1>2
    <3>2. QED
      BY <1>2, <3>1, InsertAtIs
  <2> HIDE DEF d
  <2>7. ForwardInv' /\ F!Abs!Becomes(l, d)
    BY <2>2, <2>4, <2>5, ForwardBecomes
  <2>8. F!Abs!Becomes(l, F!Abs!InsertAt(c, 0 + 1, e))
    BY <2>6, <2>7 DEF F!Abs!InsertAt, InsertAt
  <2>9. 0 \in 0 .. Len(c) /\ 0 \in -1 .. Len(c) + 1
    BY <1>2
  <2>10. F!Abs!Insert(l, e, 0)
    BY <2>8, <2>9 DEF F!Abs!Insert, ForwardLive, ForwardElements, ForwardContents, c
  <2>11. F!Abs!Next
    BY <1>1, <2>9, <2>10 DEF F!Abs!Next, ForwardElements, ForwardContents, c
  <2>12. QED
    BY <2>7, <2>11
<1>5. QED
  BY <1>3, <1>4 DEF F!PushFront, F!NewNode, Headed, LinkAdded

(* A forward list loses all of its nodes. *)
LEMMA ForwardEmptyStep ==
  ASSUME NEW r, ForwardNow(r), NEW l, ForwardLive(l), F!Becomes(l, F!Fresh, F!Without(fheap, ToSet(r[l])))
  PROVE  ForwardInv' /\ F!Abs!Next
<1> DEFINE u == F!Fresh
           g == F!Without(fheap, ToSet(r[l]))
           d == << >>
<1>1. l \in Lists /\ ChainsTyped(flist, fheap) /\ Chains(flist, fheap, r)
  BY DEF ForwardLive, ForwardNow
<1>2. u \in ForwardType /\ u.live /\ u.size = 0 /\ u.head = Null /\ u.tail = Null
  BY DEF F!Fresh, ForwardType
<1>3. F!Becomes(l, u, g) /\ g = F!Without(fheap, ToSet(r[l]))
  OBVIOUS
<1> HIDE DEF u, g
<1>4. ForwardBecome(flist, fheap, l, u, g, << >>)
  BY <1>1, <1>2, <1>3, ForwardEmptied
<1>5. ForwardBecome(flist, fheap, l, u, g, d)
  BY <1>4
<1> HIDE DEF d
<1>6. ForwardInv' /\ F!Abs!Becomes(l, d)
  BY <1>2, <1>3, <1>5, ForwardBecomes
<1>7. F!Abs!Clear(l)
  BY <1>6 DEF F!Abs!Clear, ForwardLive, d
<1>8. QED
  BY <1>1, <1>6, <1>7 DEF F!Abs!Next

(* forward_list_pop_front. *)
LEMMA ForwardPopStep ==
  ASSUME NEW r, ForwardNow(r), NEW l, ForwardLive(l), F!PopFront(l)
  PROVE  ForwardInv' /\ F!Abs!Next
<1> DEFINE q == flist[l]
           s == r[l]
           c == ForwardElements(l)
<1>1. l \in Lists /\ q.live /\ ChainsTyped(flist, fheap) /\ Chains(flist, fheap, r)
  BY DEF ForwardLive, ForwardNow
<1>2. /\ q \in ForwardType /\ s \in Seq(Nodes) /\ Len(s) \in Nat /\ q.size = Len(s)
      /\ c = F!Data(fheap, s) /\ c \in Seq(ListElems) /\ Len(c) = Len(s)
  BY <1>1, ForwardNowFacts
<1>3. CASE Len(s) = 0
  <2>1. F!Refuse("CS_EMPTY")
    BY <1>2, <1>3 DEF F!PopFront
  <2>2. QED
    BY <1>3, <2>1, ForwardNoneStep
<1>4. Len(s) > 0 => q.head = s[1]
  BY <1>1, <1>2 DEF Chains, Chained, Front1
<1>5. CASE Len(s) = 1
  <2>1. F!Becomes(l, F!Fresh, F!Without(fheap, {q.head}))
    BY <1>2, <1>5 DEF F!PopFront
  <2>2. ToSet(s) = {q.head}
    BY <1>2, <1>4, <1>5, InSet
  <2>3. QED
    BY <2>1, <2>2, ForwardEmptyStep
<1>6. CASE Len(s) > 1
  <2>1. fheap[q.head].next = s[2]
    <3>1. 1 \in 1 .. Len(s) /\ Len(s) # 1
      <4> DEFINE n == Len(s)
      <4>1. n \in Nat /\ n > 1
        BY <1>2, <1>6
      <4> HIDE DEF n
      <4>2. 1 \in 1 .. n /\ n # 1
        BY <4>1
      <4>3. QED
        BY <4>2 DEF n
    <3>2. ChainLink(fheap, s, 1)
      BY <1>1, <3>1 DEF Chains, Chained
    <3>3. QED
      BY <1>4, <1>6, <3>1, <3>2 DEF ChainLink
  <2> DEFINE u == Beheaded(q, s[2])
             g == F!Without(fheap, {s[1]})
             d == Cut(c, 1)
  <2>2. F!Becomes(l, u, g)
    <3>1. F!Becomes(l, [q EXCEPT !.size = @ - 1, !.head = fheap[q.head].next], F!Without(fheap, {q.head}))
      <4>1. ~ (q.size = 0) /\ ~ (q.size = 1)
        <5> DEFINE n == Len(s)
        <5>1. n \in Nat /\ n > 1 /\ q.size = n
          BY <1>2, <1>6
        <5> HIDE DEF n
        <5>2. n # 0 /\ n # 1
          BY <5>1
        <5>3. QED
          BY <5>1, <5>2
      <4>2. QED
        BY <4>1 DEF F!PopFront
    <3>2. q.head = s[1]
      BY <1>4, <1>6
    <3>3. QED
      BY <2>1, <3>1, <3>2 DEF Beheaded
  <2>3. ForwardBecome(flist, fheap, l, u, g, Cut(F!Data(fheap, s), 1))
    BY <1>1, <1>6, BeheadedInv
  <2>4. u.live
    <3>1. s[2] \in Nodes /\ q.size > 0
      BY <1>2, <1>6
    <3>2. QED
      BY <1>1, <1>2, <3>1, BeheadedFacts
  <2> HIDE DEF u, g, c
  <2>5. ForwardBecome(flist, fheap, l, u, g, d)
    BY <1>2, <2>3
  <2>6. 1 \in 1 .. Len(c) /\ 0 \in 0 .. Len(c) - 1 /\ 0 \in -1 .. Len(c) + 1
    BY <1>2, <1>6
  <2>7. d = RemoveAt(c, 1)
    BY <1>2, <2>6, RemoveAtIs
  <2> HIDE DEF d
  <2>8. ForwardInv' /\ F!Abs!Becomes(l, d)
    BY <2>2, <2>4, <2>5, ForwardBecomes
  <2>9. F!Abs!Becomes(l, F!Abs!RemoveAt(c, 0 + 1))
    BY <2>7, <2>8 DEF F!Abs!RemoveAt, RemoveAt
  <2>10. F!Abs!Erase(l, 0)
    BY <2>6, <2>9 DEF F!Abs!Erase, ForwardLive, ForwardElements, ForwardContents, c
  <2>11. F!Abs!Next
    BY <1>1, <2>6, <2>10 DEF F!Abs!Next, ForwardElements, ForwardContents, c
  <2>12. QED
    BY <2>8, <2>11
<1>7. Len(s) = 0 \/ Len(s) = 1 \/ Len(s) > 1
  <2> DEFINE n == Len(s)
  <2>1. n \in Nat
    BY <1>2
  <2> HIDE DEF n
  <2>2. n = 0 \/ n = 1 \/ n > 1
    BY <2>1
  <2>3. QED
    BY <2>2 DEF n
<1>8. QED
  BY <1>3, <1>5, <1>6, <1>7

(* forward_list_sort. *)
LEMMA ForwardSortStep ==
  ASSUME NEW r, ForwardNow(r), NEW l, ForwardLive(l), F!Sort(l)
  PROVE  ForwardInv' /\ F!Abs!Next
<1> DEFINE q == flist[l]
           s == r[l]
           key == KeyOf(fheap)
           t == ForwardSorted(s, key)
           u == Rejoined(q, t)
           g == F!Joined(fheap, t)
           d == F!Data(g, t)
<1>1. l \in Lists /\ q.live /\ ChainsTyped(flist, fheap) /\ Chains(flist, fheap, r)
  BY DEF ForwardLive, ForwardNow
<1>2. /\ s \in Seq(Nodes) /\ Len(s) \in Nat /\ q.size = Len(s) /\ q \in ForwardType /\ F!Chain(fheap, q.head) = s
      /\ ForwardElements(l) = F!Data(fheap, s)
  BY <1>1, ForwardNowFacts
<1>3. CASE Len(s) < 2
  <2>1. F!Refuse("CS_SUCCESS")
    BY <1>2, <1>3 DEF F!Sort
  <2>2. QED
    BY <2>1, ForwardIdleStep
<1>4. CASE Len(s) > 1
  <2>1. F!Becomes(l, u, g)
    <3>1. ~ (q.size < 2)
      BY <1>2, <1>4
    <3>2. F!ForwardSorted(s, key) = t
      BY SameSorts
    <3>3. QED
      BY <1>2, <3>1, <3>2 DEF F!Sort, KeyOf, Rejoined, F!Last
  <2>2. u.live
    <3>1. u.live = q.live
      BY <1>2 DEF Rejoined, ForwardType
    <3>2. QED
      BY <1>1, <3>1
  <2> HIDE DEF key, t, u, g, d
  <2>3. ForwardBecome(flist, fheap, l, u, g, d) /\ SortedBy(F!Data(fheap, s), d, FALSE)
    BY <1>1, <1>4, ForwardSortInv DEF key, t, u, g, d
  <2>4. ForwardInv' /\ F!Abs!Becomes(l, d)
    BY <2>1, <2>2, <2>3, ForwardBecomes
  <2>5. F!Abs!IsSorting(ForwardElements(l), d, "comp")
    BY <1>2, <2>3, ForwardSorting
  <2> DEFINE c == [k \in Lists |-> F!Data(fheap, F!Chain(fheap, flist[k].head))]
  <2>6. c' = [c EXCEPT ![l] = d] /\ DOMAIN c = Lists
    BY <2>4 DEF F!Abs!Becomes
  <2> HIDE DEF c
  <2>7. c'[l] = d
    BY <1>1, <2>6
  <2>8. F!Abs!Sort(l)
    BY <2>4, <2>5, <2>7 DEF F!Abs!Sort, ForwardLive, ForwardElements, ForwardContents, c
  <2>9. QED
    BY <1>1, <2>4, <2>8 DEF F!Abs!Next
<1>5. Len(s) < 2 \/ Len(s) > 1
  BY <1>2
<1>6. QED
  BY <1>3, <1>4, <1>5

(* forward_list_clear. *)
LEMMA ForwardClearStep ==
  ASSUME NEW r, ForwardNow(r), NEW l, ForwardLive(l), F!Clear(l)
  PROVE  ForwardInv' /\ F!Abs!Next
<1>1. F!Chain(fheap, flist[l].head) = r[l] /\ F!ToSet(r[l]) = ToSet(r[l])
  BY ForwardNowFacts, SameToSet DEF ForwardLive
<1>2. F!Becomes(l, F!Fresh, F!Without(fheap, ToSet(r[l])))
  BY <1>1 DEF F!Clear
<1>3. QED
  BY <1>2, ForwardEmptyStep

(* forward_list_free. *)
LEMMA ForwardFreeStep ==
  ASSUME NEW r, ForwardNow(r), NEW l, ForwardLive(l), F!Free(l)
  PROVE  ForwardInv' /\ F!Abs!Next
<1> DEFINE u == F!Freed
           g == F!Without(fheap, ToSet(r[l]))
<1>1. l \in Lists /\ flist[l].live /\ ChainsTyped(flist, fheap) /\ Chains(flist, fheap, r)
      /\ flist \in [Lists -> ForwardType]
  BY DEF ForwardLive, ForwardNow, ChainsTyped
<1>2. u \in ForwardType /\ ~ u.live /\ u.size = 0 /\ u.head = Null /\ u.tail = Null
  BY DEF F!Fresh, F!Freed, ForwardType
<1>3. F!Chain(fheap, flist[l].head) = r[l] /\ F!ToSet(r[l]) = ToSet(r[l])
  BY <1>1, ForwardNowFacts, SameToSet
<1>4. flist' = [flist EXCEPT ![l] = u] /\ fheap' = g /\ fret' = "CS_SUCCESS"
  BY <1>3 DEF F!Free, F!Becomes
<1>5. g = F!Without(fheap, ToSet(r[l]))
  OBVIOUS
<1> HIDE DEF u, g
<1>6. ForwardBecome(flist, fheap, l, u, g, << >>)
  BY <1>1, <1>2, <1>5, ForwardEmptied
<1>7. ChainInv(flist', fheap')
      /\ ForwardContents(flist', fheap') = [ForwardContents(flist, fheap) EXCEPT ![l] = << >>]
  BY <1>4, <1>6 DEF ForwardBecome
<1>8. ForwardInv'
  BY <1>4, <1>7 DEF ForwardInv
<1>9. {k \in Lists : flist'[k].live} = {k \in Lists : flist[k].live} \ {l}
  BY <1>1, <1>2, <1>4
<1>10. [k \in Lists |-> "comp"] = [[k \in Lists |-> "comp"] EXCEPT ![l] = "comp"]
  OBVIOUS
<1>11. F!Abs!Free(l)
  BY <1>1, <1>4, <1>7, <1>9, <1>10 DEF F!Abs!Free, ForwardContents
<1>12. QED
  BY <1>1, <1>8, <1>11 DEF F!Abs!Next

(* forward_list_init after a free. *)
LEMMA ForwardStartStep ==
  ASSUME NEW r, ForwardNow(r), NEW l \in Lists, F!Start(l)
  PROVE  ForwardInv' /\ F!Abs!Next
<1> DEFINE u == F!Fresh
           c == ForwardContents(flist, fheap)
<1>1. ~ flist[l].live /\ ChainsTyped(flist, fheap) /\ Chains(flist, fheap, r) /\ flist \in [Lists -> ForwardType]
      /\ fheap \in [DOMAIN fheap -> LinkType]
  BY DEF ForwardNow, ChainsTyped, F!Start
<1>2. u \in ForwardType /\ u.live /\ u.size = 0 /\ u.head = Null /\ u.tail = Null
  BY DEF F!Fresh, ForwardType
<1>3. CASE F!Refuse("CS_MEM")
  <2>1. ForwardInv' /\ F!Abs!Refuse("CS_MEM")
    BY <1>3, ForwardRefuses DEF ForwardNow
  <2>2. F!Abs!Start(l)
    BY <1>1, <2>1 DEF F!Abs!Start
  <2>3. QED
    BY <2>1, <2>2 DEF F!Abs!Next
<1>4. CASE F!Becomes(l, u, fheap)
  <2>1. flist' = [flist EXCEPT ![l] = u] /\ fheap' = fheap /\ fret' = "CS_SUCCESS"
    BY <1>4 DEF F!Becomes
  <2>2. r[l] \in Seq(Nodes) /\ Len(r[l]) = 0
    BY <1>1, ForwardFacts
  <2>3. ToSet(r[l]) = {} /\ c[l] = << >>
    <3>1. ToSet(r[l]) = {}
      BY <2>2, InSet
    <3>2. ForwardElements(l) \in Seq(ListElems) /\ Len(ForwardElements(l)) = 0
      BY <2>2, ForwardNowFacts
    <3>3. QED
      BY <3>1, <3>2, EmptySeq DEF ForwardElements
  <2>4. fheap = F!Without(fheap, ToSet(r[l]))
    BY <1>1, <2>3 DEF F!Without
  <2> HIDE DEF u
  <2>5. ForwardBecome(flist, fheap, l, u, fheap, << >>)
    BY <1>1, <1>2, <2>4, ForwardEmptied
  <2>6. ChainInv(flist', fheap') /\ ForwardContents(flist', fheap') = [c EXCEPT ![l] = << >>]
    BY <2>1, <2>5 DEF ForwardBecome
  <2>7. [c EXCEPT ![l] = << >>] = c
    <3> DEFINE d == << >>
    <3>1. c = [k \in Lists |-> c[k]] /\ c[l] = d
      BY <2>3 DEF ForwardContents
    <3> HIDE DEF d, c
    <3>2. [c EXCEPT ![l] = d] = c
      BY <3>1
    <3>3. QED
      BY <3>2 DEF d
  <2>8. ForwardInv'
    BY <2>1, <2>6 DEF ForwardInv
  <2>9. {k \in Lists : flist'[k].live} = {k \in Lists : flist[k].live} \cup {l}
    BY <1>1, <1>2, <2>1
  <2>10. [k \in Lists |-> "comp"] = [[k \in Lists |-> "comp"] EXCEPT ![l] = "comp"]
    OBVIOUS
  <2>11. ForwardContents(flist', fheap') = ForwardContents(flist, fheap)
    BY <2>6, <2>7
  <2>12. F!Abs!Start(l)
    BY <1>1, <2>1, <2>9, <2>10, <2>11 DEF F!Abs!Start, ForwardContents
  <2>13. QED
    BY <2>8, <2>12 DEF F!Abs!Next
<1>5. QED
  BY <1>3, <1>4 DEF F!Start

(* An int holds the size of a forward list. *)
LEMMA ForwardIntsHold ==
  ASSUME NEW r, ForwardNow(r), NEW l \in Lists
  PROVE  [flist[l] EXCEPT !.size = F!ThroughInt(@)] = flist[l]
<1>1. flist[l] \in ForwardType /\ flist[l].size = Len(r[l])
  BY ForwardNowFacts
<1>2. r[l] \in Seq(Nodes) /\ Distinct(r[l]) /\ Len(r[l]) \in Nat
  BY DEF ForwardNow, Chains, Chained
<1>3. Len(r[l]) <= Cardinality(Nodes) /\ Cardinality(Nodes) \in Nat
  BY <1>2, DistinctLen
<1>4. Len(r[l]) <= IntMax
  BY <1>2, <1>3, ListsAssumption, VectorAssumption
<1>5. F!ThroughInt(flist[l].size) = flist[l].size
  BY <1>1, <1>2, <1>4 DEF F!ThroughInt
<1>6. [flist[l] EXCEPT !.size = flist[l].size] = flist[l]
  BY <1>1 DEF ForwardType
<1>7. QED
  BY <1>5, <1>6

(* forward_list_swap. *)
LEMMA ForwardSwapStep ==
  ASSUME NEW r, ForwardNow(r), NEW l \in Lists, NEW m \in Lists, F!Swap(l, m)
  PROVE  ForwardInv' /\ F!Abs!Next
<1> DEFINE ms == Exchanged(flist, l, m)
<1>1. ChainInv(flist, fheap) /\ flist \in [Lists -> ForwardType] /\ flist[l].live /\ flist[m].live
  BY DEF ForwardNow, ForwardInv, ChainsTyped, F!Swap, F!Usable
<1>2. flist' = ms /\ fheap' = fheap /\ fret' = "CS_SUCCESS"
  <2> DEFINE q == [flist[l] EXCEPT !.size = F!ThroughInt(@)]
  <2>1. q = flist[l]
    BY ForwardIntsHold
  <2>2. flist' = [flist EXCEPT ![l] = flist[m], ![m] = q] /\ fheap' = fheap /\ fret' = "CS_SUCCESS"
    BY DEF F!Swap
  <2> HIDE DEF q
  <2>3. QED
    BY <2>1, <2>2 DEF Exchanged
<1>3. ChainInv(ms, fheap) /\ ForwardContents(ms, fheap) = Exchanged(ForwardContents(flist, fheap), l, m)
  BY <1>1, ForwardSwapInv
<1>4. {k \in Lists : ms[k].live} = {k \in Lists : flist[k].live}
  BY <1>1 DEF Exchanged
<1> HIDE DEF ms
<1>5. ForwardInv'
  BY <1>2, <1>3 DEF ForwardInv
<1>6. LET o == [k \in Lists |-> "comp"] IN o = [o EXCEPT ![l] = o[m], ![m] = o[l]]
  OBVIOUS
<1>7. F!Abs!Swap(l, m)
  BY <1>1, <1>2, <1>3, <1>4, <1>6 DEF F!Abs!Swap, ForwardContents, Exchanged
<1>8. QED
  BY <1>5, <1>7 DEF F!Abs!Next

(* Every operation of forward_list.c is one of sequences. *)
LEMMA ForwardStep ==
  ASSUME ForwardInv, F!Next
  PROVE  ForwardInv' /\ F!Abs!Next
<1>1. PICK r : ForwardNow(r)
  BY DEF ForwardInv, ChainInv, ForwardNow
<1>2. ASSUME NEW l \in Lists, F!PopFront(l) PROVE ForwardInv' /\ F!Abs!Next
  BY <1>1, <1>2, ForwardPopStep DEF ForwardLive, F!PopFront, F!Usable
<1>3. ASSUME NEW l \in Lists, F!Sort(l) PROVE ForwardInv' /\ F!Abs!Next
  BY <1>1, <1>3, ForwardSortStep DEF ForwardLive, F!Sort, F!Usable
<1>4. ASSUME NEW l \in Lists, F!Clear(l) PROVE ForwardInv' /\ F!Abs!Next
  BY <1>1, <1>4, ForwardClearStep DEF ForwardLive, F!Clear, F!Usable
<1>5. ASSUME NEW l \in Lists, F!Free(l) PROVE ForwardInv' /\ F!Abs!Next
  BY <1>1, <1>5, ForwardFreeStep DEF ForwardLive, F!Free, F!Usable
<1>6. ASSUME NEW l \in Lists, F!Start(l) PROVE ForwardInv' /\ F!Abs!Next
  BY <1>1, <1>6, ForwardStartStep
<1>7. ASSUME NEW l \in Lists, NEW e \in ListElems, F!PushFront(l, e) PROVE ForwardInv' /\ F!Abs!Next
  BY <1>1, <1>7, ForwardPushStep DEF ForwardLive, F!PushFront, F!Usable
<1>8. ASSUME NEW l \in Lists, NEW m \in Lists, F!Swap(l, m) PROVE ForwardInv' /\ F!Abs!Next
  BY <1>1, <1>8, ForwardSwapStep
<1>9. QED
  BY <1>2, <1>3, <1>4, <1>5, <1>6, <1>7, <1>8 DEF F!Next

(* All forward lists are empty at first. *)
LEMMA ForwardStart == F!Init => ForwardInv /\ F!Abs!Init
<1> SUFFICES ASSUME F!Init PROVE ForwardInv /\ F!Abs!Init
  OBVIOUS
<1>1. flist = [l \in Lists |-> F!Fresh] /\ fheap = << >> /\ fret = "CS_SUCCESS"
  BY DEF F!Init
<1>2. ChainInv(flist, fheap) /\ ForwardContents(flist, fheap) = [l \in Lists |-> << >>]
  BY <1>1, NoLinks
<1>3. ForwardInv
  BY <1>1, <1>2 DEF ForwardInv
<1>4. F!Abs!Init
  BY <1>1, <1>2 DEF F!Abs!Init, ForwardContents
<1>5. QED
  BY <1>3, <1>4

(* The forward lists stay as they are while containers of another kind are used. *)
LEMMA ForwardAnyStep ==
  ASSUME ForwardInv, [AnyNext]_anyvars
  PROVE  ForwardInv' /\ [F!Abs!Next]_(F!Abs!vars)
<1>1. CASE F!Next
  BY <1>1, ForwardStep
<1>2. CASE UNCHANGED << flist, fheap, fret >>
  <2>1. ForwardInv'
    BY <1>2 DEF ForwardInv
  <2>2. UNCHANGED F!Abs!vars
    BY <1>2 DEF F!Abs!vars
  <2>3. QED
    BY <2>1, <2>2
<1>3. QED
  BY <1>1, <1>2 DEF AnyNext, anyvars

(* The type invariant of forward lists. *)
LEMMA ForwardTyped == ForwardInv => F!TypeOK
<1> SUFFICES ASSUME ForwardInv PROVE F!TypeOK
  OBVIOUS
<1>1. ChainsTyped(flist, fheap)
  BY DEF ForwardInv, ChainInv
<1>2. PICK r : Chains(flist, fheap, r)
  BY DEF ForwardInv, ChainInv
<1>3. ASSUME NEW l \in Lists
      PROVE  flist[l].live \in BOOLEAN /\ {flist[l].head, flist[l].tail} \subseteq Nodes \cup {Null}
             /\ flist[l].size \in 0 .. Cardinality(Nodes)
  <2>1. flist[l] \in ForwardType
    BY <1>1 DEF ChainsTyped
  <2>2. r[l] \in Seq(Nodes) /\ Distinct(r[l]) /\ flist[l].size = Len(r[l]) /\ Len(r[l]) \in Nat
    BY <1>2 DEF Chains, Chained
  <2>3. Len(r[l]) <= Cardinality(Nodes) /\ Cardinality(Nodes) \in Nat
    BY <2>2, DistinctLen
  <2>4. flist[l].size \in 0 .. Cardinality(Nodes)
    BY <2>2, <2>3
  <2>5. QED
    BY <2>1, <2>4 DEF ForwardType
<1>4. fret \in {"CS_SUCCESS", "CS_MEM", "CS_EMPTY"}
  BY DEF ForwardInv
<1>5. DOMAIN fheap \subseteq Nodes /\ fheap \in [DOMAIN fheap -> [next : Nodes \cup {Null}, data : ListElems]]
  BY <1>1 DEF ChainsTyped, LinkType
<1>6. QED
  BY <1>3, <1>4, <1>5, SameCardinality DEF F!TypeOK

\* The part of ChainIntact about the list l, whose nodes are those of s.
ChainSound(l, s) ==
  /\ Len(s) = flist[l].size /\ F!IsInjective(s)
  /\ flist[l].tail = IF s = << >> THEN Null ELSE F!Last(s)
  /\ s # << >> => fheap[F!Last(s)].next = Null

(* Forward lists that are chains are intact. *)
LEMMA ForwardChained == ForwardInv => ChainIntact
<1> SUFFICES ASSUME ForwardInv PROVE ChainIntact
  OBVIOUS
<1>1. ChainsTyped(flist, fheap)
  BY DEF ForwardInv, ChainInv
<1>2. PICK r : Chains(flist, fheap, r)
  BY DEF ForwardInv, ChainInv
<1> DEFINE chain == [l \in Lists |-> F!Chain(fheap, flist[l].head)]
<1>3. \A l \in Lists : chain[l] = r[l]
  BY <1>1, <1>2, ForwardFacts
<1>4. \A s : F!ToSet(s) = ToSet(s)
  BY SameToSet
<1> HIDE DEF chain
<1>5. ASSUME NEW l \in Lists, NEW s, s = chain[l] PROVE ChainSound(l, s)
  <2>1. s = r[l]
    BY <1>3, <1>5
  <2>2. Chained(fheap, flist[l], s)
    BY <1>2, <2>1 DEF Chains
  <2>3. s \in Seq(Nodes) /\ Len(s) \in Nat /\ DOMAIN s = 1 .. Len(s) /\ Distinct(s) /\ Len(s) = flist[l].size
        /\ flist[l].tail = Tail1(s) /\ \A i \in 1 .. Len(s) : ChainLink(fheap, s, i)
    BY <2>2 DEF Chained
  <2>4. F!IsInjective(s)
    BY <2>3 DEF F!IsInjective, Distinct
  <2>5. CASE Len(s) = 0
    BY <2>3, <2>4, <2>5, EmptySeq DEF Tail1, ChainSound
  <2>6. CASE Len(s) # 0
    <3> DEFINE n == Len(s)
    <3>1. n \in 1 .. n
      <4>1. n \in Nat /\ n # 0
        BY <2>3, <2>6
      <4> HIDE DEF n
      <4>2. QED
        BY <4>1
    <3>2. F!Last(s) = s[n]
      BY DEF F!Last
    <3>3. fheap[s[n]].next = Null
      BY <2>3, <3>1 DEF ChainLink
    <3>4. s # << >>
      BY <2>6
    <3>5. flist[l].tail = s[n]
      BY <2>3, <2>6 DEF Tail1
    <3>6. QED
      BY <2>3, <2>4, <3>2, <3>3, <3>4, <3>5 DEF ChainSound
  <2>7. QED
    BY <2>5, <2>6
<1>6. DOMAIN fheap = UNION {F!ToSet(chain[l]) : l \in Lists}
  <2>1. ASSUME NEW n PROVE n \in DOMAIN fheap <=> \E l \in Lists : n \in F!ToSet(chain[l])
    <3>1. n \in DOMAIN fheap <=> \E l \in Lists : n \in ToSet(r[l])
      BY <1>2 DEF Chains
    <3>2. \A l \in Lists : F!ToSet(chain[l]) = ToSet(r[l])
      BY <1>3, <1>4
    <3>3. QED
      BY <3>1, <3>2
  <2>2. QED
    BY <2>1
<1>7. \A l, m \in Lists : l # m => F!ToSet(chain[l]) \cap F!ToSet(chain[m]) = {}
  BY <1>2, <1>3, <1>4 DEF Chains
<1>8. \A l \in Lists : ChainSound(l, chain[l])
  BY <1>5
<1>9. QED
  BY <1>6, <1>7, <1>8, Zenon DEF ChainIntact, F!ChainIntact, ChainSound, chain

(* No operation of forward_list.c breaks a chain, forgets its tail, leaks a
   node or keeps a freed one, on a heap of no more nodes than an int can count:
   its swap keeps the size in an int. *)
THEOREM ForwardListsStayIntact == AnySpec => []ChainIntact
<1>1. AnyInit => ForwardInv
  BY ForwardStart DEF AnyInit
<1>2. ForwardInv /\ [AnyNext]_anyvars => ForwardInv'
  BY ForwardAnyStep
<1>3. QED
  BY <1>1, <1>2, ForwardChained, PTL DEF AnySpec, anyvars

(* The forward lists are sequences, on such a heap: every operation of
   forward_list.c has the effect of one on the elements of its lists, and
   forward_list_sort puts them in order. *)
THEOREM ForwardListsAreSequences == AnySpec => ForwardListImplements
<1>1. AnyInit => ForwardInv /\ F!Abs!Init
  BY ForwardStart DEF AnyInit
<1>2. ForwardInv /\ [AnyNext]_anyvars => ForwardInv' /\ [F!Abs!Next]_(F!Abs!vars)
  BY ForwardAnyStep
<1>3. QED
  BY <1>1, <1>2, PTL DEF AnySpec, anyvars, ForwardListImplements, F!ForwardListImplements, F!Abs!Spec

-----------------------------------------------------------------------------
(* Vectors are sequences. *)

\* The elements of a structure.
Content(q) == [i \in 1 .. q.size |-> q.buf[i - 1]]

\* r is q with another array that holds the same elements.
Kept(q, r) == r.live = q.live /\ r.attr = q.attr /\ r.size = q.size /\ Content(r) = Content(q)

(* The elements of a good structure. *)
LEMMA ContentFacts ==
  ASSUME NEW q, Good(q)
  PROVE  /\ q.size \in Nat /\ Content(q) \in Seq(Elems) /\ Len(Content(q)) = q.size
         /\ DOMAIN Content(q) = 1 .. q.size
         /\ \A i \in 1 .. q.size : Content(q)[i] = q.buf[i - 1] /\ Content(q)[i] \in Elems
<1>1. q.size \in Nat /\ \A i \in 1 .. q.size : q.buf[i - 1] \in Elems
  <2>1. q.size \in Nat /\ \A i \in Used(q) : q.buf[i] \in Elems
    BY GoodFacts
  <2>2. \A i \in 1 .. q.size : i - 1 \in Used(q)
    BY <2>1 DEF Used
  <2>3. QED
    BY <2>1, <2>2
<1>2. QED
  BY <1>1 DEF Content

(* Every structure keeps what it keeps. *)
LEMMA KeptRefl == ASSUME NEW q PROVE Kept(q, q)
BY DEF Kept

(* A larger or a smaller array, as long as it covers the elements. *)
LEMMA ResizedKept ==
  ASSUME NEW q, Good(q), NEW cap \in Nat, q.size <= cap
  PROVE  Kept(q, Resized(q, cap))
<1> DEFINE r == Resized(q, cap)
<1>1. /\ r.live = q.live /\ r.attr = q.attr /\ r.size = q.size
      /\ r.buf = [i \in 0 .. cap - 1 |-> IF i \in DOMAIN q.buf THEN q.buf[i] ELSE NoElem]
  BY DEF Resized, Good, Struct
<1>2. q.size \in Nat /\ q.cap \in Nat /\ q.size <= q.cap /\ DOMAIN q.buf = 0 .. q.cap - 1
  BY GoodFacts
<1> HIDE DEF r
<1>3. \A i \in 1 .. q.size : r.buf[i - 1] = q.buf[i - 1]
  BY <1>1, <1>2
<1>4. Content(r) = Content(q)
  BY <1>1, <1>3 DEF Content
<1>5. QED
  BY <1>1, <1>4 DEF Kept, r

(* realloc, successful or not. *)
LEMMA ReallocKept ==
  ASSUME NEW q, Good(q), NEW cap \in Nat, q.size <= cap, NEW r \in Realloc(q, cap)
  PROVE  Kept(q, r.q) /\ r.rc \in {"CS_SUCCESS", "CS_MEM"}
<1>1. Kept(q, Resized(q, cap)) /\ Kept(q, q)
  BY ResizedKept, KeptRefl
<1>2. QED
  BY <1>1 DEF Realloc, Answer

(* Making room. *)
LEMMA RoomKept ==
  ASSUME NEW q, Good(q), NEW r \in Room(q)
  PROVE  Kept(q, r.q) /\ r.rc \in {"CS_SUCCESS", "CS_MEM"}
<1>1. CASE q.size = q.cap
  <2>1. q.cap * 2 \in Nat /\ q.size <= q.cap * 2
    BY <1>1, GoodFacts
  <2>2. r \in Realloc(q, q.cap * 2)
    BY <1>1 DEF Room
  <2>3. QED
    BY <2>1, <2>2, ReallocKept
<1>2. CASE q.size # q.cap
  BY <1>2, KeptRefl DEF Room, Answer
<1>3. QED
  BY <1>1, <1>2

(* Shrinking, which reports no failure. *)
LEMMA ShrunkKept ==
  ASSUME NEW q, Good(q), NEW r \in Shrunk(q)
  PROVE  Kept(q, r.q) /\ r.rc = "CS_SUCCESS"
<1> DEFINE sf == q.attr.shrink_factor
           least == q.attr.min_cap
           cap == IF q.cap \div sf < least THEN least ELSE q.cap \div sf
<1>1. CASE sf > 1 /\ q.size < q.cap \div (sf * 2) /\ q.cap > least
  <2>1. q.cap \in Nat /\ q.size \in Nat /\ sf \in Nat /\ sf >= 1 /\ least \in Nat /\ least >= 1
    BY GoodFacts DEF Attribute
  <2>2. /\ q.cap \div sf \in Nat /\ q.cap \div (sf * 2) \in Nat
        /\ q.cap \div (sf * 2) <= q.cap \div sf
    BY <2>1, ShrinkingRoom
  <2>3. cap \in Nat /\ q.size <= cap
    BY <1>1, <2>1, <2>2
  <2>4. PICK a \in Realloc(q, cap) : r = Answer("CS_SUCCESS", a.q)
    BY <1>1 DEF Shrunk
  <2> HIDE DEF cap
  <2>5. Kept(q, a.q)
    BY <2>3, <2>4, ReallocKept
  <2>6. QED
    BY <2>4, <2>5 DEF Answer
<1>2. CASE ~(sf > 1 /\ q.size < q.cap \div (sf * 2) /\ q.cap > least)
  <2>1. Shrunk(q) = {Answer("CS_SUCCESS", q)}
    BY <1>2 DEF Shrunk
  <2>2. QED
    BY <2>1, KeptRefl DEF Answer
<1>3. QED
  BY <1>1, <1>2

(* An element that goes in at an index of the array goes into the sequence there. *)
LEMMA OpenedContent ==
  ASSUME NEW q, Good(q), q.size < q.cap, NEW e \in Elems, NEW pos \in Nat, pos <= q.size
  PROVE  LET r == Opened(q, e, pos) IN
         r.live = q.live /\ r.attr = q.attr /\ Content(r) = Inserted(Content(q), pos + 1, e)
<1> DEFINE r == Opened(q, e, pos)
           buf == [i \in DOMAIN q.buf |-> CASE i = pos -> e
                                            [] i \in pos + 1 .. q.size -> q.buf[i - 1]
                                            [] OTHER -> q.buf[i]]
<1>1. q.size \in Nat /\ q.cap \in Nat /\ DOMAIN q.buf = 0 .. q.cap - 1
  BY GoodFacts
<1>2. r.live = q.live /\ r.attr = q.attr /\ r.size = q.size + 1 /\ r.buf = buf
  BY DEF Opened, Good, Struct
<1>3. ASSUME NEW i \in 1 .. q.size + 1
      PROVE  buf[i - 1] = IF i < pos + 1 THEN q.buf[i - 1] ELSE IF i = pos + 1 THEN e ELSE q.buf[i - 2]
  <2>1. i - 1 \in 0 .. q.cap - 1
    BY <1>1
  <2>2. CASE i = pos + 1
    <3>1. i - 1 = pos
      BY <2>2
    <3>2. buf[i - 1] = e
      BY <1>1, <2>1, <3>1
    <3>3. QED
      BY <1>1, <2>2, <3>2
  <2>3. CASE i > pos + 1
    <3>1. i - 1 \in pos + 1 .. q.size /\ i - 1 # pos /\ (i - 1) - 1 = i - 2
      BY <1>1, <2>3
    <3>2. buf[i - 1] = q.buf[(i - 1) - 1]
      BY <1>1, <2>1, <3>1
    <3>3. QED
      BY <1>1, <2>3, <3>1, <3>2
  <2>4. CASE i < pos + 1
    <3>1. i - 1 \notin pos + 1 .. q.size /\ i - 1 # pos
      BY <1>1, <2>4
    <3>2. buf[i - 1] = q.buf[i - 1]
      BY <1>1, <2>1, <3>1
    <3>3. QED
      BY <1>1, <2>4, <3>2
  <2>5. QED
    BY <1>1, <2>2, <2>3, <2>4
<1> HIDE DEF r, buf
<1>4. Len(Content(q)) = q.size /\ \A i \in 1 .. q.size : Content(q)[i] = q.buf[i - 1]
  BY ContentFacts
<1>5. Content(r) = Inserted(Content(q), pos + 1, e)
  <2>1. ASSUME NEW i \in 1 .. q.size + 1
        PROVE  r.buf[i - 1] = IF i < pos + 1 THEN Content(q)[i] ELSE IF i = pos + 1 THEN e ELSE Content(q)[i - 1]
    <3>1. CASE i < pos + 1
      BY <1>1, <1>2, <1>3, <1>4, <3>1
    <3>2. CASE i = pos + 1
      BY <1>1, <1>2, <1>3, <3>2
    <3>3. CASE i > pos + 1
      <4>1. i - 1 \in 1 .. q.size /\ (i - 1) - 1 = i - 2
        BY <1>1, <3>3
      <4>2. Content(q)[i - 1] = q.buf[i - 2]
        BY <1>4, <4>1
      <4>3. QED
        BY <1>1, <1>2, <1>3, <3>3, <4>2
    <3>4. QED
      BY <1>1, <3>1, <3>2, <3>3
  <2>2. QED
    BY <1>1, <1>2, <1>4, <2>1 DEF Content, Inserted
<1>6. QED
  BY <1>2, <1>5 DEF r

(* And one that is taken out goes out of the sequence. *)
LEMMA ClosedContent ==
  ASSUME NEW q, Good(q), NEW pos \in Nat, pos < q.size
  PROVE  LET r == Closed(q, pos) IN
         r.live = q.live /\ r.attr = q.attr /\ Content(r) = Cut(Content(q), pos + 1)
<1> DEFINE r == Closed(q, pos)
           buf == [i \in DOMAIN q.buf |-> CASE i \in pos .. q.size - 2 -> q.buf[i + 1]
                                            [] i = q.size - 1 -> NoElem
                                            [] OTHER -> q.buf[i]]
<1>1. q.size \in Nat /\ q.cap \in Nat /\ DOMAIN q.buf = 0 .. q.cap - 1 /\ q.size <= q.cap
  BY GoodFacts
<1>2. r.live = q.live /\ r.attr = q.attr /\ r.size = q.size - 1 /\ r.buf = buf
  BY DEF Closed, Good, Struct
<1>3. ASSUME NEW i \in 1 .. q.size - 1
      PROVE  buf[i - 1] = IF i < pos + 1 THEN q.buf[i - 1] ELSE q.buf[i]
  <2>1. i - 1 \in 0 .. q.cap - 1 /\ i - 1 # q.size - 1
    BY <1>1
  <2>2. CASE i < pos + 1
    <3>1. i - 1 \notin pos .. q.size - 2
      BY <1>1, <2>2
    <3>2. buf[i - 1] = q.buf[i - 1]
      BY <1>1, <2>1, <3>1
    <3>3. QED
      BY <2>2, <3>2
  <2>3. CASE ~ (i < pos + 1)
    <3>1. i - 1 \in pos .. q.size - 2 /\ (i - 1) + 1 = i
      BY <1>1, <2>3
    <3>2. buf[i - 1] = q.buf[(i - 1) + 1]
      BY <1>1, <2>1, <3>1
    <3>3. QED
      BY <2>3, <3>1, <3>2
  <2>4. QED
    BY <2>2, <2>3
<1> HIDE DEF r, buf
<1>4. Len(Content(q)) = q.size /\ \A i \in 1 .. q.size : Content(q)[i] = q.buf[i - 1]
  BY ContentFacts
<1>5. \A i \in 1 .. q.size - 1 : r.buf[i - 1] = IF i < pos + 1 THEN Content(q)[i] ELSE Content(q)[i + 1]
  BY <1>1, <1>2, <1>3, <1>4
<1>6. Content(r) = Cut(Content(q), pos + 1)
  BY <1>1, <1>2, <1>4, <1>5 DEF Content, Cut
<1>7. QED
  BY <1>2, <1>6 DEF r

\* A vector that has been freed is empty, and a radix sort in progress is one of a
\* vector in use without a comparator.
Attached ==
  /\ \A v \in Vectors : ~ vec[v].live => vec[v].size = 0
  /\ radix # NoRadix => vec[radix.of].live /\ ~ vec[radix.of].attr.comp

\* A vector that may be used: the state before its calls.
InUse(v) == v \in Vectors /\ VectorInv /\ Attached /\ vec[v].live

(* What a call finds. *)
LEMMA InUseFacts ==
  ASSUME NEW v, InUse(v)
  PROVE  /\ v \in Vectors /\ vec[v].live /\ Good(vec[v]) /\ DOMAIN vec = Vectors
         /\ vec[v].size \in Nat /\ vec[v].cap \in Nat /\ vec[v].size <= vec[v].cap
         /\ Content(vec[v]) \in Seq(Elems) /\ Len(Content(vec[v])) = vec[v].size
<1>1. v \in Vectors /\ vec[v].live /\ Good(vec[v]) /\ DOMAIN vec = Vectors
  BY DEF InUse, VectorInv, AllGood
<1>2. QED
  BY <1>1, ContentFacts, GoodFacts

(* A call on a vector in use leaves the others as they are. *)
LEMMA AttachedKept ==
  ASSUME NEW v, InUse(v), radix = NoRadix, radix' = radix, NEW q, q.live, vec' = [vec EXCEPT ![v] = q]
  PROVE  Attached'
BY InUseFacts DEF Attached, InUse

(* A call that succeeds changes the elements of its vector only. *)
LEMMA VectorBecomes ==
  ASSUME NEW v, InUse(v), NEW q, q.live, q.attr = vec[v].attr, vec' = [vec EXCEPT ![v] = q], ret' = "CS_SUCCESS",
         NEW s, s = Content(q)
  PROVE  Abs!Becomes(v, s)
<1>1. v \in Vectors /\ vec[v].live /\ DOMAIN vec = Vectors
  BY InUseFacts
<1>2. \A w \in Vectors : vec'[w] = IF w = v THEN q ELSE vec[w]
  BY <1>1
<1>3. {w \in Vectors : vec'[w].live} = {w \in Vectors : vec[w].live}
  BY <1>1, <1>2
<1>4. [w \in Vectors |-> IF vec'[w].attr.comp THEN "comp" ELSE "bytes"]
        = [w \in Vectors |-> IF vec[w].attr.comp THEN "comp" ELSE "bytes"]
  BY <1>1, <1>2
<1>5. [w \in Vectors |-> Content(vec'[w])] = [[w \in Vectors |-> Content(vec[w])] EXCEPT ![v] = s]
  BY <1>1, <1>2
<1>6. QED
  BY <1>3, <1>4, <1>5 DEF Abs!Becomes, Content

(* A call that keeps the elements has refused, or has no effect but on the capacity. *)
LEMMA VectorKeeps ==
  ASSUME NEW v, InUse(v), NEW q, Kept(vec[v], q), vec' = [vec EXCEPT ![v] = q], NEW code, ret' = code
  PROVE  Abs!Refuse(code)
<1>1. v \in Vectors /\ vec[v].live /\ DOMAIN vec = Vectors
  BY InUseFacts
<1>2. \A w \in Vectors : vec'[w] = IF w = v THEN q ELSE vec[w]
  BY <1>1
<1>3. \A w \in Vectors : /\ vec'[w].live = vec[w].live /\ vec'[w].attr = vec[w].attr
                         /\ Content(vec'[w]) = Content(vec[w])
  BY <1>1, <1>2 DEF Kept
<1>4. {w \in Vectors : vec'[w].live} = {w \in Vectors : vec[w].live}
  BY <1>3
<1>5. [w \in Vectors |-> IF vec'[w].attr.comp THEN "comp" ELSE "bytes"]
        = [w \in Vectors |-> IF vec[w].attr.comp THEN "comp" ELSE "bytes"]
  BY <1>3
<1>6. [w \in Vectors |-> Content(vec'[w])] = [w \in Vectors |-> Content(vec[w])]
  BY <1>3
<1>7. QED
  BY <1>4, <1>5, <1>6 DEF Abs!Refuse, Content

(* A refused call keeps everything. *)
LEMMA VectorRefuses ==
  ASSUME NEW code, Refuse(code), Attached
  PROVE  Attached' /\ Abs!Refuse(code)
<1>1. vec' = vec /\ radix' = radix /\ ret' = code
  BY DEF Refuse
<1>2. QED
  BY <1>1 DEF Attached, Abs!Refuse

-----------------------------------------------------------------------------
\* The steps of sequences that the operations of vectors are.

(* The content of the abstract state. *)
LEMMA AbstractContent ==
  ASSUME NEW v, InUse(v)
  PROVE  [w \in Vectors |-> [i \in 1 .. vec[w].size |-> vec[w].buf[i - 1]]][v] = Content(vec[v])
BY DEF InUse, Content

(* An element that goes in. *)
LEMMA VectorInsert ==
  ASSUME NEW v, InUse(v), NEW e \in Elems, NEW i \in 0 .. vec[v].size,
         NEW d, d = Inserted(Content(vec[v]), i + 1, e), Abs!Becomes(v, d)
  PROVE  Abs!Next
<1> DEFINE c == Content(vec[v])
           k == [w \in Vectors |-> [j \in 1 .. vec[w].size |-> vec[w].buf[j - 1]]]
<1>1. c \in Seq(Elems) /\ Len(c) = vec[v].size /\ Len(c) \in Nat /\ v \in Vectors /\ vec[v].live
  BY InUseFacts
<1>0. k[v] = c
  BY AbstractContent
<1> HIDE DEF c
<1>2. i + 1 \in 1 .. Len(c) + 1 /\ i \in 0 .. Len(c) /\ i \in -1 .. Len(c) + 1
  BY <1>1
<1>3. InsertAt(c, i + 1, e) = Inserted(c, i + 1, e)
  BY <1>1, <1>2, InsertAtIs
<1>4. Abs!InsertAt(c, i + 1, e) = Inserted(c, i + 1, e)
  BY <1>3 DEF Abs!InsertAt, InsertAt
<1>5. Abs!Insert(v, e, i)
  <2>1. /\ v \in {w \in Vectors : vec[w].live} /\ i \in 0 .. Len(k[v])
        /\ Abs!Becomes(v, Abs!InsertAt(k[v], i + 1, e))
    BY <1>0, <1>1, <1>2, <1>4 DEF c, Abs!Becomes
  <2>2. QED
    BY <2>1 DEF Abs!Becomes, Abs!Insert
<1>6. QED
  BY <1>1, <1>2, <1>5, AbstractContent DEF Abs!Next, c

(* An element that is taken out. *)
LEMMA VectorErase ==
  ASSUME NEW v, InUse(v), NEW i \in 0 .. vec[v].size - 1,
         NEW d, d = Cut(Content(vec[v]), i + 1), Abs!Becomes(v, d)
  PROVE  Abs!Next
<1> DEFINE c == Content(vec[v])
           k == [w \in Vectors |-> [j \in 1 .. vec[w].size |-> vec[w].buf[j - 1]]]
<1>1. c \in Seq(Elems) /\ Len(c) = vec[v].size /\ Len(c) \in Nat /\ v \in Vectors /\ vec[v].live
  BY InUseFacts
<1>0. k[v] = c
  BY AbstractContent
<1> HIDE DEF c
<1>2. i + 1 \in 1 .. Len(c) /\ i \in 0 .. Len(c) - 1 /\ i \in -1 .. Len(c) + 1
  BY <1>1
<1>3. RemoveAt(c, i + 1) = Cut(c, i + 1)
  BY <1>1, <1>2, RemoveAtIs
<1>4. Abs!RemoveAt(c, i + 1) = Cut(c, i + 1)
  BY <1>3 DEF Abs!RemoveAt, RemoveAt
<1>5. Abs!Erase(v, i)
  <2>1. /\ v \in {w \in Vectors : vec[w].live} /\ i \in 0 .. Len(k[v]) - 1
        /\ Abs!Becomes(v, Abs!RemoveAt(k[v], i + 1))
    BY <1>0, <1>1, <1>2, <1>4 DEF c, Abs!Becomes
  <2>2. QED
    BY <2>1 DEF Abs!Becomes, Abs!Erase
<1>6. QED
  BY <1>1, <1>2, <1>5, AbstractContent DEF Abs!Next, c

(* An element that is replaced. *)
LEMMA VectorReplace ==
  ASSUME NEW v, InUse(v), NEW e \in Elems, NEW i \in 0 .. vec[v].size - 1,
         NEW d, d = [Content(vec[v]) EXCEPT ![i + 1] = e], Abs!Becomes(v, d)
  PROVE  Abs!Next
<1> DEFINE c == Content(vec[v])
           k == [w \in Vectors |-> [j \in 1 .. vec[w].size |-> vec[w].buf[j - 1]]]
<1>1. c \in Seq(Elems) /\ Len(c) = vec[v].size /\ Len(c) \in Nat /\ v \in Vectors /\ vec[v].live
  BY InUseFacts
<1>0. k[v] = c
  BY AbstractContent
<1> HIDE DEF c
<1>2. i \in 0 .. Len(c) - 1 /\ i \in -1 .. Len(c) + 1
  BY <1>1
<1>3. Abs!ReplaceAt(c, i + 1, e) = [c EXCEPT ![i + 1] = e]
  BY DEF Abs!ReplaceAt
<1>4. Abs!Replace(v, e, i)
  <2>1. /\ v \in {w \in Vectors : vec[w].live} /\ i \in 0 .. Len(k[v]) - 1
        /\ Abs!Becomes(v, Abs!ReplaceAt(k[v], i + 1, e))
    BY <1>0, <1>1, <1>2, <1>3 DEF c, Abs!Becomes
  <2>2. QED
    BY <2>1 DEF Abs!Becomes, Abs!Replace
<1>5. QED
  BY <1>1, <1>2, <1>4, AbstractContent DEF Abs!Next, c

(* The answers of calls that change no elements. *)
LEMMA VectorAnswers ==
  ASSUME NEW v, InUse(v), NEW code, Abs!Refuse(code),
         \/ code \in {"CS_SUCCESS", "CS_MEM", "CS_SIZE"}
         \/ code = "CS_EMPTY" /\ vec[v].size = 0
         \/ code = "CS_POS" /\ \E i \in 0 .. vec[v].size + 1 : i >= vec[v].size
  PROVE  Abs!Next
<1> DEFINE c == Content(vec[v])
<1>1. c \in Seq(Elems) /\ Len(c) = vec[v].size /\ Len(c) \in Nat /\ v \in Vectors /\ vec[v].live
  BY InUseFacts
<1> HIDE DEF c
<1>2. CASE code \in {"CS_SUCCESS", "CS_MEM", "CS_SIZE"}
  <2>1. Abs!Resize(v)
    BY <1>1, <1>2 DEF Abs!Resize
  <2>2. QED
    BY <1>1, <2>1 DEF Abs!Next
<1>3. CASE code = "CS_EMPTY" /\ vec[v].size = 0
  <2>1. c = << >>
    BY <1>1, <1>3, EmptySeq
  <2>2. Abs!PopFront(v)
    BY <1>1, <1>3, <2>1, AbstractContent DEF Abs!PopFront, c
  <2>3. QED
    BY <1>1, <2>2 DEF Abs!Next
<1>4. CASE code = "CS_POS" /\ \E i \in 0 .. vec[v].size + 1 : i >= vec[v].size
  <2>1. PICK i \in 0 .. Len(c) + 1 : i >= Len(c)
    BY <1>1, <1>4
  <2>2. i \notin 0 .. Len(c) - 1 /\ i \in -1 .. Len(c) + 1
    BY <1>1, <2>1
  <2>3. Abs!Erase(v, i)
    BY <1>1, <1>4, <2>2, AbstractContent DEF Abs!Erase, c
  <2>4. QED
    BY <1>1, <2>2, <2>3, AbstractContent DEF Abs!Next, c
<1>5. QED
  BY <1>2, <1>3, <1>4

-----------------------------------------------------------------------------
(* Each operation of a vector is a step of its sequence. *)

\* What a step of the vectors has to be.
Matched == Attached' /\ (Abs!Next \/ UNCHANGED Abs!vars)

(* A refused call. *)
LEMMA VectorRefuseStep ==
  ASSUME NEW v, InUse(v), NEW code, Refuse(code),
         \/ code \in {"CS_SUCCESS", "CS_MEM", "CS_SIZE"}
         \/ code = "CS_EMPTY" /\ vec[v].size = 0
         \/ code = "CS_POS" /\ \E i \in 0 .. vec[v].size + 1 : i >= vec[v].size
  PROVE  Matched
<1>1. Attached' /\ Abs!Refuse(code)
  BY VectorRefuses DEF InUse
<1>2. QED
  BY <1>1, VectorAnswers DEF Matched

(* A call that may change the capacity, but no elements. *)
LEMMA VectorKeepStep ==
  ASSUME NEW v, InUse(v), radix = NoRadix, NEW answers, Reply(v, answers),
         \A r \in answers : Kept(vec[v], r.q) /\ r.rc \in {"CS_SUCCESS", "CS_MEM"}
  PROVE  Matched
<1>1. PICK r \in answers : vec' = [vec EXCEPT ![v] = r.q] /\ ret' = r.rc /\ radix' = radix
  BY DEF Reply
<1>2. Kept(vec[v], r.q) /\ r.rc \in {"CS_SUCCESS", "CS_MEM"} /\ r.q.live
  BY InUseFacts DEF Kept
<1>3. Abs!Refuse(r.rc)
  BY <1>1, <1>2, VectorKeeps
<1>4. Abs!Next
  BY <1>2, <1>3, VectorAnswers
<1>5. Attached'
  BY <1>1, <1>2, AttachedKept
<1>6. QED
  BY <1>4, <1>5 DEF Matched

(* push_back and insert_elem. *)
LEMMA VectorPutStep ==
  ASSUME NEW v, InUse(v), radix = NoRadix, NEW e \in Elems, NEW pos \in Nat, pos <= vec[v].size,
         Bounded(v), Reply(v, Put(vec[v], e, pos))
  PROVE  Matched
<1>1. PICK r \in Put(vec[v], e, pos) : vec' = [vec EXCEPT ![v] = r.q] /\ ret' = r.rc /\ radix' = radix
  BY DEF Reply
<1>2. PICK a \in Room(vec[v]) :
        r = IF a.rc = "CS_SUCCESS" THEN Answer("CS_SUCCESS", Opened(a.q, e, pos)) ELSE a
  BY <1>1 DEF Put
<1>3. Good(vec[v]) /\ vec[v].live /\ vec[v].size \in Nat
  BY InUseFacts
<1>4. /\ Good(a.q) /\ a.q.size = vec[v].size /\ (a.rc = "CS_SUCCESS" => a.q.size < a.q.cap)
      /\ Kept(vec[v], a.q) /\ a.rc \in {"CS_SUCCESS", "CS_MEM"}
  BY <1>2, <1>3, RoomGood, RoomKept DEF Bounded
<1>5. a.q.live /\ a.q.attr = vec[v].attr /\ Content(a.q) = Content(vec[v])
  BY <1>3, <1>4 DEF Kept
<1>6. pos \in 0 .. vec[v].size
  BY <1>3
<1>7. CASE a.rc = "CS_SUCCESS"
  <2> DEFINE q == Opened(a.q, e, pos)
  <2>1. r.q = q /\ r.rc = "CS_SUCCESS"
    BY <1>2, <1>7 DEF Answer
  <2>2. q.live = a.q.live /\ q.attr = a.q.attr /\ Content(q) = Inserted(Content(a.q), pos + 1, e)
    BY <1>4, <1>7, OpenedContent
  <2> HIDE DEF q
  <2>3. q.live /\ q.attr = vec[v].attr /\ Content(q) = Inserted(Content(vec[v]), pos + 1, e)
    BY <1>5, <2>2
  <2>4. vec' = [vec EXCEPT ![v] = q] /\ ret' = "CS_SUCCESS" /\ radix' = radix
    BY <1>1, <2>1
  <2> PICK d : d = Content(q)
    OBVIOUS
  <2>5. Abs!Becomes(v, d)
    BY <2>3, <2>4, VectorBecomes
  <2>6. Abs!Next
    BY <1>6, <2>3, <2>5, VectorInsert
  <2>7. Attached'
    BY <2>3, <2>4, AttachedKept
  <2>8. QED
    BY <2>6, <2>7 DEF Matched
<1>8. CASE a.rc # "CS_SUCCESS"
  <2>1. r = a /\ r.rc = "CS_MEM"
    BY <1>2, <1>4, <1>8
  <2>2. Abs!Refuse("CS_MEM")
    BY <1>1, <1>4, <2>1, VectorKeeps
  <2>3. Abs!Next
    BY <2>2, VectorAnswers
  <2>4. Attached'
    BY <1>1, <1>5, <2>1, AttachedKept
  <2>5. QED
    BY <2>3, <2>4 DEF Matched
<1>9. QED
  BY <1>7, <1>8

(* pop_back and erase. *)
LEMMA VectorCutStep ==
  ASSUME NEW v, InUse(v), radix = NoRadix, NEW pos \in Nat, pos < vec[v].size,
         Reply(v, Shrunk(Closed(vec[v], pos)))
  PROVE  Matched
<1> DEFINE q == Closed(vec[v], pos)
<1>1. PICK r \in Shrunk(q) : vec' = [vec EXCEPT ![v] = r.q] /\ ret' = r.rc /\ radix' = radix
  BY DEF Reply
<1>2. Good(vec[v]) /\ vec[v].live /\ vec[v].size \in Nat
  BY InUseFacts
<1>3. /\ Good(q) /\ q.live = vec[v].live /\ q.attr = vec[v].attr
      /\ Content(q) = Cut(Content(vec[v]), pos + 1)
  BY <1>2, ClosedGood, ClosedContent
<1> HIDE DEF q
<1>4. Kept(q, r.q) /\ r.rc = "CS_SUCCESS"
  BY <1>1, <1>3, ShrunkKept
<1>5. r.q.live /\ r.q.attr = vec[v].attr /\ Content(r.q) = Cut(Content(vec[v]), pos + 1)
  BY <1>2, <1>3, <1>4 DEF Kept
<1>6. ret' = "CS_SUCCESS"
  BY <1>1, <1>4
<1> PICK d : d = Content(r.q)
  OBVIOUS
<1>7. Abs!Becomes(v, d)
  BY <1>1, <1>5, <1>6, VectorBecomes
<1>8. pos \in 0 .. vec[v].size - 1
  BY <1>2
<1>9. Abs!Next
  BY <1>5, <1>7, <1>8, VectorErase
<1>10. Attached'
  BY <1>1, <1>5, AttachedKept
<1>11. QED
  BY <1>9, <1>10 DEF Matched

(* replace. *)
LEMMA VectorReplaceStep ==
  ASSUME NEW v, InUse(v), radix = NoRadix, NEW e \in Elems, NEW pos \in Nat, pos < vec[v].size,
         Reply(v, {Answer("CS_SUCCESS", [vec[v] EXCEPT !.buf[pos] = e])})
  PROVE  Matched
<1> DEFINE q == [vec[v] EXCEPT !.buf[pos] = e]
           c == Content(vec[v])
<1>1. vec' = [vec EXCEPT ![v] = q] /\ ret' = "CS_SUCCESS" /\ radix' = radix
  <2>1. PICK r \in {Answer("CS_SUCCESS", q)} : vec' = [vec EXCEPT ![v] = r.q] /\ ret' = r.rc /\ radix' = radix
    BY DEF Reply
  <2> HIDE DEF q
  <2>2. r.q = q /\ r.rc = "CS_SUCCESS"
    BY DEF Answer
  <2>3. QED
    BY <2>1, <2>2
<1>2. Good(vec[v]) /\ vec[v].live /\ vec[v].size \in Nat /\ vec[v].cap \in Nat /\ vec[v].size <= vec[v].cap
  BY InUseFacts
<1>3. DOMAIN vec[v].buf = 0 .. vec[v].cap - 1
  BY <1>2, GoodFacts
<1>4. /\ q.live = vec[v].live /\ q.attr = vec[v].attr /\ q.size = vec[v].size
      /\ q.buf = [vec[v].buf EXCEPT ![pos] = e]
  BY <1>2 DEF Good, Struct
<1> HIDE DEF q
<1>5. \A i \in 1 .. vec[v].size : q.buf[i - 1] = IF i = pos + 1 THEN e ELSE vec[v].buf[i - 1]
  BY <1>2, <1>3, <1>4
<1>6. DOMAIN c = 1 .. vec[v].size /\ \A i \in 1 .. vec[v].size : c[i] = vec[v].buf[i - 1]
  BY <1>2, ContentFacts
<1> HIDE DEF c
<1>7. Content(q) = [Content(vec[v]) EXCEPT ![pos + 1] = e]
  <2>1. Content(q) = [c EXCEPT ![pos + 1] = e]
    BY <1>2, <1>4, <1>5, <1>6 DEF Content
  <2>2. QED
    BY <2>1 DEF c
<1> PICK d : d = Content(q)
  OBVIOUS
<1>8. Abs!Becomes(v, d)
  BY <1>1, <1>2, <1>4, <1>7, VectorBecomes
<1>9. pos \in 0 .. vec[v].size - 1
  BY <1>2
<1>10. Abs!Next
  BY <1>7, <1>8, <1>9, VectorReplace
<1>11. Attached'
  BY <1>1, <1>2, <1>4, AttachedKept
<1>12. QED
  BY <1>10, <1>11 DEF Matched

(* clear. *)
LEMMA VectorClearStep == ASSUME NEW v, InUse(v), Clear(v) PROVE Matched
<1> DEFINE q == [vec[v] EXCEPT !.size = 0, !.buf = Empty(vec[v].cap)]
<1>1. vec' = [vec EXCEPT ![v] = q] /\ ret' = "CS_SUCCESS" /\ radix' = radix /\ radix = NoRadix
  <2>1. radix = NoRadix
    BY DEF Clear, Usable
  <2>2. PICK r \in {Answer("CS_SUCCESS", q)} : vec' = [vec EXCEPT ![v] = r.q] /\ ret' = r.rc /\ radix' = radix
    BY DEF Clear, Reply
  <2> HIDE DEF q
  <2>3. r.q = q /\ r.rc = "CS_SUCCESS"
    BY DEF Answer
  <2>4. QED
    BY <2>1, <2>2, <2>3
<1>2. v \in Vectors /\ Good(vec[v]) /\ vec[v].live
  BY InUseFacts
<1>3. q.live = vec[v].live /\ q.attr = vec[v].attr /\ q.size = 0
  BY <1>2 DEF Good, Struct
<1> HIDE DEF q
<1>4. << >> = Content(q)
  BY <1>3 DEF Content
<1>5. Abs!Becomes(v, << >>)
  BY <1>1, <1>2, <1>3, <1>4, VectorBecomes
<1>6. Abs!Clear(v)
  BY <1>2, <1>5 DEF Abs!Clear
<1>7. Abs!Next
  BY <1>2, <1>6 DEF Abs!Next
<1>8. Attached'
  BY <1>1, <1>2, <1>3, AttachedKept
<1>9. QED
  BY <1>7, <1>8 DEF Matched

(* swap. *)
LEMMA VectorSwapStep ==
  ASSUME NEW v, InUse(v), NEW w, InUse(w), Swap(v, w)
  PROVE  Matched
<1>1. /\ vec' = [vec EXCEPT ![v] = vec[w], ![w] = vec[v]] /\ ret' = "CS_SUCCESS"
      /\ radix' = radix /\ radix = NoRadix /\ v # w
  BY InUseFacts, SwapIs
<1>2. v \in Vectors /\ w \in Vectors /\ vec[v].live /\ vec[w].live /\ DOMAIN vec = Vectors
  BY InUseFacts
<1>3. \A x \in Vectors : vec'[x] = IF x = w THEN vec[v] ELSE IF x = v THEN vec[w] ELSE vec[x]
  BY <1>1, <1>2
<1>4. {x \in Vectors : vec'[x].live} = {x \in Vectors : vec[x].live}
  BY <1>2, <1>3
<1>5. [x \in Vectors |-> IF vec'[x].attr.comp THEN "comp" ELSE "bytes"]
        = [[x \in Vectors |-> IF vec[x].attr.comp THEN "comp" ELSE "bytes"]
             EXCEPT ![v] = IF vec[w].attr.comp THEN "comp" ELSE "bytes",
                    ![w] = IF vec[v].attr.comp THEN "comp" ELSE "bytes"]
  BY <1>1, <1>2, <1>3
<1>6. [x \in Vectors |-> Content(vec'[x])]
        = [[x \in Vectors |-> Content(vec[x])] EXCEPT ![v] = Content(vec[w]), ![w] = Content(vec[v])]
  BY <1>1, <1>2, <1>3
<1>7. Abs!Swap(v, w)
  BY <1>1, <1>2, <1>4, <1>5, <1>6 DEF Abs!Swap, Content
<1>8. Abs!Next
  BY <1>2, <1>7 DEF Abs!Next
<1>9. Attached'
  BY <1>1, <1>2, <1>3 DEF Attached, InUse
<1>10. QED
  BY <1>8, <1>9 DEF Matched

(* The permutations of Vector are those of its abstract specification. *)
LEMMA SamePermutations == \A S, T : Abs!Bijection(S, T) = Bijection(S, T)
BY DEF Bijection, Injection, Surjection, IsInjective,
       Abs!Bijection, Abs!Injection, Abs!Surjection, Abs!IsInjective

(* A permutation of the indices from 0 is one of those from 1. *)
LEMMA ShiftedBijection ==
  ASSUME NEW n \in Nat, NEW p \in Bijection(0 .. n - 1, 0 .. n - 1),
         NEW s, s = [i \in 1 .. n |-> p[i - 1] + 1]
  PROVE  s \in Bijection(1 .. n, 1 .. n) /\ \A i \in 1 .. n : s[i] - 1 = p[i - 1] /\ p[i - 1] \in 0 .. n - 1
<1>1. p \in [0 .. n - 1 -> 0 .. n - 1] /\ p \in Injection(0 .. n - 1, 0 .. n - 1) /\ p \in Surjection(0 .. n - 1, 0 .. n - 1)
  <2> DEFINE D == 0 .. n - 1
  <2>1. p \in Bijection(D, D)
    OBVIOUS
  <2> HIDE DEF D
  <2>2. p \in [D -> D] /\ p \in Injection(D, D) /\ p \in Surjection(D, D)
    BY <2>1, Fun_BijectionProperties
  <2>3. QED
    BY <2>2 DEF D
<1>2. \A i \in 1 .. n : i - 1 \in 0 .. n - 1 /\ p[i - 1] \in 0 .. n - 1 /\ s[i] = p[i - 1] + 1
  BY <1>1
<1>3. s \in [1 .. n -> 1 .. n]
  BY <1>2
<1>4. ASSUME NEW i \in 1 .. n, NEW j \in 1 .. n, s[i] = s[j] PROVE i = j
  <2>1. p[i - 1] = p[j - 1] /\ i - 1 \in 0 .. n - 1 /\ j - 1 \in 0 .. n - 1
    <3>1. \A a, b \in 0 .. n - 1 : a + 1 = b + 1 => a = b
      OBVIOUS
    <3>2. p[i - 1] + 1 = p[j - 1] + 1
      BY <1>2, <1>4
    <3>3. QED
      BY <1>2, <3>1, <3>2
  <2>2. i - 1 = j - 1
    BY <1>1, <2>1 DEF Injection, IsInjective
  <2>3. QED
    BY <2>2
<1>5. ASSUME NEW j \in 1 .. n PROVE \E i \in 1 .. n : s[i] = j
  <2>1. j - 1 \in 0 .. n - 1
    OBVIOUS
  <2>2. PICK k \in 0 .. n - 1 : p[k] = j - 1
    BY <1>1, <2>1 DEF Surjection
  <2>3. k + 1 \in 1 .. n /\ (k + 1) - 1 = k
    OBVIOUS
  <2>4. s[k + 1] = j
    BY <1>2, <2>2, <2>3
  <2>5. QED
    BY <2>3, <2>4
<1>6. s \in Bijection(1 .. n, 1 .. n)
  BY <1>3, <1>4, <1>5 DEF Bijection, Injection, Surjection, IsInjective
<1>7. QED
  BY <1>2, <1>6

(* Numbers in order have places in order. *)
LEMMA PlacesOrdered ==
  ASSUME NEW e \in Elems, NEW f \in Elems, NEW by \in {"comp", "bytes"}, Place(e, by) <= Place(f, by)
  PROVE  Place(e, by) < Place(f, by) \/ Place(e, by) = Place(f, by)
<1>1. \A d \in Elems : Key(d) \in Int /\ d \in Int
  <2>1. Elems \subseteq 0 .. Weight[ElemSize] - 1 /\ \A d \in Elems : Key(d) \in Int
    BY VectorAssumption
  <2>2. Weight[ElemSize] - 1 \in Int
    BY VectorAssumption
  <2>3. QED
    BY <2>1, <2>2
<1>2. Place(e, by) \in Int /\ Place(f, by) \in Int
  BY <1>1 DEF Place
<1>3. QED
  BY <1>2

\* r has the elements of q, in the order of its attributes.
SortedFrom(q, r) ==
  /\ r.live = q.live /\ r.attr = q.attr /\ r.size = q.size
  /\ \E p \in Bijection(Used(q), Used(q)) : \A i \in Used(q) : r.buf[i] = q.buf[p[i]]
  /\ \A i, j \in Used(q) :
       i < j => LET by == IF q.attr.comp THEN "comp" ELSE "bytes" IN Place(r.buf[i], by) <= Place(r.buf[j], by)

(* A permutation of the array that is in order is a sorting of the sequence. *)
LEMMA SortedContent ==
  ASSUME NEW q, Good(q), NEW r, SortedFrom(q, r), NEW by, by = IF q.attr.comp THEN "comp" ELSE "bytes",
         NEW c, c = Content(q), NEW d, d = Content(r)
  PROVE  Abs!IsSorting(c, d, by)
<1> DEFINE n == q.size
           D == 0 .. n - 1
<1>1. /\ n \in Nat /\ Used(q) = D /\ Len(c) = n /\ DOMAIN c = 1 .. n
      /\ \A i \in 1 .. n : c[i] = q.buf[i - 1] /\ c[i] \in Elems
  BY ContentFacts DEF Used
<1>2. by \in {"comp", "bytes"}
  OBVIOUS
<1>3. PICK p \in Bijection(D, D) : \A i \in D : r.buf[i] = q.buf[p[i]]
  BY <1>1 DEF SortedFrom
<1>4. \A i, j \in D : i < j => Place(r.buf[i], by) <= Place(r.buf[j], by)
  BY <1>1 DEF SortedFrom
<1>5. r.size = n
  BY DEF SortedFrom
<1> HIDE DEF n
<1> DEFINE s == [i \in 1 .. n |-> p[i - 1] + 1]
<1> HIDE DEF s
<1>6. s \in Bijection(1 .. n, 1 .. n) /\ \A i \in 1 .. n : s[i] - 1 = p[i - 1] /\ p[i - 1] \in D
  BY <1>1, <1>3, ShiftedBijection DEF s
<1>7. s \in [1 .. n -> 1 .. n]
  BY <1>6, Fun_BijectionProperties
<1>8. d = [i \in 1 .. n |-> r.buf[i - 1]]
  BY <1>5 DEF Content
<1>9. ASSUME NEW i \in 1 .. n PROVE d[i] = r.buf[i - 1] /\ d[i] = c[s[i]] /\ d[i] \in Elems
  <2>1. i - 1 \in D /\ d[i] = r.buf[i - 1]
    BY <1>1, <1>8
  <2>2. s[i] \in 1 .. n /\ s[i] - 1 = p[i - 1]
    BY <1>6, <1>7
  <2>3. c[s[i]] = q.buf[p[i - 1]] /\ c[s[i]] \in Elems
    BY <1>1, <2>2
  <2>4. QED
    BY <1>3, <2>1, <2>3
<1>10. ASSUME NEW i \in 1 .. n, NEW j \in 1 .. n, i < j
       PROVE  Place(d[i], by) < Place(d[j], by) \/ Place(d[i], by) = Place(d[j], by)
  <2>1. i - 1 \in D /\ j - 1 \in D /\ i - 1 < j - 1
    BY <1>1, <1>10
  <2>2. Place(d[i], by) <= Place(d[j], by)
    BY <1>4, <1>9, <2>1
  <2>3. QED
    BY <1>2, <1>9, <2>2, PlacesOrdered
<1>11. Len(d) = n
  BY <1>1, <1>8
<1>12. s \in Abs!Bijection(DOMAIN c, DOMAIN c)
  BY <1>1, <1>6, SamePermutations
<1>13. QED
  BY <1>1, <1>9, <1>10, <1>11, <1>12 DEF Abs!IsSorting

(* A call that leaves a sorting has sorted. *)
LEMMA VectorSorted ==
  ASSUME NEW v, InUse(v), NEW q, SortedFrom(vec[v], q), vec' = [vec EXCEPT ![v] = q], ret' = "CS_SUCCESS"
  PROVE  Abs!Next
<1> DEFINE k == [w \in Vectors |-> [j \in 1 .. vec[w].size |-> vec[w].buf[j - 1]]]
           o == [w \in Vectors |-> IF vec[w].attr.comp THEN "comp" ELSE "bytes"]
<1>1. v \in Vectors /\ vec[v].live /\ Good(vec[v]) /\ DOMAIN vec = Vectors
  BY InUseFacts
<1>2. q.live /\ q.attr = vec[v].attr
  BY <1>1 DEF SortedFrom
<1> PICK d : d = Content(q)
  OBVIOUS
<1>3. Abs!Becomes(v, d)
  BY <1>2, VectorBecomes
<1>4. k[v] = Content(vec[v]) /\ o[v] = IF vec[v].attr.comp THEN "comp" ELSE "bytes"
  BY <1>1 DEF Content
<1> PICK c : c = Content(vec[v])
  OBVIOUS
<1> PICK by : by = IF vec[v].attr.comp THEN "comp" ELSE "bytes"
  OBVIOUS
<1>5. Abs!IsSorting(c, d, by)
  BY <1>1, SortedContent
<1>6. k[v] = c /\ o[v] = by
  BY <1>4
<1>7. k' = [k EXCEPT ![v] = d] /\ ret' = "CS_SUCCESS" /\ UNCHANGED << {w \in Vectors : vec[w].live}, o >>
  BY <1>3 DEF Abs!Becomes
<1>8. DOMAIN k = Vectors
  OBVIOUS
<1> HIDE DEF k, o
<1>9. k'[v] = d
  BY <1>1, <1>7, <1>8
<1>10. Abs!Sort(v)
  <2>1. v \in {w \in Vectors : vec[w].live}
    BY <1>1
  <2>2. k' = [k EXCEPT ![v] = k'[v]]
    BY <1>7, <1>9
  <2>3. Abs!IsSorting(k[v], k'[v], o[v])
    BY <1>5, <1>6, <1>9 DEF Abs!IsSorting
  <2>4. QED
    BY <1>7, <2>1, <2>2, <2>3 DEF Abs!Sort, Abs!Becomes, k, o
<1>11. QED
  BY <1>1, <1>10 DEF Abs!Next

(* sort with a comparator. *)
LEMMA VectorSortByCompStep == ASSUME NEW v, InUse(v), SortByComp(v) PROVE Matched
<1> DEFINE D == Used(vec[v])
<1>1. v \in Vectors /\ vec[v].live /\ Good(vec[v]) /\ vec[v].size \in Nat
  BY InUseFacts
<1>2. radix = NoRadix /\ vec[v].attr.comp
  BY DEF SortByComp, Usable
<1>3. PICK p \in Bijection(D, D) :
        /\ \A i, j \in D : i < j => Key(vec[v].buf[p[i]]) <= Key(vec[v].buf[p[j]])
        /\ Reply(v, {Answer("CS_SUCCESS", [vec[v] EXCEPT !.buf =
                       [i \in DOMAIN @ |-> IF i \in Used(vec[v]) THEN vec[v].buf[p[i]] ELSE @[i]]])})
  BY DEF SortByComp
<1> DEFINE buf == [i \in DOMAIN vec[v].buf |-> IF i \in D THEN vec[v].buf[p[i]] ELSE vec[v].buf[i]]
           q == [vec[v] EXCEPT !.buf = buf]
<1>4. vec' = [vec EXCEPT ![v] = q] /\ ret' = "CS_SUCCESS" /\ radix' = radix
  <2>1. PICK r \in {Answer("CS_SUCCESS", q)} : vec' = [vec EXCEPT ![v] = r.q] /\ ret' = r.rc /\ radix' = radix
    BY <1>3 DEF Reply
  <2> HIDE DEF q
  <2>2. r.q = q /\ r.rc = "CS_SUCCESS"
    BY DEF Answer
  <2>3. QED
    BY <2>1, <2>2
<1>5. q.live = vec[v].live /\ q.attr = vec[v].attr /\ q.size = vec[v].size /\ q.buf = buf
  BY <1>1 DEF Good, Struct
<1>6. \A i \in D : buf[i] = vec[v].buf[p[i]]
  BY <1>1, GoodFacts
<1> HIDE DEF q, buf
<1>7. SortedFrom(vec[v], q)
  <2>1. \E f \in Bijection(D, D) : \A i \in D : q.buf[i] = vec[v].buf[f[i]]
    BY <1>3, <1>5, <1>6
  <2>2. ASSUME NEW i \in D, NEW j \in D, i < j PROVE Place(q.buf[i], "comp") <= Place(q.buf[j], "comp")
    BY <1>3, <1>5, <1>6, <2>2 DEF Place
  <2>3. QED
    BY <1>2, <1>5, <2>1, <2>2 DEF SortedFrom
<1>8. Abs!Next
  BY <1>4, <1>7, VectorSorted
<1>9. Attached'
  BY <1>1, <1>2, <1>4, <1>5, AttachedKept
<1>10. QED
  BY <1>8, <1>9 DEF Matched

(* A radix sort begins, which changes no elements yet, or does nothing for want of memory. *)
LEMMA VectorRadixStartStep == ASSUME NEW v, InUse(v), RadixStart(v) PROVE Matched
<1>1. CASE Refuse("CS_SUCCESS")
  BY <1>1, VectorRefuseStep
<1>2. CASE /\ radix' = [of |-> v, byte |-> 0, src |-> [i \in Used(vec[v]) |-> vec[v].buf[i]]]
           /\ UNCHANGED << vec, ret >>
  <2>1. v \in Vectors /\ vec[v].live /\ ~ vec[v].attr.comp
    BY InUseFacts DEF RadixStart
  <2>2. vec' = vec /\ ret' = ret /\ radix'.of = v
    BY <1>2
  <2>3. Attached'
    BY <2>1, <2>2 DEF Attached, InUse
  <2>4. UNCHANGED Abs!vars
    BY <2>2 DEF Abs!vars
  <2>5. QED
    BY <2>3, <2>4 DEF Matched
<1>3. QED
  BY <1>1, <1>2 DEF RadixStart

(* A pass of the radix sort works on a copy. *)
LEMMA VectorRadixPassStep == ASSUME VectorInv, Attached, RadixPass PROVE Matched
<1>1. radix # NoRadix /\ vec' = vec /\ ret' = ret
  BY DEF RadixPass
<1>2. radix'.of = radix.of
  BY <1>1, RadixFacts DEF RadixPass, Passes
<1>3. Attached'
  BY <1>1, <1>2 DEF Attached
<1>4. UNCHANGED Abs!vars
  BY <1>1 DEF Abs!vars
<1>5. QED
  BY <1>3, <1>4 DEF Matched

(* The end of the radix sort sorts the sequence, by the numbers that the bytes encode. *)
LEMMA VectorRadixEndStep == ASSUME VectorInv, Attached, RadixEnd PROVE Matched
<1>1. radix # NoRadix /\ radix' = NoRadix /\ ret' = "CS_SUCCESS"
  BY DEF RadixEnd
<1>2. radix.of \in Vectors /\ Good(vec[radix.of]) /\ DOMAIN vec = Vectors
  BY <1>1, RadixFacts DEF VectorInv, AllGood
<1>3. vec[radix.of].live /\ ~ vec[radix.of].attr.comp
  BY <1>1 DEF Attached
<1> PICK v : v = radix.of
  OBVIOUS
<1>4. InUse(v)
  BY <1>2, <1>3 DEF InUse
<1> DEFINE D == Used(vec[v])
           buf == [i \in DOMAIN vec[v].buf |-> IF i \in DOMAIN radix.src THEN radix.src[i] ELSE vec[v].buf[i]]
           q == [vec[v] EXCEPT !.buf = buf]
<1>5. vec' = [vec EXCEPT ![v] = q]
  BY <1>2 DEF RadixEnd
<1>6. q.live = vec[v].live /\ q.attr = vec[v].attr /\ q.size = vec[v].size
  BY <1>2 DEF Good, Struct
<1> HIDE DEF q
<1>7. vec'[v] = q
  BY <1>2, <1>5
<1>8. Permuted(D, q.buf, vec[v].buf) /\ \A i, j \in D : i < j => q.buf[i] <= q.buf[j]
  BY <1>7, RadixEndFacts
<1>9. SortedFrom(vec[v], q)
  <2>1. \A i, j \in D : i < j => Place(q.buf[i], "bytes") <= Place(q.buf[j], "bytes")
    BY <1>8 DEF Place
  <2>2. \E p \in Bijection(D, D) : \A i \in D : q.buf[i] = vec[v].buf[p[i]]
    BY <1>8 DEF Permuted
  <2>3. QED
    BY <1>3, <1>6, <2>1, <2>2 DEF SortedFrom
<1>10. Abs!Next
  BY <1>1, <1>4, <1>5, <1>9, VectorSorted
<1>11. Attached'
  <2>1. \A w \in Vectors : vec'[w] = IF w = v THEN q ELSE vec[w]
    BY <1>2, <1>5
  <2>2. QED
    BY <1>1, <1>3, <1>6, <2>1 DEF Attached
<1>12. QED
  BY <1>10, <1>11 DEF Matched

(* free. *)
LEMMA VectorFreeStep == ASSUME NEW v, InUse(v), Free(v) PROVE Matched
<1> DEFINE q == [Fresh(v) EXCEPT !.live = FALSE]
<1>1. v \in Vectors /\ vec[v].live /\ DOMAIN vec = Vectors
  BY InUseFacts
<1>2. vec' = [vec EXCEPT ![v] = q] /\ ret' = "CS_SUCCESS" /\ radix' = radix /\ radix = NoRadix
  <2>1. radix = NoRadix
    BY DEF Free, Usable
  <2>2. PICK r \in {Answer("CS_SUCCESS", q)} : vec' = [vec EXCEPT ![v] = r.q] /\ ret' = r.rc /\ radix' = radix
    BY DEF Free, Reply
  <2> HIDE DEF q
  <2>3. r.q = q /\ r.rc = "CS_SUCCESS"
    BY DEF Answer
  <2>4. QED
    BY <2>1, <2>2, <2>3
<1>3. ~ q.live /\ q.attr = Attr[v] /\ q.size = 0
  BY DEF Fresh
<1> HIDE DEF q
<1>4. \A w \in Vectors : vec'[w] = IF w = v THEN q ELSE vec[w]
  BY <1>1, <1>2
<1>5. {w \in Vectors : vec'[w].live} = {w \in Vectors : vec[w].live} \ {v}
  BY <1>1, <1>3, <1>4
<1>6. Content(q) = << >>
  BY <1>3 DEF Content
<1>7. [w \in Vectors |-> Content(vec'[w])] = [[w \in Vectors |-> Content(vec[w])] EXCEPT ![v] = << >>]
  BY <1>1, <1>4, <1>6
<1> DEFINE by == IF Attr[v].comp THEN "comp" ELSE "bytes"
<1>8. by \in {"comp", "bytes"}
  OBVIOUS
<1>9. [w \in Vectors |-> IF vec'[w].attr.comp THEN "comp" ELSE "bytes"]
        = [[w \in Vectors |-> IF vec[w].attr.comp THEN "comp" ELSE "bytes"] EXCEPT ![v] = by]
  BY <1>1, <1>3, <1>4
<1> HIDE DEF by
<1>10. v \in {w \in Vectors : vec[w].live}
  BY <1>1
<1>11. Abs!Free(v)
  BY <1>2, <1>5, <1>7, <1>8, <1>9, <1>10 DEF Abs!Free, Content
<1>12. Abs!Next
  BY <1>1, <1>11 DEF Abs!Next
<1>13. Attached'
  BY <1>2, <1>3, <1>4 DEF Attached, InUse
<1>14. QED
  BY <1>12, <1>13 DEF Matched

(* init after a free. *)
LEMMA VectorStartStep == ASSUME VectorInv, Attached, NEW v \in Vectors, Start(v) PROVE Matched
<1> DEFINE n == Fresh(v)
<1>1. DOMAIN vec = Vectors /\ radix = NoRadix /\ ~ vec[v].live /\ vec[v].size = 0
  BY DEF VectorInv, AllGood, Start, Attached
<1>2. n.live /\ n.attr = Attr[v] /\ n.size = 0
  BY DEF Fresh
<1>3. PICK q : /\ vec' = [vec EXCEPT ![v] = q] /\ radix' = radix
               /\ (q = n /\ ret' = "CS_SUCCESS") \/ (q = vec[v] /\ ret' = "CS_MEM")
  <2> HIDE DEF n
  <2> DEFINE answers == {Answer("CS_SUCCESS", n)} \cup (IF AllocFails THEN {Answer("CS_MEM", vec[v])} ELSE {})
  <2>1. Reply(v, answers)
    BY DEF Start, n
  <2>2. PICK r \in answers : vec' = [vec EXCEPT ![v] = r.q] /\ ret' = r.rc /\ radix' = radix
    BY <2>1 DEF Reply
  <2>3. (r.q = n /\ r.rc = "CS_SUCCESS") \/ (r.q = vec[v] /\ r.rc = "CS_MEM")
    BY DEF Answer
  <2>4. QED
    BY <2>2, <2>3
<1> HIDE DEF n
<1>4. \A w \in Vectors : vec'[w] = IF w = v THEN q ELSE vec[w]
  BY <1>1, <1>3
<1>5. v \notin {w \in Vectors : vec[w].live}
  BY <1>1
<1>6. CASE q = n /\ ret' = "CS_SUCCESS"
  <2>1. {w \in Vectors : vec'[w].live} = {w \in Vectors : vec[w].live} \cup {v}
    BY <1>2, <1>4, <1>6
  <2>2. Content(q) = Content(vec[v])
    BY <1>1, <1>2, <1>6 DEF Content
  <2>3. [w \in Vectors |-> Content(vec'[w])] = [w \in Vectors |-> Content(vec[w])]
    BY <1>4, <2>2
  <2> DEFINE by == IF Attr[v].comp THEN "comp" ELSE "bytes"
  <2>4. by \in {"comp", "bytes"}
    OBVIOUS
  <2>5. [w \in Vectors |-> IF vec'[w].attr.comp THEN "comp" ELSE "bytes"]
          = [[w \in Vectors |-> IF vec[w].attr.comp THEN "comp" ELSE "bytes"] EXCEPT ![v] = by]
    BY <1>2, <1>4, <1>6
  <2> HIDE DEF by
  <2>6. Abs!Start(v)
    BY <1>5, <1>6, <2>1, <2>3, <2>4, <2>5 DEF Abs!Start, Content
  <2>7. Abs!Next
    BY <2>6 DEF Abs!Next
  <2>8. Attached'
    BY <1>1, <1>2, <1>3, <1>4, <1>6 DEF Attached
  <2>9. QED
    BY <2>7, <2>8 DEF Matched
<1>7. CASE q = vec[v] /\ ret' = "CS_MEM"
  <2>1. \A w \in Vectors : vec'[w] = vec[w]
    BY <1>4, <1>7
  <2>2. Abs!Refuse("CS_MEM")
    BY <1>7, <2>1 DEF Abs!Refuse
  <2>3. Abs!Start(v)
    BY <1>5, <2>2 DEF Abs!Start
  <2>4. Abs!Next
    BY <2>3 DEF Abs!Next
  <2>5. Attached'
    BY <1>1, <1>3, <2>1 DEF Attached
  <2>6. QED
    BY <2>4, <2>5 DEF Matched
<1>8. QED
  BY <1>3, <1>6, <1>7

(* insert_elem, erase and replace. *)
LEMMA VectorEditStep == ASSUME NEW v, InUse(v), radix = NoRadix, Edit(v) PROVE Matched
<1>1. vec[v].size \in Nat
  BY InUseFacts
<1>2. PICK pos \in 0 .. vec[v].size + 1 :
        Erase(v, pos) \/ \E e \in Elems : InsertElem(v, e, pos) \/ Replace(v, e, pos)
  BY DEF Edit
<1>3. pos \in Nat
  BY <1>1
<1>4. CASE Erase(v, pos)
  <2>1. CASE vec[v].size = 0
    BY <1>4, <2>1, VectorRefuseStep DEF Erase
  <2>2. CASE vec[v].size # 0 /\ pos >= vec[v].size
    BY <1>4, <2>2, VectorRefuseStep DEF Erase
  <2>3. CASE vec[v].size # 0 /\ ~ (pos >= vec[v].size)
    <3>1. pos < vec[v].size /\ Reply(v, Shrunk(Closed(vec[v], pos)))
      BY <1>1, <1>3, <1>4, <2>3 DEF Erase
    <3>2. QED
      BY <1>3, <3>1, VectorCutStep
  <2>4. QED
    BY <2>1, <2>2, <2>3
<1>5. ASSUME NEW e \in Elems, InsertElem(v, e, pos) PROVE Matched
  <2>1. CASE pos > vec[v].size
    <3>1. Refuse("CS_POS") /\ pos >= vec[v].size
      BY <1>1, <1>3, <1>5, <2>1 DEF InsertElem
    <3>2. QED
      BY <3>1, VectorRefuseStep
  <2>2. CASE ~ (pos > vec[v].size)
    <3>1. pos <= vec[v].size /\ Bounded(v) /\ Reply(v, Put(vec[v], e, pos))
      BY <1>1, <1>3, <1>5, <2>2 DEF InsertElem
    <3>2. QED
      BY <1>3, <3>1, VectorPutStep
  <2>3. QED
    BY <2>1, <2>2
<1>6. ASSUME NEW e \in Elems, Replace(v, e, pos) PROVE Matched
  <2>1. CASE vec[v].size = 0
    BY <1>6, <2>1, VectorRefuseStep DEF Replace
  <2>2. CASE vec[v].size # 0 /\ pos >= vec[v].size
    BY <1>6, <2>2, VectorRefuseStep DEF Replace
  <2>3. CASE vec[v].size # 0 /\ ~ (pos >= vec[v].size)
    <3>1. pos < vec[v].size /\ Reply(v, {Answer("CS_SUCCESS", [vec[v] EXCEPT !.buf[pos] = e])})
      BY <1>1, <1>3, <1>6, <2>3 DEF Replace
    <3>2. QED
      BY <1>3, <3>1, VectorReplaceStep
  <2>4. QED
    BY <2>1, <2>2, <2>3
<1>7. QED
  BY <1>2, <1>4, <1>5, <1>6

(* reserve and shrink_to_fit. *)
LEMMA VectorCapacityStep == ASSUME NEW v, InUse(v), radix = NoRadix, Capacity(v) PROVE Matched
<1>1. /\ vec[v].size \in Nat /\ vec[v].cap \in Nat /\ vec[v].size <= vec[v].cap /\ Good(vec[v])
  BY InUseFacts
<1>2. ASSUME NEW cap \in Nat, vec[v].size <= cap, Reply(v, Realloc(vec[v], cap)) PROVE Matched
  <2>1. \A r \in Realloc(vec[v], cap) : Kept(vec[v], r.q) /\ r.rc \in {"CS_SUCCESS", "CS_MEM"}
    BY <1>1, <1>2, ReallocKept
  <2>2. QED
    BY <1>2, <2>1, VectorKeepStep
<1>3. ASSUME NEW cap \in Reserves, Reserve(v, cap) PROVE Matched
  <2>1. cap \in Nat /\ cap <= IntMax
    BY VectorAssumption
  <2>2. CASE cap = 0
    BY <1>3, <2>2, VectorRefuseStep DEF Reserve
  <2>3. CASE cap # 0 /\ cap < vec[v].cap
    BY <1>3, <2>3, VectorRefuseStep DEF Reserve
  <2>4. CASE cap # 0 /\ ~ (cap < vec[v].cap)
    <3>1. vec[v].size <= cap /\ Reply(v, Realloc(vec[v], cap))
      BY <1>1, <1>3, <2>1, <2>4 DEF Reserve
    <3>2. QED
      BY <1>2, <2>1, <3>1
  <2>5. QED
    BY <2>2, <2>3, <2>4
<1>4. CASE ShrinkToFit(v)
  <2>1. CASE vec[v].size >= vec[v].cap
    BY <1>4, <2>1, VectorRefuseStep DEF ShrinkToFit
  <2>2. CASE ~ (vec[v].size >= vec[v].cap)
    <3> DEFINE cap == IF vec[v].size > 0 THEN vec[v].size ELSE 1
    <3>1. cap \in Nat /\ vec[v].size <= cap
      BY <1>1
    <3>2. Reply(v, Realloc(vec[v], cap))
      BY <1>4, <2>2 DEF ShrinkToFit
    <3> HIDE DEF cap
    <3> PICK c : c = cap
      OBVIOUS
    <3>3. Reply(v, Realloc(vec[v], c))
      BY <3>2 DEF Reply
    <3>4. QED
      BY <1>2, <3>1, <3>3
  <2>3. QED
    BY <2>1, <2>2
<1>5. QED
  BY <1>3, <1>4 DEF Capacity

(* Every operation on one vector. *)
LEMMA VectorCallStep ==
  ASSUME VectorInv, Attached, NEW v \in Vectors,
         \/ PopBack(v) \/ Edit(v) \/ Capacity(v) \/ Sort(v)
         \/ Clear(v) \/ Free(v) \/ Start(v)
         \/ \E e \in Elems : PushBack(v, e)
  PROVE  Matched
<1>1. Usable(v) => InUse(v) /\ radix = NoRadix
  BY DEF Usable, InUse
<1>2. ASSUME NEW e \in Elems, PushBack(v, e) PROVE Matched
  <2>1. InUse(v) /\ radix = NoRadix /\ Bounded(v) /\ Reply(v, Put(vec[v], e, vec[v].size))
    BY <1>1, <1>2 DEF PushBack
  <2>2. vec[v].size \in Nat
    BY <2>1, InUseFacts
  <2> PICK pos : pos = vec[v].size
    OBVIOUS
  <2>3. pos \in Nat /\ pos <= vec[v].size
    BY <2>2
  <2>4. Reply(v, Put(vec[v], e, pos))
    BY <2>1 DEF Reply
  <2>5. QED
    BY <2>1, <2>3, <2>4, VectorPutStep
<1>3. CASE PopBack(v)
  <2>1. InUse(v) /\ radix = NoRadix
    BY <1>1, <1>3 DEF PopBack
  <2>2. vec[v].size \in Nat
    BY <2>1, InUseFacts
  <2>3. CASE vec[v].size = 0
    BY <1>3, <2>1, <2>3, VectorRefuseStep DEF PopBack
  <2>4. CASE vec[v].size # 0
    <3> PICK pos : pos = vec[v].size - 1
      OBVIOUS
    <3>1. pos \in Nat /\ pos < vec[v].size
      BY <2>2, <2>4
    <3>2. Reply(v, Shrunk(Closed(vec[v], pos)))
      BY <1>3, <2>4 DEF PopBack, Reply
    <3>3. QED
      BY <2>1, <3>1, <3>2, VectorCutStep
  <2>5. QED
    BY <2>3, <2>4
<1>4. CASE Edit(v)
  <2>1. Usable(v)
    BY <1>4 DEF Edit, Erase, InsertElem, Replace
  <2>2. QED
    BY <1>1, <1>4, <2>1, VectorEditStep
<1>5. CASE Capacity(v)
  <2>1. Usable(v)
    BY <1>5 DEF Capacity, ShrinkToFit, Reserve
  <2>2. QED
    BY <1>1, <1>5, <2>1, VectorCapacityStep
<1>6. CASE Sort(v)
  <2>1. CASE SortByComp(v)
    BY <1>1, <2>1, VectorSortByCompStep DEF SortByComp
  <2>2. CASE SortSmall(v)
    BY <1>1, <2>2, VectorRefuseStep DEF SortSmall
  <2>3. CASE RadixStart(v)
    BY <1>1, <2>3, VectorRadixStartStep DEF RadixStart
  <2>4. QED
    BY <1>6, <2>1, <2>2, <2>3 DEF Sort
<1>7. CASE Clear(v)
  BY <1>1, <1>7, VectorClearStep DEF Clear
<1>8. CASE Free(v)
  BY <1>1, <1>8, VectorFreeStep DEF Free
<1>9. CASE Start(v)
  BY <1>9, VectorStartStep
<1>10. QED
  BY <1>2, <1>3, <1>4, <1>5, <1>6, <1>7, <1>8, <1>9

(* Every step of the vectors. *)
LEMMA VectorMatches == ASSUME VectorInv, Attached, [Next]_vars PROVE Matched
<1>1. ASSUME NEW v \in Vectors, NEW w \in Vectors, Swap(v, w) PROVE Matched
  <2>1. InUse(v) /\ InUse(w)
    BY <1>1 DEF Swap, Usable, InUse
  <2>2. QED
    BY <1>1, <2>1, VectorSwapStep
<1>2. CASE UNCHANGED vars
  <2>1. vec' = vec /\ radix' = radix /\ ret' = ret
    BY <1>2 DEF vars
  <2>2. Attached'
    BY <2>1 DEF Attached
  <2>3. UNCHANGED Abs!vars
    BY <2>1 DEF Abs!vars
  <2>4. QED
    BY <2>2, <2>3 DEF Matched
<1>3. QED
  BY <1>1, <1>2, VectorCallStep, VectorRadixPassStep, VectorRadixEndStep DEF Next

(* The vectors begin as empty sequences. *)
LEMMA VectorBegins == ASSUME Init PROVE VectorInv /\ Attached /\ Abs!Init
<1>1. vec = [v \in Vectors |-> Fresh(v)] /\ radix = NoRadix /\ ret = "CS_SUCCESS"
  BY DEF Init
<1>2. \A v \in Vectors : vec[v] = Fresh(v) /\ vec[v].live /\ vec[v].size = 0
  BY <1>1 DEF Fresh
<1>3. Attached
  BY <1>1, <1>2 DEF Attached
<1>4. [v \in Vectors |-> Content(vec[v])] = [v \in Vectors |-> << >>]
  BY <1>2 DEF Content
<1>5. Abs!Init
  BY <1>1, <1>4 DEF Abs!Init, Content
<1>6. QED
  BY <1>3, <1>5, VectorStart

(* The vectors are sequences, as long as an int can hold their capacities: every
   operation of vector.c has the effect of one on the elements of its vectors,
   and a radix sort has its effect when it ends. *)
THEOREM VectorsAreSequences == AnySpec => VectorImplements
<1>1. AnyInit => VectorInv /\ Attached /\ Abs!Init
  BY VectorBegins DEF AnyInit
<1>2. VectorInv /\ Attached /\ [AnyNext]_anyvars => (VectorInv /\ Attached)' /\ [Abs!Next]_(Abs!vars)
  <2>1. [AnyNext]_anyvars => [Next]_vars
    BY DEF AnyNext, anyvars, vars
  <2>2. QED
    BY <2>1, VectorStep, VectorMatches DEF Matched
<1>3. QED
  BY <1>1, <1>2, PTL DEF AnySpec, anyvars, VectorImplements, Abs!Spec

Replies == {"CS_SUCCESS", "CS_MEM", "CS_EMPTY", "CS_POS", "CS_SIZE"}

(* A sequence whose calls are all defined answers with one of five codes. *)
LEMMA RepliesOnly == ASSUME Abs!Next, ret \in Replies PROVE ret' \in Replies
<1>1. \A c : Abs!PopFront(c) \/ Abs!PopBack(c) => ret' \in Replies
  BY DEF Abs!PopFront, Abs!PopBack, Abs!Refuse, Abs!Becomes, Replies
<1>2. \A c : Abs!Clear(c) \/ Abs!Sort(c) \/ Abs!Resize(c) => ret' \in Replies
  BY DEF Abs!Clear, Abs!Sort, Abs!Resize, Abs!Refuse, Abs!Becomes, Replies
<1>3. \A c : Abs!Free(c) \/ Abs!Start(c) => ret' \in Replies
  BY DEF Abs!Free, Abs!Start, Abs!Refuse, Replies
<1>4. \A c, d : Abs!Swap(c, d) => ret' \in Replies
  BY DEF Abs!Swap, Replies
<1>5. \A c, i : Abs!Erase(c, i) => ret' \in Replies
  BY DEF Abs!Erase, Abs!Refuse, Abs!Becomes, Replies
<1>6. \A c, e, i : Abs!Insert(c, e, i) \/ Abs!Replace(c, e, i) => ret' \in Replies
  BY DEF Abs!Insert, Abs!Replace, Abs!Refuse, Abs!Becomes, Replies
<1>7. ~ Abs!Break /\ ~ Abs!Broken
  BY DEF Abs!Break, Abs!Broken, Replies
<1>8. QED
  BY <1>1, <1>2, <1>3, <1>4, <1>5, <1>6, <1>7 DEF Abs!Next

(* The fields of the vectors keep their ranges. *)
LEMMA VectorTyped == ASSUME VectorInv, ret \in Replies PROVE TypeOK
<1>1. ASSUME NEW v \in Vectors
      PROVE  /\ vec[v].live \in BOOLEAN /\ vec[v].cap \in Nat /\ vec[v].size \in Nat
             /\ vec[v].attr \in [min_cap : Nat \ {0}, shrink_factor : Nat \ {0}, comp : BOOLEAN]
             /\ vec[v].buf \in [0 .. vec[v].cap - 1 -> Elems \cup {NoElem}]
  BY GoodFacts DEF VectorInv, AllGood, Attribute, Cells
<1>2. radix.of \in Vectors \cup {NoVector} /\ radix.byte \in 0 .. ElemSize
  <2>1. CASE radix = NoRadix
    BY <2>1, VectorAssumption DEF NoRadix
  <2>2. CASE radix # NoRadix
    BY <2>2, RadixFacts
  <2>3. QED
    BY <2>1, <2>2
<1>3. QED
  BY <1>1, <1>2 DEF TypeOK, Replies

(* Every field of every container keeps its range, the capacities those of an
   int: a push that would exceed them is not made. *)
THEOREM TypesCorrect == AnySpec => []TypesOK
<1>1. AnyInit => VectorInv /\ Attached /\ ret \in Replies /\ ListInv /\ ForwardInv
  BY VectorBegins, ListStart, ForwardStart DEF AnyInit, Init, Replies
<1>2. VectorInv /\ Attached /\ ret \in Replies /\ [AnyNext]_anyvars
        => VectorInv' /\ Attached' /\ (ret \in Replies)'
  <2>1. [AnyNext]_anyvars => [Next]_vars
    BY DEF AnyNext, anyvars, vars
  <2>2. ASSUME UNCHANGED Abs!vars PROVE ret' = ret
    BY <2>2 DEF Abs!vars
  <2>3. QED
    BY <2>1, <2>2, VectorStep, VectorMatches, RepliesOnly DEF Matched
<1>3. ListInv /\ ForwardInv /\ [AnyNext]_anyvars => ListInv' /\ ForwardInv'
  BY ListAnyStep, ForwardAnyStep
<1>4. VectorInv /\ ret \in Replies /\ ListInv /\ ForwardInv => TypesOK
  BY VectorTyped, ListTyped, ForwardTyped DEF TypesOK
<1>5. QED
  BY <1>1, <1>2, <1>3, <1>4, PTL DEF AnySpec, anyvars
=============================================================================
