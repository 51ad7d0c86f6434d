---------------------------- MODULE DequeProofs -----------------------------
(***************************************************************************)
(* Proofs about Deque, for any programs: any number of deques, attributes,  *)
(* calls and failed allocations.  As long as no access has left the array,  *)
(* front .. back is a window of headers in use, heap counts its buffers,    *)
(* and, when none of them is missing, the elements are packed: only the     *)
(* first block may start after its first cell, only the last may end        *)
(* before the end of its buffer.  From this follow that access by index     *)
(* finds the element of that index, and that no buffer is leaked.           *)
(***************************************************************************)
EXTENDS Deque, FiniteSetTheorems, WellFoundedInduction, TLAPS

-----------------------------------------------------------------------------
(* The inductive invariant.  f and b stand for front and back, a for the    *)
(* array of headers, n for block_size.                                      *)

Array(a, n) == \E m \in Nat : a \in [0 .. m - 1 -> Headers(n) \cup {NoBlock}]

\* The headers in use.
Window(f, b, a, n) ==
  /\ f \in Int /\ b \in Int /\ f <= b /\ f .. b \subseteq DOMAIN a
  /\ \A i \in f .. b : a[i] \in Headers(n)

Buffered(f, b, a) == {i \in f .. b : a[i].cell # << >>}
AllBuffered(f, b, a) == \A i \in f .. b : a[i].cell # << >>

Width(k) == k.back - k.front

\* Behind the first block elements start at 0, before the last they go up to n.
Packed(f, b, a, n, size) ==
  /\ \A i \in f .. b : /\ a[i].front <= a[i].back
                       /\ a[i].front < a[i].back => a[i].back <= n
  /\ \A i \in f + 1 .. b : a[i].front = 0
  /\ \A i \in f .. b - 1 : a[i].back >= n
  /\ size = IF f = b THEN Width(a[f]) ELSE Width(a[f]) + (b - f - 1) * n + a[b].back

Held(f, b, a, n, size, heap) ==
  /\ Array(a, n) /\ Window(f, b, a, n)
  /\ heap = Cardinality(Buffered(f, b, a))
  /\ AllBuffered(f, b, a) => Packed(f, b, a, n, size)

Struct(q) ==
  q \in [live : BOOLEAN, fault : BOOLEAN, cap : Nat \ {0}, front : Int, back : Int,
         size : Int, heap : Int, blocks : {q.blocks}]

Shape(q, n) == /\ Struct(q)
               /\ Held(q.front, q.back, q.blocks, n, q.size, q.heap)

\* What an operation may leave behind.
Left(q, n) == Struct(q) /\ (q.fault \/ Held(q.front, q.back, q.blocks, n, q.size, q.heap))

Shapes ==
  /\ prog \in Programs
  /\ dq \in [Deques -> {dq[d] : d \in Deques}]
  /\ \A d \in Deques : dq[d].live => Left(dq[d], BlockSize)

-----------------------------------------------------------------------------
(* Windows. *)

LEMMA BufferedFinite ==
  ASSUME NEW f \in Int, NEW b \in Int, NEW a
  PROVE  IsFiniteSet(Buffered(f, b, a)) /\ Cardinality(Buffered(f, b, a)) \in Nat
<1>1. IsFiniteSet(f .. b)
  BY FS_Interval
<1>2. Buffered(f, b, a) \subseteq f .. b
  BY DEF Buffered
<1>3. IsFiniteSet(Buffered(f, b, a))
  BY <1>1, <1>2, FS_Subset
<1>4. QED
  BY <1>3, FS_CardinalityType

(* A window that is moved as a whole holds what it held. *)
LEMMA HeldMoved ==
  ASSUME NEW f, NEW b, NEW a, NEW n, NEW size, NEW heap, NEW a2, NEW by \in Int,
         Held(f, b, a, n, size, heap), Array(a2, n),
         f + by .. b + by \subseteq DOMAIN a2,
         \A i \in f + by .. b + by : a2[i] = a[i - by]
  PROVE  Held(f + by, b + by, a2, n, size, heap)
<1> DEFINE f2 == f + by  b2 == b + by
<1>1. f \in Int /\ b \in Int /\ f <= b /\ Window(f, b, a, n)
  BY DEF Held, Window
<1>2. /\ f2 \in Int /\ b2 \in Int /\ f2 <= b2
      /\ \A i \in f2 .. b2 : i - by \in f .. b /\ a2[i] = a[i - by]
      /\ \A i \in f .. b : i + by \in f2 .. b2 /\ a2[i + by] = a[i]
  <2>1. \A i \in f2 .. b2 : i - by \in f .. b /\ a2[i] = a[i - by]
    BY <1>1
  <2>2. ASSUME NEW i \in f .. b PROVE i + by \in f2 .. b2 /\ a2[i + by] = a[i]
    <3>1. i + by \in f2 .. b2 /\ (i + by) - by = i
      BY <1>1
    <3>2. QED
      BY <2>1, <3>1
  <2>3. QED
    BY <1>1, <2>1, <2>2
<1>3. f2 .. b2 \subseteq DOMAIN a2
  OBVIOUS
<1> HIDE DEF f2, b2
<1>4. Window(f2, b2, a2, n)
  BY <1>1, <1>2, <1>3 DEF Window
<1>5. heap = Cardinality(Buffered(f2, b2, a2))
  <2> DEFINE A == Buffered(f, b, a)
             B == Buffered(f2, b2, a2)
             g == [i \in A |-> i + by]
  <2>1. g \in Bijection(A, B)
    <3>1. \A i \in A : i \in Int /\ g[i] = i + by /\ g[i] \in B
      BY <1>1, <1>2 DEF Buffered
    <3>2. \A j \in B : j - by \in A /\ (j - by) + by = j
      BY <1>1, <1>2 DEF Buffered
    <3> HIDE DEF A, B
    <3>3. g \in [A -> B]
      BY <3>1
    <3>4. \A i, j \in A : g[i] = g[j] => i = j
      BY <3>1
    <3>5. \A j \in B : \E i \in A : g[i] = j
      BY <3>1, <3>2
    <3>6. QED
      BY <3>3, <3>4, <3>5 DEF Bijection, Injection, Surjection, IsInjective
  <2>2. IsFiniteSet(A)
    BY <1>1, BufferedFinite
  <2> HIDE DEF A, B, g
  <2>3. ExistsBijection(A, B)
    BY <2>1 DEF ExistsBijection
  <2>4. Cardinality(A) = Cardinality(B)
    BY <2>2, <2>3, FS_Bijection
  <2>5. QED
    BY <2>4 DEF A, B, Held
<1>6. AllBuffered(f2, b2, a2) => Packed(f2, b2, a2, n, size)
  <2> SUFFICES ASSUME AllBuffered(f2, b2, a2) PROVE Packed(f2, b2, a2, n, size)
    OBVIOUS
  <2>1. AllBuffered(f, b, a)
    BY <1>2 DEF AllBuffered
  <2>2. Packed(f, b, a, n, size)
    BY <2>1 DEF Held
  <2>3. a2[f2] = a[f] /\ a2[b2] = a[b] /\ b2 - f2 = b - f /\ (f2 = b2 <=> f = b)
    BY <1>1, <1>2 DEF f2, b2
  <2>4. \A i \in f2 + 1 .. b2 : i \in f2 .. b2 /\ i - by \in f + 1 .. b
    BY <1>1 DEF f2, b2
  <2>5. \A i \in f2 .. b2 - 1 : i \in f2 .. b2 /\ i - by \in f .. b - 1
    BY <1>1 DEF f2, b2
  <2>6. /\ \A i \in f2 .. b2 : /\ a2[i].front <= a2[i].back
                               /\ a2[i].front < a2[i].back => a2[i].back <= n
        /\ \A i \in f2 + 1 .. b2 : a2[i].front = 0
        /\ \A i \in f2 .. b2 - 1 : a2[i].back >= n
    BY <1>2, <2>2, <2>4, <2>5 DEF Packed
  <2>7. size = IF f2 = b2 THEN Width(a2[f2])
               ELSE Width(a2[f2]) + (b2 - f2 - 1) * n + a2[b2].back
    BY <2>2, <2>3 DEF Packed
  <2>8. QED
    BY <2>6, <2>7 DEF Packed
<1>7. QED
  BY <1>4, <1>5, <1>6 DEF Held, f2, b2

(* Blocks whose cells change keep their ranges, and so does the window. *)
LEMMA HeldRewritten ==
  ASSUME NEW f, NEW b, NEW a, NEW n, NEW size, NEW heap, NEW a2,
         Held(f, b, a, n, size, heap), Array(a2, n), DOMAIN a2 = DOMAIN a,
         \A i \in f .. b : /\ a2[i] \in Headers(n)
                           /\ a2[i].front = a[i].front /\ a2[i].back = a[i].back
                           /\ a2[i].cell = << >> <=> a[i].cell = << >>
  PROVE  Held(f, b, a2, n, size, heap)
<1>1. Window(f, b, a2, n) /\ f \in f .. b /\ b \in f .. b
      /\ f + 1 .. b \subseteq f .. b /\ f .. b - 1 \subseteq f .. b
  BY DEF Held, Window
<1>2. Buffered(f, b, a2) = Buffered(f, b, a)
  BY DEF Buffered
<1>3. AllBuffered(f, b, a2) => AllBuffered(f, b, a)
  BY DEF AllBuffered
<1>4. Packed(f, b, a, n, size) => Packed(f, b, a2, n, size)
  BY <1>1 DEF Packed, Width
<1>5. QED
  BY <1>1, <1>2, <1>3, <1>4 DEF Held

(* One block changes, and stays buffered or not. *)
LEMMA HeldEdited ==
  ASSUME NEW f, NEW b, NEW a, NEW n, NEW size, NEW heap, NEW a2, NEW size2, NEW j \in f .. b,
         Held(f, b, a, n, size, heap), Array(a2, n), DOMAIN a2 = DOMAIN a,
         \A i \in f .. b : i # j => a2[i] = a[i],
         a2[j] \in Headers(n), a2[j].cell = << >> <=> a[j].cell = << >>,
         AllBuffered(f, b, a) /\ Packed(f, b, a, n, size) => Packed(f, b, a2, n, size2)
  PROVE  Held(f, b, a2, n, size2, heap)
<1>1. \A i \in f .. b : a2[i] \in Headers(n) /\ (a2[i].cell = << >> <=> a[i].cell = << >>)
  BY DEF Held, Window
<1>2. Window(f, b, a2, n)
  BY <1>1 DEF Held, Window
<1>3. Buffered(f, b, a2) = Buffered(f, b, a)
  BY <1>1 DEF Buffered
<1>4. AllBuffered(f, b, a2) => AllBuffered(f, b, a)
  BY <1>1 DEF AllBuffered
<1>5. QED
  BY <1>2, <1>3, <1>4 DEF Held

(* A block with a buffer leaves the window. *)
LEMMA HeldDropped ==
  ASSUME NEW f, NEW b, NEW a, NEW n, NEW size, NEW heap, NEW a2, NEW size2,
         NEW f2 \in Int, NEW b2 \in Int, NEW j,
         Held(f, b, a, n, size, heap), Array(a2, n), f2 <= b2,
         f .. b = f2 .. b2 \cup {j}, j \notin f2 .. b2, f2 .. b2 \subseteq DOMAIN a2,
         \A i \in f2 .. b2 : a2[i] = a[i], a[j].cell # << >>,
         AllBuffered(f, b, a) /\ Packed(f, b, a, n, size) => Packed(f2, b2, a2, n, size2)
  PROVE  Held(f2, b2, a2, n, size2, heap - 1)
<1>1. Window(f2, b2, a2, n)
  BY DEF Held, Window
<1>2. Buffered(f, b, a) = Buffered(f2, b2, a2) \cup {j} /\ j \notin Buffered(f2, b2, a2)
  BY DEF Buffered
<1>3. /\ IsFiniteSet(Buffered(f2, b2, a2))
      /\ Cardinality(Buffered(f2, b2, a2)) \in Nat
  BY BufferedFinite
<1>4. Cardinality(Buffered(f, b, a)) = Cardinality(Buffered(f2, b2, a2)) + 1
  BY <1>2, <1>3, FS_AddElement
<1>5. heap - 1 = Cardinality(Buffered(f2, b2, a2))
  BY <1>3, <1>4 DEF Held
<1>6. AllBuffered(f2, b2, a2) => AllBuffered(f, b, a)
  BY DEF AllBuffered
<1>7. QED
  BY <1>1, <1>5, <1>6 DEF Held

(* A block with a buffer joins the window. *)
LEMMA HeldAdded ==
  ASSUME NEW f, NEW b, NEW a, NEW n, NEW size, NEW heap, NEW a2,
         NEW f2 \in Int, NEW b2 \in Int, NEW j,
         Held(f, b, a, n, size, heap), Array(a2, n), f2 <= b2,
         f2 .. b2 = f .. b \cup {j}, j \notin f .. b, f2 .. b2 \subseteq DOMAIN a2,
         \A i \in f .. b : a2[i] = a[i], a2[j] \in Headers(n), a2[j].cell # << >>,
         AllBuffered(f, b, a) /\ Packed(f, b, a, n, size) => Packed(f2, b2, a2, n, size)
  PROVE  Held(f2, b2, a2, n, size, heap + 1)
<1>1. Window(f2, b2, a2, n)
  BY DEF Held, Window
<1>2. Buffered(f2, b2, a2) = Buffered(f, b, a) \cup {j} /\ j \notin Buffered(f, b, a)
  BY DEF Buffered
<1>3. /\ IsFiniteSet(Buffered(f, b, a))
      /\ Cardinality(Buffered(f, b, a)) \in Nat
  BY BufferedFinite DEF Held, Window
<1>4. Cardinality(Buffered(f2, b2, a2)) = Cardinality(Buffered(f, b, a)) + 1
  BY <1>2, <1>3, FS_AddElement
<1>5. heap + 1 = Cardinality(Buffered(f2, b2, a2))
  BY <1>4 DEF Held
<1>6. AllBuffered(f2, b2, a2) => AllBuffered(f, b, a)
  BY DEF AllBuffered
<1>7. QED
  BY <1>1, <1>5, <1>6 DEF Held

(* A window of one block. *)
LEMMA HeldOne ==
  ASSUME NEW a, NEW n, NEW c \in Int, Array(a, n), c \in DOMAIN a, a[c] \in Headers(n),
         a[c].cell # << >> => a[c].front = a[c].back
  PROVE  Held(c, c, a, n, 0, IF a[c].cell = << >> THEN 0 ELSE 1)
<1>1. c .. c = {c} /\ c + 1 .. c = {} /\ c .. c - 1 = {}
  OBVIOUS
<1>2. Window(c, c, a, n)
  BY <1>1 DEF Window
<1>3. Buffered(c, c, a) = IF a[c].cell = << >> THEN {} ELSE {c}
  BY <1>1 DEF Buffered
<1>4. Cardinality({c}) = 1 /\ Cardinality({}) = 0
  BY FS_Singleton, FS_EmptySet
<1>5. AllBuffered(c, c, a) => Packed(c, c, a, n, 0)
  <2> SUFFICES ASSUME AllBuffered(c, c, a) PROVE Packed(c, c, a, n, 0)
    OBVIOUS
  <2>1. a[c].front = a[c].back /\ a[c].front \in Nat
    BY <1>1 DEF AllBuffered, Headers
  <2>2. QED
    BY <1>1, <2>1 DEF Packed, Width
<1>6. QED
  BY <1>2, <1>3, <1>4, <1>5 DEF Held

(* What holds of the ends of a window. *)
LEMMA HeldEnds ==
  ASSUME NEW f, NEW b, NEW a, NEW n, NEW size, NEW heap, Held(f, b, a, n, size, heap)
  PROVE  /\ f \in Int /\ b \in Int /\ f <= b /\ f \in f .. b /\ b \in f .. b
         /\ f \in DOMAIN a /\ b \in DOMAIN a
         /\ a[f] \in Headers(n) /\ a[b] \in Headers(n)
BY DEF Held, Window

(* An array of headers stays one when one header is written. *)
LEMMA ArrayExcept ==
  ASSUME NEW a, NEW n, NEW i \in DOMAIN a, NEW x \in Headers(n) \cup {NoBlock}, Array(a, n)
  PROVE  Array([a EXCEPT ![i] = x], n)
BY DEF Array

(* The indices of an array of headers are an interval of integers. *)
LEMMA ArrayDomain ==
  ASSUME NEW a, NEW n, Array(a, n)
  PROVE  /\ \A i \in DOMAIN a : i \in Int /\ a[i] \in Headers(n) \cup {NoBlock}
         /\ \A i, k \in DOMAIN a : i .. k \subseteq DOMAIN a
BY DEF Array

(* A header as the code writes it. *)
LEMMA HeaderOf ==
  ASSUME NEW n \in Nat, NEW x \in Nat, NEW y \in Nat,
         NEW z \in [0 .. n - 1 -> Elems \cup {NoElem}] \cup {<< >>}
  PROVE  [front |-> x, back |-> y, cell |-> z] \in Headers(n)
BY DEF Headers

(* The fields of a header, and where the cells of its buffer lie. *)
LEMMA HeaderParts ==
  ASSUME NEW n \in Nat, NEW h \in Headers(n)
  PROVE  /\ h.front \in Nat /\ h.back \in Nat
         /\ h = [front |-> h.front, back |-> h.back, cell |-> h.cell]
         /\ \A o \in DOMAIN h.cell :
              /\ o \in 0 .. n - 1 /\ h.cell # << >>
              /\ h.cell \in [0 .. n - 1 -> Elems \cup {NoElem}]
<1>1. h.front \in Nat /\ h.back \in Nat /\ h = [front |-> h.front, back |-> h.back, cell |-> h.cell]
      /\ h.cell \in [0 .. n - 1 -> Elems \cup {NoElem}] \cup {<< >>}
  BY DEF Headers
<1>2. DOMAIN << >> = {}
  OBVIOUS
<1>3. QED
  BY <1>1, <1>2

\* The headers of a window, as numbers.
Ranges(f, b, a, n) ==
  /\ f \in Int /\ b \in Int /\ f <= b /\ n \in Nat /\ n > 0
  /\ \A i \in f .. b : a[i].front \in Nat /\ a[i].back \in Nat

(* The ranges of a window of headers in use are naturals. *)
LEMMA HeldRanges ==
  ASSUME NEW f, NEW b, NEW a, NEW n \in Nat \ {0}, NEW size, NEW heap, Held(f, b, a, n, size, heap)
  PROVE  Ranges(f, b, a, n)
BY DEF Held, Window, Headers, Ranges

(* The last block gets longer or shorter at its end. *)
LEMMA PackedLast ==
  ASSUME NEW f, NEW b, NEW a, NEW n, NEW size, NEW a2, NEW by \in Int,
         Ranges(f, b, a, n), Packed(f, b, a, n, size),
         \A i \in f .. b : i # b => a2[i] = a[i],
         a2[b].front = a[b].front, a2[b].back = a[b].back + by,
         a2[b].front <= a2[b].back, a2[b].front < a2[b].back => a2[b].back <= n
  PROVE  Packed(f, b, a2, n, size + by)
<1>1. f \in f .. b /\ b \in f .. b /\ f \in Int /\ b \in Int /\ f <= b /\ n \in Nat
  BY DEF Ranges
<1>2. \A i \in f .. b : /\ a2[i].front <= a2[i].back
                        /\ a2[i].front < a2[i].back => a2[i].back <= n
  BY DEF Packed
<1>3. \A i \in f + 1 .. b : a2[i].front = 0
  <2>1. \A i \in f + 1 .. b : i \in f .. b
    BY <1>1
  <2>2. QED
    BY <2>1 DEF Packed
<1>4. \A i \in f .. b - 1 : a2[i].back >= n
  <2>1. \A i \in f .. b - 1 : i \in f .. b /\ i # b
    BY <1>1
  <2>2. QED
    BY <2>1 DEF Packed
<1>5. size + by = IF f = b THEN Width(a2[f]) ELSE Width(a2[f]) + (b - f - 1) * n + a2[b].back
  <2>1. CASE f = b
    BY <1>1, <2>1 DEF Packed, Width, Ranges
  <2>2. CASE f # b
    <3> DEFINE w == Width(a[f]) + (b - f - 1) * n
    <3>1. a2[f] = a[f] /\ Width(a[f]) \in Int /\ a[b].back \in Int
      BY <1>1, <2>2 DEF Width, Ranges
    <3>2. w \in Int
      BY <1>1, <3>1
    <3>3. size = w + a[b].back
      BY <2>2 DEF Packed
    <3>4. Width(a2[f]) + (b - f - 1) * n = w
      BY <3>1
    <3> HIDE DEF w
    <3>5. size + by = w + a2[b].back
      BY <3>1, <3>2, <3>3
    <3>6. QED
      BY <2>2, <3>4, <3>5
  <2>3. QED
    BY <2>1, <2>2
<1>6. QED
  BY <1>2, <1>3, <1>4, <1>5 DEF Packed

(* The first block gets longer or shorter at its front. *)
LEMMA PackedFirst ==
  ASSUME NEW f, NEW b, NEW a, NEW n, NEW size, NEW a2, NEW by \in Int,
         Ranges(f, b, a, n), Packed(f, b, a, n, size),
         \A i \in f .. b : i # f => a2[i] = a[i],
         a2[f].back = a[f].back, a2[f].front = a[f].front - by,
         a2[f].front <= a2[f].back, a2[f].front < a2[f].back => a2[f].back <= n
  PROVE  Packed(f, b, a2, n, size + by)
<1>1. f \in f .. b /\ b \in f .. b /\ f \in Int /\ b \in Int /\ f <= b /\ n \in Nat
  BY DEF Ranges
<1>2. \A i \in f .. b : /\ a2[i].front <= a2[i].back
                        /\ a2[i].front < a2[i].back => a2[i].back <= n
  BY DEF Packed
<1>3. \A i \in f + 1 .. b : a2[i].front = 0
  <2>1. \A i \in f + 1 .. b : i \in f .. b /\ i # f
    BY <1>1
  <2>2. QED
    BY <2>1 DEF Packed
<1>4. \A i \in f .. b - 1 : a2[i].back >= n
  <2>1. \A i \in f .. b - 1 : i \in f .. b /\ a2[i].back = a[i].back
    BY <1>1
  <2>2. QED
    BY <2>1 DEF Packed
<1>5. size + by = IF f = b THEN Width(a2[f]) ELSE Width(a2[f]) + (b - f - 1) * n + a2[b].back
  <2>0. Width(a2[f]) = Width(a[f]) + by /\ Width(a[f]) \in Int
    BY <1>1 DEF Width, Ranges
  <2>1. CASE f = b
    BY <2>0, <2>1 DEF Packed
  <2>2. CASE f # b
    <3> DEFINE w == (b - f - 1) * n + a[b].back
    <3>1. a2[b] = a[b] /\ a[b].back \in Int
      BY <1>1, <2>2 DEF Ranges
    <3>2. (b - f - 1) * n \in Int
      BY <1>1
    <3>3. w \in Int
      BY <3>1, <3>2
    <3>4. size = Width(a[f]) + w
      BY <2>0, <2>2, <3>1, <3>2 DEF Packed
    <3>5. Width(a2[f]) + (b - f - 1) * n + a2[b].back = Width(a2[f]) + w
      BY <2>0, <3>1, <3>2
    <3> HIDE DEF w
    <3>6. size + by = Width(a2[f]) + w
      BY <2>0, <3>3, <3>4
    <3>7. QED
      BY <2>2, <3>5, <3>6
  <2>3. QED
    BY <2>1, <2>2
<1>6. QED
  BY <1>2, <1>3, <1>4, <1>5 DEF Packed

(* A number of blocks and one more. *)
LEMMA OneMore ==
  ASSUME NEW k \in Int, NEW n \in Int
  PROVE  k * n \in Int /\ (k + 1) * n = k * n + n
OBVIOUS

(* An empty block behind a full one. *)
LEMMA PackedBehind ==
  ASSUME NEW f, NEW b, NEW a, NEW n, NEW size, NEW a2,
         Ranges(f, b, a, n), Packed(f, b, a, n, size), a[b].back >= n,
         \A i \in f .. b : a2[i] = a[i], a2[b + 1].front = 0, a2[b + 1].back = 0
  PROVE  Packed(f, b + 1, a2, n, size)
<1>1. /\ f \in f .. b /\ b \in f .. b /\ f \in Int /\ b \in Int /\ f <= b /\ n \in Nat /\ n > 0
      /\ f # b + 1 /\ (b + 1) - f - 1 = b - f
  BY DEF Ranges
<1>2. \A i \in f .. b + 1 : /\ a2[i].front <= a2[i].back
                            /\ a2[i].front < a2[i].back => a2[i].back <= n
  <2>1. \A i \in f .. b + 1 : i \in f .. b \/ i = b + 1
    BY <1>1
  <2>2. QED
    BY <2>1 DEF Packed
<1>3. \A i \in f + 1 .. b + 1 : a2[i].front = 0
  <2>1. \A i \in f + 1 .. b + 1 : (i \in f .. b /\ i \in f + 1 .. b) \/ i = b + 1
    BY <1>1
  <2>2. QED
    BY <2>1 DEF Packed
<1>4. \A i \in f .. (b + 1) - 1 : a2[i].back >= n
  <2>1. \A i \in f .. (b + 1) - 1 : i \in f .. b /\ (i = b \/ i \in f .. b - 1)
    BY <1>1
  <2>2. QED
    BY <2>1 DEF Packed
<1>5. size = Width(a2[f]) + (b - f) * n + a2[b + 1].back
  <2>1. a2[f] = a[f] /\ Width(a[f]) \in Int
    BY <1>1 DEF Ranges, Width
  <2>2. CASE f = b
    <3>1. (b - f) * n = 0
      BY <1>1, <2>2
    <3>2. size = Width(a[f])
      BY <2>2 DEF Packed
    <3>3. QED
      BY <2>1, <3>1, <3>2
  <2>3. CASE f # b
    <3>1. a[b].front = 0 /\ a[b].back = n
      <4>1. b \in f + 1 .. b
        BY <1>1, <2>3
      <4>2. a[b].front = 0 /\ a[b].back \in Nat
        BY <1>1, <4>1 DEF Packed, Ranges
      <4>3. a[b].front < a[b].back => a[b].back <= n
        BY <1>1 DEF Packed
      <4>4. QED
        BY <1>1, <4>2, <4>3
    <3>2. size = Width(a[f]) + (b - f - 1) * n + n
      BY <2>3, <3>1 DEF Packed
    <3>3. (b - f - 1) * n \in Int /\ ((b - f - 1) + 1) * n = (b - f - 1) * n + n
      BY <1>1, OneMore
    <3>4. (b - f - 1) + 1 = b - f
      BY <1>1
    <3>5. QED
      BY <1>1, <2>1, <3>2, <3>3, <3>4
  <2>4. QED
    BY <2>2, <2>3
<1>6. QED
  BY <1>1, <1>2, <1>3, <1>4, <1>5 DEF Packed

(* An empty block, its range at the end, before one that is used from 0. *)
LEMMA PackedBefore ==
  ASSUME NEW f, NEW b, NEW a, NEW n, NEW size, NEW a2,
         Ranges(f, b, a, n), Packed(f, b, a, n, size), a[f].front <= 0,
         \A i \in f .. b : a2[i] = a[i], a2[f - 1].front = n, a2[f - 1].back = n
  PROVE  Packed(f - 1, b, a2, n, size)
<1>1. /\ f \in f .. b /\ b \in f .. b /\ f \in Int /\ b \in Int /\ f <= b /\ n \in Nat /\ n > 0
      /\ f - 1 # b /\ b - (f - 1) - 1 = b - f /\ a[f].front = 0
  BY DEF Ranges
<1>2. \A i \in f - 1 .. b : /\ a2[i].front <= a2[i].back
                            /\ a2[i].front < a2[i].back => a2[i].back <= n
  <2>1. \A i \in f - 1 .. b : i \in f .. b \/ i = f - 1
    BY <1>1
  <2>2. n <= n /\ ~(n < n)
    BY <1>1
  <2>3. QED
    BY <2>1, <2>2 DEF Packed
<1>3. \A i \in (f - 1) + 1 .. b : a2[i].front = 0
  <2>1. \A i \in (f - 1) + 1 .. b : i \in f .. b /\ (i = f \/ i \in f + 1 .. b)
    BY <1>1
  <2>2. QED
    BY <1>1, <2>1 DEF Packed
<1>4. \A i \in f - 1 .. b - 1 : a2[i].back >= n
  <2>1. \A i \in f - 1 .. b - 1 : i = f - 1 \/ (i \in f .. b /\ i \in f .. b - 1)
    BY <1>1
  <2>2. n >= n
    BY <1>1
  <2>3. QED
    BY <2>1, <2>2 DEF Packed
<1>5. size = Width(a2[f - 1]) + (b - f) * n + a2[b].back
  <2>1. a2[b] = a[b] /\ a[b].back \in Nat /\ Width(a2[f - 1]) = 0 /\ a[f].back \in Nat
    BY <1>1 DEF Ranges, Width
  <2>2. CASE f = b
    <3>1. (b - f) * n = 0
      BY <1>1, <2>2
    <3>2. size = a[f].back
      BY <1>1, <2>1, <2>2 DEF Packed, Width
    <3>3. QED
      BY <2>1, <2>2, <3>1, <3>2
  <2>3. CASE f # b
    <3>1. a[f].back = n
      <4>1. a[f].back >= n
        <5>1. f \in f .. b - 1
          BY <1>1, <2>3
        <5>2. QED
          BY <5>1 DEF Packed
      <4>2. a[f].front < a[f].back => a[f].back <= n
        BY <1>1 DEF Packed
      <4>3. QED
        BY <1>1, <2>1, <4>1, <4>2
    <3>2. size = n + (b - f - 1) * n + a[b].back
      BY <1>1, <2>3, <3>1 DEF Packed, Width
    <3>3. (b - f - 1) * n \in Int /\ ((b - f - 1) + 1) * n = (b - f - 1) * n + n
      BY <1>1, OneMore
    <3>4. (b - f - 1) + 1 = b - f
      BY <1>1
    <3>5. QED
      BY <1>1, <2>1, <3>2, <3>3, <3>4
  <2>4. QED
    BY <2>2, <2>3
<1>6. QED
  BY <1>1, <1>2, <1>3, <1>4, <1>5 DEF Packed

(* The last block goes with its only element. *)
LEMMA PackedShorter ==
  ASSUME NEW f, NEW b, NEW a, NEW n, NEW size, NEW a2,
         Ranges(f, b, a, n), Packed(f, b, a, n, size), f < b, a[b].back = 1,
         \A i \in f .. b - 1 : a2[i] = a[i]
  PROVE  Packed(f, b - 1, a2, n, size - 1)
<1>1. /\ f \in Int /\ b \in Int /\ n \in Nat /\ n > 0 /\ f \in f .. b - 1 /\ f \in f .. b
      /\ b - 1 \in f .. b - 1 /\ b - 1 \in f .. b
  BY DEF Ranges
<1>2. \A i \in f .. b - 1 : /\ a2[i].front <= a2[i].back
                            /\ a2[i].front < a2[i].back => a2[i].back <= n
  <2>1. \A i \in f .. b - 1 : i \in f .. b
    BY <1>1
  <2>2. QED
    BY <2>1 DEF Packed
<1>3. \A i \in f + 1 .. b - 1 : a2[i].front = 0
  <2>1. \A i \in f + 1 .. b - 1 : i \in f .. b - 1 /\ i \in f + 1 .. b
    BY <1>1
  <2>2. QED
    BY <2>1 DEF Packed
<1>4. \A i \in f .. (b - 1) - 1 : a2[i].back >= n
  <2>1. \A i \in f .. (b - 1) - 1 : i \in f .. b - 1
    BY <1>1
  <2>2. QED
    BY <2>1 DEF Packed
<1>5. Width(a[f]) \in Int /\ a2[f] = a[f] /\ a2[b - 1] = a[b - 1]
      /\ size = Width(a[f]) + (b - f - 1) * n + 1
  BY <1>1 DEF Width, Ranges, Packed
<1>6. size - 1 = IF f = b - 1 THEN Width(a2[f])
                 ELSE Width(a2[f]) + ((b - 1) - f - 1) * n + a2[b - 1].back
  <2>1. CASE f = b - 1
    <3>1. (b - f - 1) * n = 0
      BY <1>1, <2>1
    <3>2. QED
      BY <1>5, <2>1, <3>1
  <2>2. CASE f # b - 1
    <3>1. a[b - 1].back = n
      <4>1. b - 1 \in f + 1 .. b
        BY <1>1, <2>2
      <4>2. a[b - 1].front = 0 /\ a[b - 1].back >= n /\ a[b - 1].back \in Nat
        BY <1>1, <4>1 DEF Packed, Ranges
      <4>3. a[b - 1].front < a[b - 1].back => a[b - 1].back <= n
        BY <1>1 DEF Packed
      <4>4. QED
        BY <1>1, <4>2, <4>3
    <3>2. /\ ((b - 1) - f - 1) * n \in Int
          /\ (((b - 1) - f - 1) + 1) * n = ((b - 1) - f - 1) * n + n
      BY <1>1, OneMore
    <3>3. ((b - 1) - f - 1) + 1 = b - f - 1
      BY <1>1
    <3>4. QED
      BY <1>1, <1>5, <2>2, <3>1, <3>2, <3>3
  <2>3. QED
    BY <2>1, <2>2
<1>7. QED
  BY <1>2, <1>3, <1>4, <1>6 DEF Packed

(* The first block goes with its only element, at its end. *)
LEMMA PackedNext ==
  ASSUME NEW f, NEW b, NEW a, NEW n, NEW size, NEW a2,
         Ranges(f, b, a, n), Packed(f, b, a, n, size), f < b, a[f].front = n - 1,
         \A i \in f + 1 .. b : a2[i] = a[i]
  PROVE  Packed(f + 1, b, a2, n, size - 1)
<1>1. /\ f \in Int /\ b \in Int /\ n \in Nat /\ n > 0 /\ f \in f .. b - 1 /\ f \in f .. b
      /\ f + 1 \in f + 1 .. b /\ f + 1 \in f .. b /\ b \in f .. b /\ b \in f + 1 .. b
  BY DEF Ranges
<1>2. \A i \in f + 1 .. b : /\ a2[i].front <= a2[i].back
                            /\ a2[i].front < a2[i].back => a2[i].back <= n
  <2>1. \A i \in f + 1 .. b : i \in f .. b
    BY <1>1
  <2>2. QED
    BY <2>1 DEF Packed
<1>3. \A i \in (f + 1) + 1 .. b : a2[i].front = 0
  <2>1. \A i \in (f + 1) + 1 .. b : i \in f + 1 .. b
    BY <1>1
  <2>2. QED
    BY <2>1 DEF Packed
<1>4. \A i \in f + 1 .. b - 1 : a2[i].back >= n
  <2>1. \A i \in f + 1 .. b - 1 : i \in f + 1 .. b /\ i \in f .. b - 1
    BY <1>1
  <2>2. QED
    BY <2>1 DEF Packed
<1>5. Width(a[f]) = 1
  <2>1. a[f].back >= n /\ a[f].back \in Nat
    BY <1>1 DEF Packed, Ranges
  <2>2. a[f].front < a[f].back => a[f].back <= n
    BY <1>1 DEF Packed
  <2>3. QED
    BY <1>1, <2>1, <2>2 DEF Width
<1>6. /\ a2[f + 1] = a[f + 1] /\ a2[b] = a[b] /\ a[b].back \in Nat
      /\ size = 1 + (b - f - 1) * n + a[b].back /\ a[f + 1].front = 0 /\ a[f + 1].back \in Nat
  BY <1>1, <1>5 DEF Packed, Ranges
<1>7. size - 1 = IF f + 1 = b THEN Width(a2[f + 1])
                 ELSE Width(a2[f + 1]) + (b - (f + 1) - 1) * n + a2[b].back
  <2>1. CASE f + 1 = b
    <3>1. (b - f - 1) * n = 0
      BY <1>1, <2>1
    <3>2. Width(a2[f + 1]) = a[b].back
      BY <1>6, <2>1 DEF Width
    <3>3. QED
      BY <1>6, <2>1, <3>1, <3>2
  <2>2. CASE f + 1 # b
    <3>1. a[f + 1].back = n
      <4>1. f + 1 \in f .. b - 1
        BY <1>1, <2>2
      <4>2. a[f + 1].back >= n
        BY <4>1 DEF Packed
      <4>3. a[f + 1].front < a[f + 1].back => a[f + 1].back <= n
        BY <1>1 DEF Packed
      <4>4. QED
        BY <1>1, <1>6, <4>2, <4>3
    <3>2. /\ (b - (f + 1) - 1) * n \in Int
          /\ ((b - (f + 1) - 1) + 1) * n = (b - (f + 1) - 1) * n + n
      BY <1>1, OneMore
    <3>3. (b - (f + 1) - 1) + 1 = b - f - 1
      BY <1>1
    <3>4. Width(a2[f + 1]) = n
      BY <1>1, <1>6, <3>1 DEF Width
    <3>5. QED
      BY <1>1, <1>6, <2>2, <3>2, <3>3, <3>4
  <2>3. QED
    BY <2>1, <2>2
<1>8. QED
  BY <1>2, <1>3, <1>4, <1>7 DEF Packed

-----------------------------------------------------------------------------
(* The operations. *)

Sized == BlockSize \in Nat \ {0} /\ NoBlock \notin Headers(BlockSize)
Value == Elems \cup {NoElem}

(* A deque is the record of its fields. *)
LEMMA StructParts ==
  ASSUME NEW q, Struct(q)
  PROVE  /\ q.live \in BOOLEAN /\ q.fault \in BOOLEAN /\ q.cap \in Nat \ {0}
         /\ q.front \in Int /\ q.back \in Int /\ q.size \in Int /\ q.heap \in Int
         /\ q = [live |-> q.live, fault |-> q.fault, cap |-> q.cap, front |-> q.front,
                 back |-> q.back, size |-> q.size, heap |-> q.heap, blocks |-> q.blocks]
BY DEF Struct

(* A deque with other values in its fields. *)
LEMMA StructOf ==
  ASSUME NEW l \in BOOLEAN, NEW x \in BOOLEAN, NEW c \in Nat \ {0}, NEW f \in Int, NEW b \in Int,
         NEW s \in Int, NEW h \in Int, NEW a
  PROVE  Struct([live |-> l, fault |-> x, cap |-> c, front |-> f, back |-> b,
                 size |-> s, heap |-> h, blocks |-> a])
BY DEF Struct

(* An access outside of the array leaves nothing to keep. *)
LEMMA FaultLeft ==
  ASSUME NEW q, NEW n, Struct(q)
  PROVE  Fault(q).fault /\ Struct(Fault(q)) /\ Left(Fault(q), n)
BY DEF Struct, Fault, Left

(* q with other values in the fields that operations write. *)
Put(q, f, b, s, h, a) ==
  [live |-> q.live, fault |-> q.fault, cap |-> q.cap, front |-> f, back |-> b,
   size |-> s, heap |-> h, blocks |-> a]

(* A deque with a window in its new fields is right. *)
LEMMA PutLeft ==
  ASSUME NEW q, NEW n, NEW f \in Int, NEW b \in Int, NEW s \in Int, NEW h \in Int, NEW a,
         Struct(q), q.fault \/ Held(f, b, a, n, s, h)
  PROVE  Left(Put(q, f, b, s, h, a), n)
<1> DEFINE r == Put(q, f, b, s, h, a)
<1>1. /\ r.fault = q.fault /\ r.front = f /\ r.back = b /\ r.size = s /\ r.heap = h /\ r.blocks = a
  BY DEF Put
<1>2. Struct(r)
  BY StructParts, StructOf DEF Put
<1>3. QED
  BY <1>1, <1>2 DEF Left

(* Writing a cell and an end of the range of block i, and the size. *)
CellBack(q, i, o, e, k, t) ==
  [q EXCEPT !.blocks[i].cell[o] = e, !.blocks[i].back = k, !.size = t]
CellFront(q, i, o, e, k, t) ==
  [q EXCEPT !.blocks[i].cell[o] = e, !.blocks[i].front = k, !.size = t]

(* A cell written and the end of a range moved: one header is written. *)
LEMMA EditBack ==
  ASSUME NEW q, NEW n \in Nat, NEW i \in DOMAIN q.blocks, NEW o, NEW e, NEW k, NEW t,
         Struct(q), q.blocks[i] \in Headers(n)
  PROVE  CellBack(q, i, o, e, k, t)
         = Put(q, q.front, q.back, t, q.heap,
               [q.blocks EXCEPT ![i] = [front |-> q.blocks[i].front, back |-> k,
                                        cell |-> [q.blocks[i].cell EXCEPT ![o] = e]]])
<1> DEFINE h  == q.blocks[i]
           c1 == [h.cell EXCEPT ![o] = e]
           a1 == [q.blocks EXCEPT ![i] = [front |-> h.front, back |-> h.back, cell |-> c1]]
           a2 == [q.blocks EXCEPT ![i] = [front |-> h.front, back |-> k, cell |-> c1]]
           q1 == [q EXCEPT !.blocks[i].cell[o] = e]
           q2 == [q1 EXCEPT !.blocks[i].back = k]
<1>1. /\ h = [front |-> h.front, back |-> h.back, cell |-> h.cell]
      /\ q = Put(q, q.front, q.back, q.size, q.heap, q.blocks)
  BY HeaderParts, StructParts DEF Put
<1>2. [q.blocks EXCEPT ![i].cell[o] = e] = a1
  <2>1. [h EXCEPT !.cell[o] = e] = [front |-> h.front, back |-> h.back, cell |-> c1]
    BY <1>1
  <2>2. [q.blocks EXCEPT ![i].cell[o] = e] = [q.blocks EXCEPT ![i] = [h EXCEPT !.cell[o] = e]]
    OBVIOUS
  <2>3. QED
    BY <2>1, <2>2
<1>3. q1 = Put(q, q.front, q.back, q.size, q.heap, a1)
  <2>1. q1 = [q EXCEPT !.blocks = [q.blocks EXCEPT ![i].cell[o] = e]]
    OBVIOUS
  <2> HIDE DEF a1, q1
  <2>2. q1 = [q EXCEPT !.blocks = a1]
    BY <1>2, <2>1
  <2>3. QED
    BY <1>1, <2>2 DEF Put
<1>4. [a1 EXCEPT ![i].back = k] = a2
  <2>1. a1[i] = [front |-> h.front, back |-> h.back, cell |-> c1]
    OBVIOUS
  <2>2. [a1[i] EXCEPT !.back = k] = [front |-> h.front, back |-> k, cell |-> c1]
    BY <2>1
  <2>3. [a1 EXCEPT ![i].back = k] = [a1 EXCEPT ![i] = [a1[i] EXCEPT !.back = k]]
    OBVIOUS
  <2>4. \A y : [a1 EXCEPT ![i] = y] = [q.blocks EXCEPT ![i] = y]
    OBVIOUS
  <2>5. QED
    BY <2>2, <2>3, <2>4
<1>5. q2 = Put(q, q.front, q.back, q.size, q.heap, a2)
  <2>1. q2 = [q1 EXCEPT !.blocks = [q1.blocks EXCEPT ![i].back = k]]
    OBVIOUS
  <2>2. q1.blocks = a1
    BY <1>3 DEF Put
  <2> HIDE DEF q1, a1, a2
  <2>3. q2 = [q1 EXCEPT !.blocks = a2]
    BY <1>4, <2>1, <2>2
  <2>4. QED
    BY <1>3, <2>3 DEF Put
<1>6. CellBack(q, i, o, e, k, t) = [q2 EXCEPT !.size = t]
  BY DEF CellBack
<1>7. [q2 EXCEPT !.size = t] = Put(q, q.front, q.back, t, q.heap, a2)
  <2> HIDE DEF q2, a2
  <2>1. QED
    BY <1>5 DEF Put
<1>8. QED
  BY <1>6, <1>7

(* A cell written and the start of a range moved: one header is written. *)
LEMMA EditFront ==
  ASSUME NEW q, NEW n \in Nat, NEW i \in DOMAIN q.blocks, NEW o, NEW e, NEW k, NEW t,
         Struct(q), q.blocks[i] \in Headers(n)
  PROVE  CellFront(q, i, o, e, k, t)
         = Put(q, q.front, q.back, t, q.heap,
               [q.blocks EXCEPT ![i] = [front |-> k, back |-> q.blocks[i].back,
                                        cell |-> [q.blocks[i].cell EXCEPT ![o] = e]]])
<1> DEFINE h  == q.blocks[i]
           c1 == [h.cell EXCEPT ![o] = e]
           a1 == [q.blocks EXCEPT ![i] = [front |-> h.front, back |-> h.back, cell |-> c1]]
           a2 == [q.blocks EXCEPT ![i] = [front |-> k, back |-> h.back, cell |-> c1]]
           q1 == [q EXCEPT !.blocks[i].cell[o] = e]
           q2 == [q1 EXCEPT !.blocks[i].front = k]
<1>1. /\ h = [front |-> h.front, back |-> h.back, cell |-> h.cell]
      /\ q = Put(q, q.front, q.back, q.size, q.heap, q.blocks)
  BY HeaderParts, StructParts DEF Put
<1>2. [q.blocks EXCEPT ![i].cell[o] = e] = a1
  <2>1. [h EXCEPT !.cell[o] = e] = [front |-> h.front, back |-> h.back, cell |-> c1]
    BY <1>1
  <2>2. [q.blocks EXCEPT ![i].cell[o] = e] = [q.blocks EXCEPT ![i] = [h EXCEPT !.cell[o] = e]]
    OBVIOUS
  <2>3. QED
    BY <2>1, <2>2
<1>3. q1 = Put(q, q.front, q.back, q.size, q.heap, a1)
  <2>1. q1 = [q EXCEPT !.blocks = [q.blocks EXCEPT ![i].cell[o] = e]]
    OBVIOUS
  <2> HIDE DEF a1, q1
  <2>2. q1 = [q EXCEPT !.blocks = a1]
    BY <1>2, <2>1
  <2>3. QED
    BY <1>1, <2>2 DEF Put
<1>4. [a1 EXCEPT ![i].front = k] = a2
  <2>1. a1[i] = [front |-> h.front, back |-> h.back, cell |-> c1]
    OBVIOUS
  <2>2. [a1[i] EXCEPT !.front = k] = [front |-> k, back |-> h.back, cell |-> c1]
    BY <2>1
  <2>3. [a1 EXCEPT ![i].front = k] = [a1 EXCEPT ![i] = [a1[i] EXCEPT !.front = k]]
    OBVIOUS
  <2>4. \A y : [a1 EXCEPT ![i] = y] = [q.blocks EXCEPT ![i] = y]
    OBVIOUS
  <2>5. QED
    BY <2>2, <2>3, <2>4
<1>5. q2 = Put(q, q.front, q.back, q.size, q.heap, a2)
  <2>1. q2 = [q1 EXCEPT !.blocks = [q1.blocks EXCEPT ![i].front = k]]
    OBVIOUS
  <2>2. q1.blocks = a1
    BY <1>3 DEF Put
  <2> HIDE DEF q1, a1, a2
  <2>3. q2 = [q1 EXCEPT !.blocks = a2]
    BY <1>4, <2>1, <2>2
  <2>4. QED
    BY <1>3, <2>3 DEF Put
<1>6. CellFront(q, i, o, e, k, t) = [q2 EXCEPT !.size = t]
  BY DEF CellFront
<1>7. [q2 EXCEPT !.size = t] = Put(q, q.front, q.back, t, q.heap, a2)
  <2> HIDE DEF q2, a2
  <2>1. QED
    BY <1>5 DEF Put
<1>8. QED
  BY <1>6, <1>7

(* The header of a block with a cell o, with another range and cell o written. *)
LEMMA HeaderEdited ==
  ASSUME NEW h, NEW o \in DOMAIN h.cell, NEW x \in Nat, NEW y \in Nat, NEW e \in Value,
         NEW g, g = [front |-> x, back |-> y, cell |-> [h.cell EXCEPT ![o] = e]],
         Sized, h \in Headers(BlockSize)
  PROVE  /\ g \in Headers(BlockSize) /\ g.cell # << >> /\ h.cell # << >>
         /\ g.front = x /\ g.back = y /\ o \in 0 .. BlockSize - 1
<1> DEFINE n == BlockSize
           c == [h.cell EXCEPT ![o] = e]
<1>1. n \in Nat
  BY DEF Sized
<1> HIDE DEF n
<1>2. h.cell \in [0 .. n - 1 -> Value] /\ o \in 0 .. n - 1 /\ h.cell # << >>
  BY <1>1, HeaderParts DEF Value, n
<1>3. c \in [0 .. n - 1 -> Value] /\ o \in DOMAIN c
  BY <1>2
<1>4. c # << >>
  BY <1>3
<1>5. g \in Headers(n)
  BY <1>1, <1>3, HeaderOf DEF Value
<1>6. QED
  BY <1>2, <1>4, <1>5 DEF n

(* What the operations at an end see of a deque that is held. *)
LEMMA EndsOf ==
  ASSUME NEW q, Sized, Struct(q), Held(q.front, q.back, q.blocks, BlockSize, q.size, q.heap)
  PROVE  /\ q.front \in Int /\ q.back \in Int /\ q.front <= q.back
         /\ q.front \in q.front .. q.back /\ q.back \in q.front .. q.back
         /\ q.front \in DOMAIN q.blocks /\ q.back \in DOMAIN q.blocks
         /\ q.front .. q.back \subseteq DOMAIN q.blocks
         /\ q.blocks[q.front] \in Headers(BlockSize) /\ q.blocks[q.back] \in Headers(BlockSize)
         /\ q.blocks[q.front].front \in Nat /\ q.blocks[q.front].back \in Nat
         /\ q.blocks[q.back].front \in Nat /\ q.blocks[q.back].back \in Nat
         /\ Array(q.blocks, BlockSize) /\ BlockSize \in Nat /\ BlockSize > 0
         /\ Ranges(q.front, q.back, q.blocks, BlockSize)
         /\ q.size \in Int /\ q.heap \in Int
<1>1. BlockSize \in Nat \ {0}
  BY DEF Sized
<1>2. Ranges(q.front, q.back, q.blocks, BlockSize)
  BY <1>1, HeldRanges
<1>3. q.front .. q.back \subseteq DOMAIN q.blocks
  BY DEF Held, Window
<1>4. /\ q.front \in Int /\ q.back \in Int /\ q.front <= q.back
      /\ q.front \in q.front .. q.back /\ q.back \in q.front .. q.back
      /\ q.front \in DOMAIN q.blocks /\ q.back \in DOMAIN q.blocks
      /\ q.blocks[q.front] \in Headers(BlockSize) /\ q.blocks[q.back] \in Headers(BlockSize)
  BY HeldEnds
<1>5. /\ q.blocks[q.front].front \in Nat /\ q.blocks[q.front].back \in Nat
      /\ q.blocks[q.back].front \in Nat /\ q.blocks[q.back].back \in Nat
  BY <1>2, <1>4 DEF Ranges
<1>6. Array(q.blocks, BlockSize) /\ q.size \in Int /\ q.heap \in Int
  BY StructParts DEF Held
<1>7. QED
  BY <1>1, <1>2, <1>3, <1>4, <1>5, <1>6

(* An element goes into the last block, or the program is at fault. *)
LEMMA PutBackLeft ==
  ASSUME NEW q, NEW e \in Value, Sized, Left(q, BlockSize)
  PROVE  Left(PutBack(q, e), BlockSize)
<1> DEFINE n == BlockSize
           f == q.front
           b == q.back
           h == q.blocks[b]
           o == h.back
<1>1. CASE q.fault \/ ~Cell(q, b, o)
  BY <1>1, FaultLeft DEF Left, PutBack
<1>2. CASE ~q.fault /\ Cell(q, b, o)
  <2> DEFINE g == [front |-> h.front, back |-> o + 1, cell |-> [h.cell EXCEPT ![o] = e]]
             a == [q.blocks EXCEPT ![b] = g]
  <2>1. Struct(q) /\ Held(f, b, q.blocks, n, q.size, q.heap)
    BY <1>2 DEF Left
  <2>2. PutBack(q, e) = Put(q, f, b, q.size + 1, q.heap, a)
    <3>1. PutBack(q, e) = CellBack(q, b, o, e, o + 1, q.size + 1)
      BY <1>2 DEF PutBack, CellBack
    <3>2. b \in DOMAIN q.blocks /\ h \in Headers(n) /\ n \in Nat
      BY <2>1, EndsOf
    <3> HIDE DEF n, o
    <3>3. QED
      BY <2>1, <3>1, <3>2, EditBack
  <2>3. o \in DOMAIN h.cell /\ h \in Headers(n) /\ o + 1 \in Nat /\ h.front \in Nat
    BY <1>2, <2>1, EndsOf DEF Cell
  <2>4. /\ g \in Headers(n) /\ g.cell # << >> /\ h.cell # << >>
        /\ g.front = h.front /\ g.back = o + 1 /\ o \in 0 .. n - 1
    <3> HIDE DEF g, h, o, n
    <3>1. g = [front |-> h.front, back |-> o + 1, cell |-> [h.cell EXCEPT ![o] = e]]
      BY DEF g
    <3>2. QED
      BY <2>3, <3>1, HeaderEdited DEF n
  <2>5. /\ b \in DOMAIN q.blocks /\ Array(q.blocks, n) /\ b \in f .. b
        /\ Ranges(f, b, q.blocks, n) /\ f .. b \subseteq DOMAIN q.blocks
    BY <2>1, EndsOf
  <2> HIDE DEF g, n
  <2>6. a[b] = g /\ DOMAIN a = DOMAIN q.blocks /\ \A i \in f .. b : i # b => a[i] = q.blocks[i]
    BY <2>5
  <2>7. Array(a, n)
    BY <2>4, <2>5, ArrayExcept
  <2> HIDE DEF a
  <2>8. ASSUME Packed(f, b, q.blocks, n, q.size) PROVE Packed(f, b, a, n, q.size + 1)
    <3>1. h.front <= h.back
      BY <2>5, <2>8 DEF Packed
    <3>2. n \in Nat /\ o \in Nat /\ h.front \in Nat
      BY <2>5, <2>3, <2>4 DEF Ranges
    <3>3. /\ a[b].front = h.front /\ a[b].back = h.back + 1
          /\ a[b].front <= a[b].back /\ a[b].back <= n
      BY <2>4, <2>6, <3>1, <3>2
    <3>4. QED
      BY <2>5, <2>6, <2>8, <3>3, PackedLast
  <2>9. Held(f, b, a, n, q.size + 1, q.heap)
    BY <2>1, <2>4, <2>5, <2>6, <2>7, <2>8, HeldEdited
  <2>10. f \in Int /\ b \in Int /\ q.size + 1 \in Int /\ q.heap \in Int
    BY <2>1, StructParts
  <2>11. QED
    BY <2>1, <2>2, <2>9, <2>10, PutLeft DEF n
<1>3. QED
  BY <1>1, <1>2

(* ... or into the first. *)
LEMMA PutFrontLeft ==
  ASSUME NEW q, NEW e \in Value, Sized, Left(q, BlockSize)
  PROVE  Left(PutFront(q, e), BlockSize)
<1> DEFINE n == BlockSize
           f == q.front
           b == q.back
           h == q.blocks[f]
           o == h.front - 1
<1>1. CASE q.fault \/ ~Cell(q, f, o)
  BY <1>1, FaultLeft DEF Left, PutFront
<1>2. CASE ~q.fault /\ Cell(q, f, o)
  <2> DEFINE g == [front |-> o, back |-> h.back, cell |-> [h.cell EXCEPT ![o] = e]]
             a == [q.blocks EXCEPT ![f] = g]
  <2>1. Struct(q) /\ Held(f, b, q.blocks, n, q.size, q.heap)
    BY <1>2 DEF Left
  <2>2. PutFront(q, e) = Put(q, f, b, q.size + 1, q.heap, a)
    <3>1. PutFront(q, e) = CellFront(q, f, o, e, o, q.size + 1)
      BY <1>2 DEF PutFront, CellFront
    <3>2. f \in DOMAIN q.blocks /\ h \in Headers(n) /\ n \in Nat
      BY <2>1, EndsOf
    <3> HIDE DEF n, o
    <3>3. QED
      BY <2>1, <3>1, <3>2, EditFront
  <2>3. o \in DOMAIN h.cell /\ h \in Headers(n) /\ h.back \in Nat /\ h.front \in Nat
    BY <1>2, <2>1, EndsOf DEF Cell
  <2>4. o \in 0 .. n - 1 /\ o \in Nat
    <3>1. o \in 0 .. n - 1
      BY <2>1, <2>3, EndsOf, HeaderParts
    <3>2. QED
      BY <3>1
  <2>5. /\ g \in Headers(n) /\ g.cell # << >> /\ h.cell # << >>
        /\ g.front = o /\ g.back = h.back
    <3> HIDE DEF g, h, o, n
    <3>1. g = [front |-> o, back |-> h.back, cell |-> [h.cell EXCEPT ![o] = e]]
      BY DEF g
    <3>2. QED
      BY <2>3, <2>4, <3>1, HeaderEdited DEF n
  <2>6. /\ f \in DOMAIN q.blocks /\ Array(q.blocks, n) /\ f \in f .. b
        /\ Ranges(f, b, q.blocks, n) /\ f .. b \subseteq DOMAIN q.blocks
    BY <2>1, EndsOf
  <2> HIDE DEF g, n
  <2>7. a[f] = g /\ DOMAIN a = DOMAIN q.blocks /\ \A i \in f .. b : i # f => a[i] = q.blocks[i]
    BY <2>6
  <2>8. Array(a, n)
    BY <2>5, <2>6, ArrayExcept
  <2> HIDE DEF a
  <2>9. ASSUME Packed(f, b, q.blocks, n, q.size) PROVE Packed(f, b, a, n, q.size + 1)
    <3>1. h.front <= h.back /\ (h.front < h.back => h.back <= n)
      BY <2>6, <2>9 DEF Packed
    <3>2. n \in Nat /\ h.back \in Nat /\ h.front \in Nat
      BY <2>3, <2>6 DEF Ranges
    <3>3. /\ a[f].front = h.front - 1 /\ a[f].back = h.back
          /\ a[f].front <= a[f].back /\ a[f].back <= n
      BY <2>4, <2>5, <2>7, <3>1, <3>2
    <3>4. QED
      BY <2>6, <2>7, <2>9, <3>3, PackedFirst
  <2>10. Held(f, b, a, n, q.size + 1, q.heap)
    BY <2>1, <2>5, <2>6, <2>7, <2>8, <2>9, HeldEdited
  <2>11. f \in Int /\ b \in Int /\ q.size + 1 \in Int /\ q.heap \in Int
    BY <2>1, StructParts
  <2>12. QED
    BY <2>1, <2>2, <2>10, <2>11, PutLeft DEF n
<1>3. QED
  BY <1>1, <1>2

\* r holds what q held, its first and its last block included.
Keeps(q, r) ==
  /\ Left(r, BlockSize)
  /\ r.fault \/ (r.blocks[r.front] = q.blocks[q.front] /\ r.blocks[r.back] = q.blocks[q.back])

(* A shifted window is the same window elsewhere, or an access outside of the array. *)
LEMMA MovedKeeps ==
  ASSUME NEW q, NEW f2, Sized, Struct(q),
         Held(q.front, q.back, q.blocks, BlockSize, q.size, q.heap)
  PROVE  Keeps(q, Moved(q, f2))
<1> DEFINE n == BlockSize
           f == q.front
           b == q.back
           by == f2 - f
           a == [i \in DOMAIN q.blocks |-> IF i \in f2 .. b + by THEN q.blocks[i - by] ELSE NoBlock]
<1>1. CASE ~(f2 \in DOMAIN q.blocks /\ b + by \in DOMAIN q.blocks)
  BY <1>1, FaultLeft DEF Moved, Keeps
<1>2. CASE f2 \in DOMAIN q.blocks /\ b + by \in DOMAIN q.blocks
  <2>1. /\ f \in Int /\ b \in Int /\ f <= b /\ Array(q.blocks, n) /\ q.size \in Int /\ q.heap \in Int
        /\ f .. b \subseteq DOMAIN q.blocks
    BY EndsOf
  <2>2. f2 \in Int /\ f2 .. b + by \subseteq DOMAIN q.blocks
    BY <1>2, <2>1, ArrayDomain
  <2>3. Moved(q, f2) = Put(q, f2, b + by, q.size, q.heap, a)
    <3>1. Moved(q, f2) = [q EXCEPT !.front = f2, !.back = b + by, !.blocks = a]
      BY <1>2 DEF Moved
    <3>2. q = Put(q, q.front, q.back, q.size, q.heap, q.blocks)
      BY StructParts DEF Put
    <3> HIDE DEF a
    <3>3. QED
      BY <3>1, <3>2 DEF Put
  <2>4. by \in Int /\ f + by = f2
    BY <2>1, <2>2
  <2>5. \A i \in f2 .. b + by : i - by \in f .. b
    BY <2>1, <2>2
  <2>6. \A i \in f2 .. b + by : a[i] = q.blocks[i - by]
    BY <2>2
  <2>7. Array(a, n)
    <3>1. \A i \in f .. b : q.blocks[i] \in Headers(n) \cup {NoBlock}
      BY <2>1, ArrayDomain
    <3>2. \A i \in DOMAIN q.blocks : a[i] \in Headers(n) \cup {NoBlock}
      BY <2>5, <3>1
    <3>3. PICK m \in Nat : DOMAIN q.blocks = 0 .. m - 1
      BY <2>1 DEF Array
    <3> HIDE DEF n
    <3>4. a \in [0 .. m - 1 -> Headers(n) \cup {NoBlock}]
      BY <3>2, <3>3
    <3>5. QED
      BY <3>4 DEF Array
  <2>8. DOMAIN a = DOMAIN q.blocks
    OBVIOUS
  <2> HIDE DEF a, by, n
  <2>9. Held(f2, b + by, a, n, q.size, q.heap)
    <3>1. Held(f, b, q.blocks, n, q.size, q.heap)
      BY DEF n
    <3>2. Held(f + by, b + by, a, n, q.size, q.heap)
      BY <2>2, <2>4, <2>6, <2>7, <2>8, <3>1, HeldMoved
    <3>3. QED
      BY <2>4, <3>2
  <2>10. a[f2] = q.blocks[f] /\ a[b + by] = q.blocks[b]
    <3>1. f2 \in f2 .. b + by /\ b + by \in f2 .. b + by /\ f2 - by = f /\ (b + by) - by = b
      BY <2>1, <2>2, <2>4
    <3>2. QED
      BY <2>6, <3>1
  <2> DEFINE r == Put(q, f2, b + by, q.size, q.heap, a)
  <2>11. Left(r, n)
    <3>1. b + by \in Int
      BY <2>1, <2>4
    <3>2. QED
      BY <2>1, <2>2, <2>9, <3>1, PutLeft
  <2>12. r.front = f2 /\ r.back = b + by /\ r.blocks = a
    BY DEF Put
  <2>13. QED
    BY <2>3, <2>10, <2>11, <2>12 DEF Keeps, n
<1>3. QED
  BY <1>1, <1>2

(* A larger array, or after a swap perhaps a smaller one. *)
LEMMA EnlargedParts ==
  ASSUME NEW q, Struct(q)
  PROVE  LET r == Enlarged(q) cap == q.cap + q.cap \div 2 IN
         /\ Struct(r) /\ cap \in Nat \ {0}
         /\ r = [live |-> q.live, fault |-> q.fault, cap |-> cap, front |-> q.front,
                 back |-> q.back, size |-> q.size, heap |-> q.heap, blocks |-> r.blocks]
         /\ r.blocks = [i \in 0 .. cap - 1 |-> IF i \in DOMAIN q.blocks THEN q.blocks[i] ELSE NoBlock]
<1> DEFINE cap == q.cap + q.cap \div 2
           a == [i \in 0 .. cap - 1 |-> IF i \in DOMAIN q.blocks THEN q.blocks[i] ELSE NoBlock]
<1>1. cap \in Nat \ {0}
  BY StructParts
<1>2. Enlarged(q) = [live |-> q.live, fault |-> q.fault, cap |-> cap, front |-> q.front,
                     back |-> q.back, size |-> q.size, heap |-> q.heap, blocks |-> a]
  <2>1. Enlarged(q) = [q EXCEPT !.cap = cap, !.blocks = a]
    BY DEF Enlarged
  <2> HIDE DEF a, cap
  <2>2. QED
    BY <2>1, StructParts
<1> HIDE DEF cap, a
<1>3. Struct(Enlarged(q)) /\ Enlarged(q).blocks = a
  BY <1>1, <1>2, StructParts, StructOf
<1>4. QED
  BY <1>1, <1>2, <1>3 DEF cap, a

(* An enlargement changes the capacity and the array only. *)
LEMMA EnlargedFields ==
  ASSUME NEW q, Struct(q), NEW cap, cap = q.cap + q.cap \div 2, NEW r, r = Enlarged(q)
  PROVE  /\ Struct(r) /\ cap \in Nat \ {0} /\ DOMAIN r.blocks = 0 .. cap - 1
         /\ r.back = q.back /\ r.front = q.front /\ r.size = q.size /\ r.heap = q.heap
         /\ r.cap = cap /\ r.fault = q.fault
<1>1. /\ Struct(r) /\ cap \in Nat \ {0}
      /\ r = [live |-> q.live, fault |-> q.fault, cap |-> cap, front |-> q.front,
              back |-> q.back, size |-> q.size, heap |-> q.heap, blocks |-> r.blocks]
      /\ r.blocks = [i \in 0 .. cap - 1 |-> IF i \in DOMAIN q.blocks THEN q.blocks[i] ELSE NoBlock]
  BY EnlargedParts
<1>2. /\ r.back = q.back /\ r.front = q.front /\ r.size = q.size /\ r.heap = q.heap
      /\ r.cap = cap /\ r.fault = q.fault
  BY <1>1
<1>3. DOMAIN r.blocks = 0 .. cap - 1
  BY <1>1
<1>4. QED
  BY <1>1, <1>2, <1>3

(* An enlargement keeps the window where it is. *)
LEMMA EnlargedKeeps ==
  ASSUME NEW q, Sized, Struct(q), q.back < q.cap + q.cap \div 2,
         Held(q.front, q.back, q.blocks, BlockSize, q.size, q.heap)
  PROVE  /\ Keeps(q, Enlarged(q))
         /\ Held(q.front, q.back, Enlarged(q).blocks, BlockSize, q.size, q.heap)
<1> DEFINE r == Enlarged(q)
           cap == q.cap + q.cap \div 2
           a == r.blocks
           n == BlockSize
           f == q.front
           b == q.back
<1>1. /\ Struct(r) /\ cap \in Nat /\ r.front = f /\ r.back = b /\ r.size = q.size /\ r.heap = q.heap
      /\ r.fault = q.fault
      /\ a = [i \in 0 .. cap - 1 |-> IF i \in DOMAIN q.blocks THEN q.blocks[i] ELSE NoBlock]
  BY EnlargedParts
<1>2. /\ f \in Int /\ b \in Int /\ f <= b /\ Array(q.blocks, n) /\ f .. b \subseteq DOMAIN q.blocks
      /\ f \in f .. b /\ b \in f .. b
  BY EndsOf
<1>3. PICK m \in Nat : q.blocks \in [0 .. m - 1 -> Headers(n) \cup {NoBlock}]
  BY <1>2 DEF Array
<1>4. f .. b \subseteq 0 .. cap - 1
  <2>1. 0 <= f
    BY <1>2, <1>3
  <2>2. QED
    BY <1>1, <1>2, <2>1
<1> HIDE DEF r, cap, n, f, b
<1>5. a \in [0 .. cap - 1 -> Headers(n) \cup {NoBlock}]
  BY <1>1, <1>3
<1>6. Array(a, n)
  BY <1>1, <1>5 DEF Array
<1>7. \A i \in f .. b : a[i] = q.blocks[i] /\ i \in DOMAIN a
  BY <1>1, <1>2, <1>4
<1>8. Held(f, b, a, n, q.size, q.heap)
  <2>1. Held(f, b, q.blocks, n, q.size, q.heap)
    BY DEF n, f, b
  <2>2. f + 0 = f /\ b + 0 = b /\ \A i \in f .. b : i - 0 = i
    BY <1>2
  <2>3. Held(f + 0, b + 0, a, n, q.size, q.heap)
    <3> HIDE DEF a
    <3>1. f + 0 .. b + 0 \subseteq DOMAIN a
      BY <1>7, <2>2
    <3>2. \A i \in f + 0 .. b + 0 : a[i] = q.blocks[i - 0]
      BY <1>7, <2>2
    <3>3. QED
      BY <1>6, <2>1, <3>1, <3>2, HeldMoved
  <2>4. QED
    BY <2>2, <2>3
<1>9. Left(r, n)
  BY <1>1, <1>8 DEF Left
<1>10. QED
  BY <1>1, <1>2, <1>7, <1>8, <1>9 DEF Keeps, n, f, b, r

(* The header of a new block: an empty range in a buffer. *)
LEMMA BlockHeader ==
  ASSUME NEW x \in Nat, Sized
  PROVE  Block(x) \in Headers(BlockSize) /\ Block(x).cell # << >> /\ Block(x).front = x /\ Block(x).back = x
<1> DEFINE n == BlockSize
           c == [o \in 0 .. n - 1 |-> NoElem]
<1>1. n \in Nat /\ 0 \in DOMAIN c
  BY DEF Sized
<1>2. c # << >> /\ c \in [0 .. n - 1 -> Elems \cup {NoElem}]
  BY <1>1
<1>3. QED
  BY <1>1, <1>2, HeaderOf DEF Block

(* A header reached for is in the array, or the deque is at fault. *)
LEMMA ReachedParts ==
  ASSUME NEW q, NEW i, Struct(q)
  PROVE  /\ Reached(q, i) = q \/ Reached(q, i) = Fault(q)
         /\ Struct(Reached(q, i))
         /\ Reached(q, i).front = q.front /\ Reached(q, i).back = q.back
         /\ ~Reached(q, i).fault => ~q.fault /\ Reached(q, i) = q /\ i \in DOMAIN q.blocks
<1>1. Struct(Fault(q)) /\ Fault(q).fault
  BY FaultLeft
<1>2. Fault(q).front = q.front /\ Fault(q).back = q.back
  BY StructParts DEF Fault
<1>3. QED
  BY <1>1, <1>2 DEF Reached

(* A block is opened behind the last one, if that is full. *)
LEMMA OpenedBack ==
  ASSUME NEW q, Sized, Left(q, BlockSize),
         q.fault \/ (q.blocks[q.back].back >= BlockSize /\ q.back + 1 \in DOMAIN q.blocks)
  PROVE  Left([Opened(q, q.back + 1, 0) EXCEPT !.back = @ + 1], BlockSize)
<1> DEFINE n == BlockSize
           f == q.front
           b == q.back
           s == Opened(q, b + 1, 0)
           r == [s EXCEPT !.back = s.back + 1]
<1>1. Struct(q) /\ q = Put(q, f, b, q.size, q.heap, q.blocks) /\ f \in Int /\ b \in Int
      /\ q.size \in Int /\ q.heap \in Int
  BY StructParts DEF Left, Put
<1>2. CASE q.fault
  <2>1. r = [q EXCEPT !.back = b + 1]
    BY <1>2 DEF Opened
  <2>2. [q EXCEPT !.back = b + 1] = Put(q, f, b + 1, q.size, q.heap, q.blocks)
    BY <1>1 DEF Put
  <2>3. b + 1 \in Int
    BY <1>1
  <2>4. Left(Put(q, f, b + 1, q.size, q.heap, q.blocks), n)
    BY <1>1, <1>2, <2>3, PutLeft
  <2>5. QED
    BY <2>1, <2>2, <2>4
<1>3. CASE ~q.fault
  <2> DEFINE g == Block(0)
             a == [q.blocks EXCEPT ![b + 1] = g]
  <2>1. Held(f, b, q.blocks, n, q.size, q.heap) /\ b + 1 \in DOMAIN q.blocks
        /\ q.blocks[b].back >= n
    BY <1>3 DEF Left
  <2>2. r = Put(q, f, b + 1, q.size, q.heap + 1, a)
    <3>1. s = [q EXCEPT !.blocks[b + 1] = g, !.heap = q.heap + 1]
      BY <1>3 DEF Opened
    <3> HIDE DEF g
    <3>2. [q EXCEPT !.blocks[b + 1] = g, !.heap = q.heap + 1] = [q EXCEPT !.blocks = a, !.heap = q.heap + 1]
      OBVIOUS
    <3> HIDE DEF a
    <3>3. s = Put(q, f, b, q.size, q.heap + 1, a)
      BY <1>1, <3>1, <3>2 DEF Put
    <3> HIDE DEF s
    <3>4. QED
      BY <3>3 DEF Put
  <2>3. g \in Headers(n) /\ g.cell # << >> /\ g.front = 0 /\ g.back = 0
    BY BlockHeader
  <2>4. Array(q.blocks, n) /\ Ranges(f, b, q.blocks, n) /\ f <= b /\ f .. b \subseteq DOMAIN q.blocks
    BY <1>1, <2>1, EndsOf
  <2> HIDE DEF g, n
  <2>5. Array(a, n)
    BY <2>1, <2>3, <2>4, ArrayExcept
  <2>6. b + 1 \notin f .. b /\ f .. b + 1 = f .. b \cup {b + 1} /\ f <= b + 1 /\ b + 1 \in Int
    BY <1>1, <2>4
  <2>7. a[b + 1] = g /\ f .. b + 1 \subseteq DOMAIN a /\ \A i \in f .. b : a[i] = q.blocks[i]
    BY <2>1, <2>4, <2>6
  <2> HIDE DEF a
  <2>8. Packed(f, b, q.blocks, n, q.size) => Packed(f, b + 1, a, n, q.size)
    BY <2>1, <2>3, <2>4, <2>7, PackedBehind
  <2>9. Held(f, b + 1, a, n, q.size, q.heap + 1)
    BY <1>1, <2>1, <2>3, <2>5, <2>6, <2>7, <2>8, HeldAdded
  <2>10. q.heap + 1 \in Int
    BY <1>1
  <2>11. Left(Put(q, f, b + 1, q.size, q.heap + 1, a), n)
    BY <1>1, <2>6, <2>9, <2>10, PutLeft
  <2>12. QED
    BY <2>2, <2>11 DEF n
<1>4. QED
  BY <1>2, <1>3

(* ... or before the first one, if that is used from 0. *)
LEMMA OpenedFront ==
  ASSUME NEW q, Sized, Left(q, BlockSize),
         q.fault \/ (q.blocks[q.front].front <= 0 /\ q.front - 1 \in DOMAIN q.blocks)
  PROVE  Left([Opened(q, q.front - 1, BlockSize) EXCEPT !.front = @ - 1], BlockSize)
<1> DEFINE n == BlockSize
           f == q.front
           b == q.back
           s == Opened(q, f - 1, n)
           r == [s EXCEPT !.front = s.front - 1]
<1>1. Struct(q) /\ q = Put(q, f, b, q.size, q.heap, q.blocks) /\ f \in Int /\ b \in Int
      /\ q.size \in Int /\ q.heap \in Int
  BY StructParts DEF Left, Put
<1>2. CASE q.fault
  <2>1. r = [q EXCEPT !.front = f - 1]
    BY <1>2 DEF Opened
  <2>2. [q EXCEPT !.front = f - 1] = Put(q, f - 1, b, q.size, q.heap, q.blocks)
    BY <1>1 DEF Put
  <2>3. f - 1 \in Int
    BY <1>1
  <2>4. Left(Put(q, f - 1, b, q.size, q.heap, q.blocks), n)
    BY <1>1, <1>2, <2>3, PutLeft
  <2>5. QED
    BY <2>1, <2>2, <2>4
<1>3. CASE ~q.fault
  <2> DEFINE g == Block(n)
             a == [q.blocks EXCEPT ![f - 1] = g]
  <2>1. Held(f, b, q.blocks, n, q.size, q.heap) /\ f - 1 \in DOMAIN q.blocks
        /\ q.blocks[f].front <= 0
    BY <1>3 DEF Left
  <2>2. r = Put(q, f - 1, b, q.size, q.heap + 1, a)
    <3>1. s = [q EXCEPT !.blocks[f - 1] = g, !.heap = q.heap + 1]
      BY <1>3 DEF Opened
    <3> HIDE DEF g
    <3>2. [q EXCEPT !.blocks[f - 1] = g, !.heap = q.heap + 1] = [q EXCEPT !.blocks = a, !.heap = q.heap + 1]
      OBVIOUS
    <3> HIDE DEF a
    <3>3. s = Put(q, f, b, q.size, q.heap + 1, a)
      BY <1>1, <3>1, <3>2 DEF Put
    <3> HIDE DEF s
    <3>4. QED
      BY <3>3 DEF Put
  <2>3. g \in Headers(n) /\ g.cell # << >> /\ g.front = n /\ g.back = n
    BY BlockHeader DEF Sized
  <2>4. Array(q.blocks, n) /\ Ranges(f, b, q.blocks, n) /\ f <= b /\ f .. b \subseteq DOMAIN q.blocks
    BY <1>1, <2>1, EndsOf
  <2> HIDE DEF g, n
  <2>5. Array(a, n)
    BY <2>1, <2>3, <2>4, ArrayExcept
  <2>6. f - 1 \notin f .. b /\ f - 1 .. b = f .. b \cup {f - 1} /\ f - 1 <= b /\ f - 1 \in Int
    BY <1>1, <2>4
  <2>7. a[f - 1] = g /\ f - 1 .. b \subseteq DOMAIN a /\ \A i \in f .. b : a[i] = q.blocks[i]
    BY <2>1, <2>4, <2>6
  <2> HIDE DEF a
  <2>8. Packed(f, b, q.blocks, n, q.size) => Packed(f - 1, b, a, n, q.size)
    BY <2>1, <2>3, <2>4, <2>7, PackedBefore
  <2>9. Held(f - 1, b, a, n, q.size, q.heap + 1)
    BY <1>1, <2>1, <2>3, <2>5, <2>6, <2>7, <2>8, HeldAdded
  <2>10. q.heap + 1 \in Int
    BY <1>1
  <2>11. Left(Put(q, f - 1, b, q.size, q.heap + 1, a), n)
    BY <1>1, <2>6, <2>9, <2>10, PutLeft
  <2>12. QED
    BY <2>2, <2>11 DEF n
<1>4. QED
  BY <1>2, <1>3

(* What may go wrong leaves q. *)
LEMMA MayFailQ ==
  ASSUME NEW how, NEW q, NEW g \in MayFail(how, q)
  PROVE  g.q = q /\ g.rc = "CS_MEM"
BY DEF MayFail, Answer

(* What a call that succeeds leaves. *)
LEMMA DoneQ ==
  ASSUME NEW q
  PROVE  Done(q).q = q /\ Done(q).rc = "CS_SUCCESS"
BY DEF Done, Answer

(* What a call leaves, and its return code. *)
LEMMA AnswerQ ==
  ASSUME NEW q, NEW rc
  PROVE  Answer(rc, q).q = q /\ Answer(rc, q).rc = rc
BY DEF Answer

(* A deque whose realloc failed is at fault. *)
LEMMA LostLeft ==
  ASSUME NEW q, NEW n, Struct(q)
  PROVE  Left(Lost(q), n)
<1> DEFINE cap == q.cap + q.cap \div 2
<1>1. cap \in Nat \ {0}
  BY StructParts
<1>2. Lost(q) = [q EXCEPT !.cap = cap, !.blocks = << >>, !.fault = TRUE]
  BY DEF Lost
<1> HIDE DEF cap
<1>3. Lost(q) = [live |-> q.live, fault |-> TRUE, cap |-> cap, front |-> q.front,
                 back |-> q.back, size |-> q.size, heap |-> q.heap, blocks |-> << >>]
  BY <1>2, StructParts
<1>4. Struct(Lost(q)) /\ Lost(q).fault = TRUE
  <2>1. TRUE \in BOOLEAN
    OBVIOUS
  <2>2. Struct(Lost(q))
    BY <1>1, <1>3, <2>1, StructParts DEF Struct
  <2>3. QED
    BY <1>3, <2>2
<1>5. QED
  BY <1>4 DEF Left

(* A header has been reached in a deque that keeps what q holds, or not. *)
LEMMA RoomyBack ==
  ASSUME NEW q, NEW r, Struct(r), q.blocks[q.back].back >= BlockSize,
         Keeps(q, r) \/ r.back + 1 \notin DOMAIN r.blocks
  PROVE  LET s == Reached(r, r.back + 1) IN
         /\ Left(s, BlockSize)
         /\ s.fault \/ (s.blocks[s.back].back >= BlockSize /\ s.back + 1 \in DOMAIN s.blocks)
<1> DEFINE s == Reached(r, r.back + 1)
<1>1. /\ s = r \/ s = Fault(r)
      /\ Struct(s) /\ s.back = r.back
      /\ ~s.fault => ~r.fault /\ s = r /\ r.back + 1 \in DOMAIN r.blocks
  BY ReachedParts
<1> HIDE DEF s
<1>2. CASE s.fault
  BY <1>1, <1>2 DEF Left, s
<1>3. CASE ~s.fault
  BY <1>1, <1>3 DEF Keeps, s
<1>4. QED
  BY <1>2, <1>3

(* Before a block is opened at the front, there is a header for it. *)
LEMMA RoomyFront ==
  ASSUME NEW q, NEW r, Struct(r), q.blocks[q.front].front <= 0,
         Keeps(q, r) \/ r.front - 1 \notin DOMAIN r.blocks
  PROVE  LET s == Reached(r, r.front - 1) IN
         /\ Left(s, BlockSize)
         /\ s.fault \/ (s.blocks[s.front].front <= 0 /\ s.front - 1 \in DOMAIN s.blocks)
<1> DEFINE s == Reached(r, r.front - 1)
<1>1. /\ s = r \/ s = Fault(r)
      /\ Struct(s) /\ s.front = r.front
      /\ ~s.fault => ~r.fault /\ s = r /\ r.front - 1 \in DOMAIN r.blocks
  BY ReachedParts
<1> HIDE DEF s
<1>2. CASE s.fault
  BY <1>1, <1>2 DEF Left, s
<1>3. CASE ~s.fault
  BY <1>1, <1>3 DEF Keeps, s
<1>4. QED
  BY <1>2, <1>3

(* A deque that is right keeps its window. *)
LEMMA KeepsItself ==
  ASSUME NEW q, Left(q, BlockSize)
  PROVE  Keeps(q, q)
BY DEF Keeps

(* A window kept twice is kept. *)
LEMMA KeepsTrans ==
  ASSUME NEW q, NEW r, NEW s, Keeps(q, r), Keeps(r, s), ~r.fault
  PROVE  Keeps(q, s)
BY DEF Keeps

(* Growth at the back, whichever of its allocations fails. *)
LEMMA GrownBackLeft ==
  ASSUME NEW q, Sized, Struct(q), Held(q.front, q.back, q.blocks, BlockSize, q.size, q.heap),
         q.blocks[q.back].back >= BlockSize, NEW g \in GrownBack(q)
  PROVE  Left(g.q, BlockSize)
<1> DEFINE atEnd  == q.back + 1 >= q.cap
           shifts == q.front > q.cap \div 4
           moved  == IF ~atEnd THEN q ELSE IF shifts THEN Recentred(q) ELSE Enlarged(q)
           roomy  == Reached(moved, moved.back + 1)
           opened == [Opened(roomy, roomy.back + 1, 0) EXCEPT !.back = @ + 1]
<1>1. \/ g = Done(opened)
      \/ g \in MayFail("malloc", roomy)
      \/ g \in MayFail("realloc", Lost(q))
  BY DEF GrownBack
<1>2. Struct(moved) /\ (Keeps(q, moved) \/ moved.back + 1 \notin DOMAIN moved.blocks)
  <2>1. CASE ~atEnd
    BY <2>1, KeepsItself DEF Left
  <2>2. CASE atEnd /\ shifts
    BY <2>2, MovedKeeps DEF Recentred, Keeps, Left
  <2>3. CASE atEnd /\ ~shifts
    <3> DEFINE cap == q.cap + q.cap \div 2
    <3>1. /\ Struct(Enlarged(q)) /\ Enlarged(q).back = q.back /\ cap \in Nat
          /\ DOMAIN Enlarged(q).blocks = 0 .. cap - 1
      BY EnlargedFields
    <3>2. q.back \in Int
      BY StructParts
    <3>3. CASE q.back < cap
      BY <2>3, <3>1, <3>3, EnlargedKeeps
    <3>4. CASE ~(q.back < cap)
      <4>1. q.back + 1 \notin 0 .. cap - 1
        BY <3>1, <3>2, <3>4
      <4>2. QED
        BY <2>3, <3>1, <4>1
    <3>5. QED
      BY <3>3, <3>4
  <2>4. QED
    BY <2>1, <2>2, <2>3
<1> HIDE DEF moved
<1>3. /\ Left(roomy, BlockSize)
      /\ roomy.fault \/ (roomy.blocks[roomy.back].back >= BlockSize /\ roomy.back + 1 \in DOMAIN roomy.blocks)
  BY <1>2, RoomyBack
<1> HIDE DEF roomy
<1>4. Left(opened, BlockSize)
  BY <1>3, OpenedBack
<1> HIDE DEF opened
<1>5. QED
  BY <1>1, <1>3, <1>4, LostLeft, MayFailQ, DoneQ

(* Growth at the front, whichever of its allocations fails. *)
LEMMA GrownFrontLeft ==
  ASSUME NEW q, Sized, Struct(q), Held(q.front, q.back, q.blocks, BlockSize, q.size, q.heap),
         q.blocks[q.front].front <= 0, NEW g \in GrownFront(q)
  PROVE  Left(g.q, BlockSize)
<1> DEFINE atStart == q.front - 1 < 0
           shifts  == q.cap - q.back > q.cap \div 4
           larger  == Enlarged(q)
           to      == q.front + larger.cap - q.cap
           moved   == IF ~atStart THEN q ELSE IF shifts THEN Recentred(q) ELSE Moved(larger, to)
           roomy   == Reached(moved, moved.front - 1)
           opened  == [Opened(roomy, roomy.front - 1, BlockSize) EXCEPT !.front = @ - 1]
<1>1. \/ g = Done(opened)
      \/ g \in MayFail("malloc", roomy)
      \/ g \in MayFail("realloc", Lost(q))
  BY DEF GrownFront
<1>2. Struct(moved) /\ Keeps(q, moved)
  <2>1. CASE ~atStart
    BY <2>1, KeepsItself DEF Left
  <2>2. CASE atStart /\ shifts
    BY <2>2, MovedKeeps DEF Recentred, Keeps, Left
  <2>3. CASE atStart /\ ~shifts
    <3> DEFINE cap == q.cap + q.cap \div 2
    <3>1. /\ Struct(larger) /\ larger.back = q.back /\ larger.front = q.front /\ cap \in Nat
          /\ larger.size = q.size /\ larger.heap = q.heap /\ larger.cap = cap /\ larger.fault = q.fault
          /\ DOMAIN larger.blocks = 0 .. cap - 1
      BY EnlargedFields
    <3>2. q.back \in Int /\ q.front \in Int /\ q.front >= 0 /\ q.cap \in Nat \ {0}
      <4>1. q.front \in DOMAIN q.blocks /\ Array(q.blocks, BlockSize)
        BY EndsOf
      <4>2. QED
        BY <4>1, StructParts DEF Array
    <3> HIDE DEF larger
    <3>3. CASE q.back < cap
      <4>1. Keeps(q, larger) /\ Held(q.front, q.back, larger.blocks, BlockSize, q.size, q.heap)
        BY <3>3, EnlargedKeeps DEF larger
      <4>2. Keeps(larger, Moved(larger, to))
        BY <3>1, <4>1, MovedKeeps
      <4>3. CASE larger.fault
        <5>1. Moved(larger, to).fault
          <6>1. larger = Put(larger, larger.front, larger.back, larger.size, larger.heap, larger.blocks)
            BY <3>1, StructParts DEF Put
          <6> DEFINE m == [larger EXCEPT !.front = to, !.back = larger.back + (to - larger.front),
                             !.blocks = [i \in DOMAIN larger.blocks |->
                                IF i \in to .. larger.back + (to - larger.front)
                                  THEN larger.blocks[i - (to - larger.front)] ELSE NoBlock]]
          <6>2. Moved(larger, to) = m \/ Moved(larger, to) = Fault(larger)
            BY DEF Moved
          <6>3. m.fault
            BY <4>3, <6>1 DEF Put
          <6>4. QED
            BY <3>1, <6>2, <6>3, FaultLeft
        <5>2. QED
          BY <2>3, <4>2, <5>1 DEF Keeps, Left
      <4>4. CASE ~larger.fault
        BY <2>3, <4>1, <4>2, <4>4, KeepsTrans DEF Keeps, Left
      <4>5. QED
        BY <4>3, <4>4
    <3>4. CASE ~(q.back < cap)
      <4>1. larger.back + (to - larger.front) \notin 0 .. cap - 1
        <5>1. larger.back + (to - larger.front) = q.back + q.cap \div 2
          BY <3>1, <3>2
        <5>2. q.cap \div 2 \in Nat
          BY <3>2
        <5>3. QED
          BY <3>1, <3>2, <3>4, <5>1, <5>2
      <4>2. Moved(larger, to) = Fault(larger)
        BY <3>1, <4>1 DEF Moved
      <4>3. QED
        BY <2>3, <3>1, <4>2, FaultLeft DEF Keeps
    <3>5. QED
      BY <3>3, <3>4
  <2>4. QED
    BY <2>1, <2>2, <2>3
<1> HIDE DEF moved
<1>3. /\ Left(roomy, BlockSize)
      /\ roomy.fault \/ (roomy.blocks[roomy.front].front <= 0 /\ roomy.front - 1 \in DOMAIN roomy.blocks)
  BY <1>2, RoomyFront
<1> HIDE DEF roomy
<1>4. Left(opened, BlockSize)
  BY <1>3, OpenedFront
<1> HIDE DEF opened
<1>5. QED
  BY <1>1, <1>3, <1>4, LostLeft, MayFailQ, DoneQ

(* A push, of a deque that is not at fault. *)
LEMMA PushedBackLeft ==
  ASSUME NEW q, Sized, Struct(q), Held(q.front, q.back, q.blocks, BlockSize, q.size, q.heap),
         NEW e \in Value, NEW r \in PushedBack(q, e)
  PROVE  Left(r.q, BlockSize)
<1> DEFINE G == IF q.blocks[q.back].back >= BlockSize THEN GrownBack(q) ELSE {Done(q)}
<1>1. PICK g \in G : r = IF g.rc = "CS_SUCCESS" THEN Done(PutBack(g.q, e)) ELSE g
  BY DEF PushedBack
<1>2. Left(g.q, BlockSize)
  <2>1. CASE q.blocks[q.back].back >= BlockSize
    BY <2>1, GrownBackLeft
  <2>2. CASE ~(q.blocks[q.back].back >= BlockSize)
    BY <2>2, DoneQ DEF Left
  <2>3. QED
    BY <2>1, <2>2
<1>3. QED
  BY <1>1, <1>2, PutBackLeft, DoneQ

(* A push at the front. *)
LEMMA PushedFrontLeft ==
  ASSUME NEW q, Sized, Struct(q), Held(q.front, q.back, q.blocks, BlockSize, q.size, q.heap),
         NEW e \in Value, NEW r \in PushedFront(q, e)
  PROVE  Left(r.q, BlockSize)
<1> DEFINE G == IF q.blocks[q.front].front <= 0 THEN GrownFront(q) ELSE {Done(q)}
<1>1. PICK g \in G : r = IF g.rc = "CS_SUCCESS" THEN Done(PutFront(g.q, e)) ELSE g
  BY DEF PushedFront
<1>2. Left(g.q, BlockSize)
  <2>1. CASE q.blocks[q.front].front <= 0
    BY <2>1, GrownFrontLeft
  <2>2. CASE ~(q.blocks[q.front].front <= 0)
    BY <2>2, DoneQ DEF Left
  <2>3. QED
    BY <2>1, <2>2
<1>3. QED
  BY <1>1, <1>2, PutFrontLeft, DoneQ

(* The array with one block in its middle. *)
LEMMA RenewedParts ==
  ASSUME NEW q, NEW block \in Headers(BlockSize), Struct(q), q.fault \/ Array(q.blocks, BlockSize),
         NEW r, r = Renewed(q, block)
  PROVE  /\ Struct(r) /\ r.size = q.size /\ r.heap = q.heap
         /\ \/ r.fault
            \/ /\ Array(r.blocks, BlockSize) /\ r.front \in Int /\ r.back = r.front
               /\ r.front \in DOMAIN r.blocks /\ r.blocks[r.front] = block
<1> DEFINE c == q.cap \div 2
           a == [i \in DOMAIN q.blocks |-> IF i = c THEN block ELSE NoBlock]
<1>1. c \in Int
  BY StructParts
<1>2. CASE c \notin DOMAIN q.blocks
  <2>1. r = Fault(q)
    BY <1>2 DEF Renewed
  <2>2. Fault(q).size = q.size /\ Fault(q).heap = q.heap
    BY StructParts DEF Fault
  <2>3. QED
    BY <2>1, <2>2, FaultLeft
<1>3. CASE c \in DOMAIN q.blocks
  <2>1. r = Put(q, c, c, q.size, q.heap, a)
    <3>1. r = [q EXCEPT !.front = c, !.back = c, !.blocks = a]
      BY <1>3 DEF Renewed
    <3> HIDE DEF a, c
    <3>2. QED
      BY <3>1, StructParts DEF Put
  <2>2. a[c] = block /\ c \in DOMAIN a
    BY <1>3
  <2>3. Array(q.blocks, BlockSize) => Array(a, BlockSize)
    BY DEF Array
  <2> HIDE DEF a, c
  <2>4. Struct(r)
    BY <1>1, <2>1, StructParts, StructOf DEF Put
  <2>5. r.fault = q.fault /\ r.front = c /\ r.back = c /\ r.size = q.size /\ r.heap = q.heap /\ r.blocks = a
    BY <2>1 DEF Put
  <2>6. QED
    BY <1>1, <2>2, <2>3, <2>4, <2>5
<1>4. QED
  BY <1>2, <1>3

(* A header whose buffer could not be allocated. *)
LEMMA NullHeaders ==
  ASSUME NEW left \in NullBlocks, Sized
  PROVE  left \in Headers(BlockSize) /\ left.cell = << >>
<1>1. BlockSize \in Nat
  BY DEF Sized
<1>2. QED
  BY <1>1 DEF NullBlocks, Headers

(* ... is held, with its buffer if it has one. *)
LEMMA RenewedLeft ==
  ASSUME NEW q, NEW block, Sized, Struct(q), q.fault \/ Array(q.blocks, BlockSize),
         q.size = 0, q.heap = 1,
         (\E x \in Nat : block = Block(x)) \/ block \in NullBlocks
  PROVE  /\ block \notin NullBlocks => Left(Renewed(q, block), BlockSize)
         /\ block \in NullBlocks => Left([Renewed(q, block) EXCEPT !.heap = 0], BlockSize)
<1> DEFINE r == Renewed(q, block)
           s == [r EXCEPT !.heap = 0]
<1>1. /\ block \in Headers(BlockSize)
      /\ block \notin NullBlocks => block.cell # << >> /\ block.front = block.back
      /\ block \in NullBlocks => block.cell = << >>
  BY BlockHeader, NullHeaders
<1>2. /\ Struct(r) /\ r.size = 0 /\ r.heap = 1
      /\ \/ r.fault
         \/ /\ Array(r.blocks, BlockSize) /\ r.front \in Int /\ r.back = r.front
            /\ r.front \in DOMAIN r.blocks /\ r.blocks[r.front] = block
  BY <1>1, RenewedParts
<1> HIDE DEF r
<1>3. r.fault \/ Held(r.front, r.back, r.blocks, BlockSize, 0, IF block.cell = << >> THEN 0 ELSE 1)
  BY <1>1, <1>2, HeldOne
<1>4. ASSUME block \notin NullBlocks PROVE Left(r, BlockSize)
  BY <1>1, <1>2, <1>3, <1>4 DEF Left
<1>5. ASSUME block \in NullBlocks PROVE Left(s, BlockSize)
  <2>1. s = Put(r, r.front, r.back, 0, 0, r.blocks)
    BY <1>2, StructParts DEF Put
  <2>2. r.front \in Int /\ r.back \in Int
    BY <1>2, StructParts
  <2>3. r.fault \/ Held(r.front, r.back, r.blocks, BlockSize, 0, 0)
    BY <1>1, <1>3, <1>5
  <2> HIDE DEF s
  <2>4. QED
    BY <1>2, <2>1, <2>2, <2>3, PutLeft
<1>6. QED
  BY <1>4, <1>5 DEF r

(* A pop at the back, of a deque that has an element unless it is at fault. *)
LEMMA PoppedBackLeft ==
  ASSUME NEW q, Sized, Left(q, BlockSize), q.fault \/ q.size # 0, NEW r \in PoppedBack(q)
  PROVE  Left(r.q, BlockSize)
<1> DEFINE n == BlockSize
           f == q.front
           b == q.back
           h == q.blocks[b]
           o == h.back - 1
           p == [q EXCEPT !.blocks[b].cell[o] = NoElem, !.blocks[b].back = o, !.size = @ - 1]
<1>1. CASE q.fault \/ ~Cell(q, b, o)
  <2>1. r = Done(Fault(q))
    BY <1>1 DEF PoppedBack
  <2>2. QED
    BY <2>1, DoneQ, FaultLeft DEF Left
<1>2. CASE ~q.fault /\ Cell(q, b, o)
  <2> DEFINE g == [front |-> h.front, back |-> o, cell |-> [h.cell EXCEPT ![o] = NoElem]]
             a == [q.blocks EXCEPT ![b] = g]
  <2>1. Struct(q) /\ Held(f, b, q.blocks, n, q.size, q.heap) /\ q.size # 0
    BY <1>2 DEF Left
  <2>2. p = Put(q, f, b, q.size - 1, q.heap, a)
    <3>1. p = CellBack(q, b, o, NoElem, o, q.size - 1)
      BY DEF CellBack
    <3>2. b \in DOMAIN q.blocks /\ h \in Headers(n) /\ n \in Nat
      BY <2>1, EndsOf
    <3> HIDE DEF n, o, p
    <3>3. QED
      BY <2>1, <3>1, <3>2, EditBack
  <2>3. o \in DOMAIN h.cell /\ h \in Headers(n) /\ h.back \in Nat /\ h.front \in Nat
    BY <1>2, <2>1, EndsOf DEF Cell
  <2>4. o \in 0 .. n - 1 /\ o \in Nat
    <3>1. o \in 0 .. n - 1
      BY <2>1, <2>3, EndsOf, HeaderParts
    <3>2. QED
      BY <3>1
  <2>5. /\ g \in Headers(n) /\ g.cell # << >> /\ h.cell # << >>
        /\ g.front = h.front /\ g.back = o
    <3> HIDE DEF g, h, o, n
    <3>1. g = [front |-> h.front, back |-> o, cell |-> [h.cell EXCEPT ![o] = NoElem]]
      BY DEF g
    <3>2. NoElem \in Value
      BY DEF Value
    <3>3. QED
      BY <2>3, <2>4, <3>1, <3>2, HeaderEdited DEF n
  <2>6. /\ b \in DOMAIN q.blocks /\ Array(q.blocks, n) /\ b \in f .. b
        /\ Ranges(f, b, q.blocks, n) /\ f .. b \subseteq DOMAIN q.blocks
        /\ f \in Int /\ b \in Int /\ f <= b /\ q.size \in Int /\ q.heap \in Int
        /\ n \in Nat /\ n > 0
    BY <2>1, EndsOf
  <2>7. r \in IF o > 0 THEN {Done(p)}
              ELSE IF b > f THEN {Done([Dropped(p, b) EXCEPT !.back = b - 1])}
              ELSE {Done(Renewed(p, Block(n \div 2)))} \cup
                   UNION {MayFail("malloc", [Renewed(p, left) EXCEPT !.heap = @ - 1]) : left \in NullBlocks}
    BY <1>2 DEF PoppedBack
  <2> HIDE DEF g, n, p
  <2>8. a[b] = g /\ DOMAIN a = DOMAIN q.blocks /\ \A i \in f .. b : i # b => a[i] = q.blocks[i]
    BY <2>6
  <2>9. Array(a, n)
    BY <2>5, <2>6, ArrayExcept
  <2> HIDE DEF a
  <2>10. q.size - 1 \in Int
    BY <2>6
  <2>11. Struct(p) /\ p.size = q.size - 1 /\ p.heap = q.heap /\ p.blocks = a /\ p.front = f
         /\ p.back = b /\ p.fault = q.fault /\ p.cap = q.cap /\ p.live = q.live
    BY <2>1, <2>2, <2>6, <2>10, StructParts, StructOf DEF Put
  <2>12. CASE o > 0
    <3>1. ASSUME Packed(f, b, q.blocks, n, q.size) PROVE Packed(f, b, a, n, q.size + (-1))
      <4>1. h.front <= h.back /\ (h.front < h.back => h.back <= n)
        BY <2>6, <3>1 DEF Packed
      <4>2. h.front < h.back
        <5>1. CASE f = b
          BY <2>1, <2>3, <3>1, <4>1, <5>1 DEF Packed, Width
        <5>2. CASE f # b
          <6>1. b \in f + 1 .. b
            BY <2>6, <5>2
          <6>2. h.front = 0
            BY <3>1, <6>1 DEF Packed
          <6>3. QED
            BY <2>3, <2>12, <6>2
        <5>3. QED
          BY <5>1, <5>2
      <4>3. /\ a[b].front = h.front /\ a[b].back = h.back + (-1) /\ -1 \in Int
            /\ a[b].front <= a[b].back /\ a[b].back <= n
        BY <2>3, <2>4, <2>5, <2>6, <2>8, <4>1, <4>2
      <4>4. QED
        BY <2>6, <2>8, <3>1, <4>3, PackedLast
    <3>2. q.size + (-1) = q.size - 1
      BY <2>6
    <3>3. Held(f, b, a, n, q.size - 1, q.heap)
      BY <2>1, <2>5, <2>6, <2>8, <2>9, <3>1, <3>2, HeldEdited
    <3>4. Left(p, n)
      BY <2>11, <3>3 DEF Left
    <3>5. QED
      BY <2>7, <2>12, <3>4, DoneQ DEF n
  <2>13. CASE ~(o > 0) /\ b > f
    <3> DEFINE a2 == [a EXCEPT ![b] = NoBlock]
               s == [Dropped(p, b) EXCEPT !.back = b - 1]
    <3>1. s = Put(q, f, b - 1, q.size - 1, q.heap - 1, a2)
      <4>1. Dropped(p, b) = [p EXCEPT !.blocks = a2, !.heap = q.heap - 1]
        BY <2>11 DEF Dropped
      <4> HIDE DEF a2
      <4>2. Dropped(p, b) = Put(q, f, b, q.size - 1, q.heap - 1, a2)
        BY <2>2, <4>1 DEF Put
      <4>3. QED
        BY <4>2 DEF Put
    <3>2. Array(a2, n)
      BY <2>6, <2>8, <2>9, ArrayExcept
    <3>3. /\ b - 1 \in Int /\ f <= b - 1 /\ b \notin f .. b - 1 /\ f .. b = f .. b - 1 \cup {b}
          /\ \A i \in f .. b - 1 : i \in f .. b /\ i # b
      BY <2>6, <2>13
    <3>4. f .. b - 1 \subseteq DOMAIN a2 /\ \A i \in f .. b - 1 : a2[i] = q.blocks[i]
      BY <2>6, <2>8, <3>3
    <3> HIDE DEF a2, s
    <3>5. h.back = 1
      BY <2>3, <2>4, <2>13
    <3>6. Packed(f, b, q.blocks, n, q.size) => Packed(f, b - 1, a2, n, q.size - 1)
      BY <2>6, <2>13, <3>4, <3>5, PackedShorter
    <3>7. Held(f, b - 1, a2, n, q.size - 1, q.heap - 1)
      <4>1. q.blocks[b].cell # << >>
        BY <2>5
      <4>2. Held(f, b, q.blocks, n, q.size, q.heap)
        BY <2>1 DEF n
      <4> HIDE DEF h, o
      <4>3. QED
        BY <2>6, <3>2, <3>3, <3>4, <3>6, <4>1, <4>2, HeldDropped
    <3>8. q.heap - 1 \in Int
      BY <2>6
    <3>9. Left(s, n)
      BY <2>1, <2>6, <2>10, <3>1, <3>3, <3>7, <3>8, PutLeft
    <3>10. QED
      BY <2>7, <2>13, <3>9, DoneQ DEF n, s
  <2>14. CASE ~(o > 0) /\ ~(b > f)
    <3>1. f = b /\ f .. b = {b}
      BY <2>6, <2>14
    <3>2. AllBuffered(f, b, q.blocks) /\ Buffered(f, b, q.blocks) = {b}
      BY <2>5, <3>1 DEF AllBuffered, Buffered
    <3>3. q.heap = 1
      BY <2>1, <3>2, FS_Singleton DEF Held
    <3>4. q.size = 1
      <4>1. Packed(f, b, q.blocks, n, q.size)
        BY <2>1, <3>2 DEF Held
      <4>2. q.size = h.back - h.front /\ h.front <= h.back
        BY <2>6, <3>1, <4>1 DEF Packed, Width
      <4>3. QED
        BY <2>1, <2>3, <2>4, <2>14, <4>2
    <3>5. p.size = 0 /\ p.heap = 1 /\ Array(p.blocks, n)
      BY <2>9, <2>11, <3>3, <3>4
    <3>6. Left(Renewed(p, Block(n \div 2)), n)
      <4>1. n \div 2 \in Nat
        BY <2>6
      <4>2. Block(n \div 2) \notin NullBlocks
        BY <4>1, BlockHeader, NullHeaders
      <4>3. QED
        BY <2>11, <3>5, <4>1, <4>2, RenewedLeft DEF n
    <3>7. ASSUME NEW left \in NullBlocks
          PROVE  Left([Renewed(p, left) EXCEPT !.heap = @ - 1], n)
      <4>1. Renewed(p, left).heap = 1
        <5>1. left \in Headers(n)
          BY NullHeaders DEF n
        <5>2. QED
          BY <2>11, <3>5, <5>1, RenewedParts DEF n
      <4>2. [Renewed(p, left) EXCEPT !.heap = @ - 1] = [Renewed(p, left) EXCEPT !.heap = 0]
        BY <4>1
      <4>3. QED
        BY <2>11, <3>5, <4>2, RenewedLeft DEF n
    <3>8. \/ r = Done(Renewed(p, Block(n \div 2)))
          \/ \E left \in NullBlocks : r \in MayFail("malloc", [Renewed(p, left) EXCEPT !.heap = @ - 1])
      BY <2>7, <2>14
    <3>9. CASE r = Done(Renewed(p, Block(n \div 2)))
      BY <3>6, <3>9, DoneQ DEF n
    <3>10. CASE \E left \in NullBlocks : r \in MayFail("malloc", [Renewed(p, left) EXCEPT !.heap = @ - 1])
      <4>1. PICK left \in NullBlocks : r \in MayFail("malloc", [Renewed(p, left) EXCEPT !.heap = @ - 1])
        BY <3>10
      <4> DEFINE s == [Renewed(p, left) EXCEPT !.heap = @ - 1]
      <4>2. Left(s, n)
        BY <3>7
      <4> HIDE DEF s
      <4>3. r.q = s
        BY <4>1, MayFailQ DEF s
      <4>4. QED
        BY <4>2, <4>3 DEF n
    <3>11. QED
      BY <3>8, <3>9, <3>10
  <2>15. QED
    BY <2>12, <2>13, <2>14
<1>3. QED
  BY <1>1, <1>2

(* A pop at the front. *)
LEMMA PoppedFrontLeft ==
  ASSUME NEW q, Sized, Left(q, BlockSize), q.fault \/ q.size # 0, NEW r \in PoppedFront(q)
  PROVE  Left(r.q, BlockSize)
<1> DEFINE n == BlockSize
           f == q.front
           b == q.back
           h == q.blocks[f]
           o == h.front
           p == [q EXCEPT !.blocks[f].cell[o] = NoElem, !.blocks[f].front = o + 1, !.size = @ - 1]
<1>1. CASE q.fault \/ ~Cell(q, f, o)
  <2>1. r = Done(Fault(q))
    BY <1>1 DEF PoppedFront
  <2>2. QED
    BY <2>1, DoneQ, FaultLeft DEF Left
<1>2. CASE ~q.fault /\ Cell(q, f, o)
  <2> DEFINE g == [front |-> o + 1, back |-> h.back, cell |-> [h.cell EXCEPT ![o] = NoElem]]
             a == [q.blocks EXCEPT ![f] = g]
  <2>1. Struct(q) /\ Held(f, b, q.blocks, n, q.size, q.heap) /\ q.size # 0
    BY <1>2 DEF Left
  <2>2. p = Put(q, f, b, q.size - 1, q.heap, a)
    <3>1. p = CellFront(q, f, o, NoElem, o + 1, q.size - 1)
      BY DEF CellFront
    <3>2. f \in DOMAIN q.blocks /\ h \in Headers(n) /\ n \in Nat
      BY <2>1, EndsOf
    <3> HIDE DEF n, o, p
    <3>3. QED
      BY <2>1, <3>1, <3>2, EditFront
  <2>3. o \in DOMAIN h.cell /\ h \in Headers(n) /\ h.back \in Nat /\ o \in Nat /\ o + 1 \in Nat
    BY <1>2, <2>1, EndsOf DEF Cell
  <2>4. o \in 0 .. n - 1
    BY <2>1, <2>3, EndsOf, HeaderParts
  <2>5. /\ g \in Headers(n) /\ g.cell # << >> /\ h.cell # << >>
        /\ g.front = o + 1 /\ g.back = h.back
    <3> HIDE DEF g, h, o, n
    <3>1. g = [front |-> o + 1, back |-> h.back, cell |-> [h.cell EXCEPT ![o] = NoElem]]
      BY DEF g
    <3>2. NoElem \in Value
      BY DEF Value
    <3>3. QED
      BY <2>3, <2>4, <3>1, <3>2, HeaderEdited DEF n
  <2>6. /\ f \in DOMAIN q.blocks /\ Array(q.blocks, n) /\ f \in f .. b
        /\ Ranges(f, b, q.blocks, n) /\ f .. b \subseteq DOMAIN q.blocks
        /\ f \in Int /\ b \in Int /\ f <= b /\ q.size \in Int /\ q.heap \in Int
        /\ n \in Nat /\ n > 0
    BY <2>1, EndsOf
  <2>7. r \in IF o + 1 < n THEN {Done(p)}
              ELSE IF f < b THEN {Done([Dropped(p, f) EXCEPT !.front = f + 1])}
              ELSE {Done([p EXCEPT !.blocks[f] = Block(q.cap \div 2)])}
    BY <1>2 DEF PoppedFront
  <2> HIDE DEF g, n, p
  <2>8. a[f] = g /\ DOMAIN a = DOMAIN q.blocks /\ \A i \in f .. b : i # f => a[i] = q.blocks[i]
    BY <2>6
  <2>9. Array(a, n)
    BY <2>5, <2>6, ArrayExcept
  <2> HIDE DEF a
  <2>10. q.size - 1 \in Int
    BY <2>6
  <2>11. Struct(p) /\ p.size = q.size - 1 /\ p.heap = q.heap /\ p.blocks = a /\ p.front = f
         /\ p.back = b /\ p.fault = q.fault /\ p.cap = q.cap /\ p.live = q.live
    BY <2>1, <2>2, <2>6, <2>10, StructParts, StructOf DEF Put
  <2>12. ASSUME Packed(f, b, q.blocks, n, q.size) PROVE h.front < h.back /\ h.back <= n
    <3>1. h.front <= h.back /\ (h.front < h.back => h.back <= n)
      BY <2>6, <2>12 DEF Packed
    <3>2. h.front < h.back
      <4>1. CASE f = b
        BY <2>1, <2>3, <2>12, <3>1, <4>1 DEF Packed, Width
      <4>2. CASE f # b
        <5>1. f \in f .. b - 1
          BY <2>6, <4>2
        <5>2. h.back >= n
          BY <2>12, <5>1 DEF Packed
        <5>3. QED
          BY <2>3, <2>4, <2>6, <5>2
      <4>3. QED
        BY <4>1, <4>2
    <3>3. QED
      BY <3>1, <3>2
  <2>13. CASE o + 1 < n
    <3>1. ASSUME Packed(f, b, q.blocks, n, q.size) PROVE Packed(f, b, a, n, q.size + (-1))
      <4>1. /\ a[f].front = h.front - (-1) /\ a[f].back = h.back /\ -1 \in Int
            /\ a[f].front <= a[f].back /\ a[f].back <= n
        BY <2>3, <2>5, <2>6, <2>8, <2>12, <3>1
      <4>2. QED
        BY <2>6, <2>8, <3>1, <4>1, PackedFirst
    <3>2. q.size + (-1) = q.size - 1
      BY <2>6
    <3>3. Held(f, b, a, n, q.size - 1, q.heap)
      BY <2>1, <2>5, <2>6, <2>8, <2>9, <3>1, <3>2, HeldEdited
    <3>4. Left(p, n)
      BY <2>11, <3>3 DEF Left
    <3>5. QED
      BY <2>7, <2>13, <3>4, DoneQ DEF n
  <2>14. CASE ~(o + 1 < n) /\ f < b
    <3> DEFINE a2 == [a EXCEPT ![f] = NoBlock]
               s == [Dropped(p, f) EXCEPT !.front = f + 1]
    <3>1. s = Put(q, f + 1, b, q.size - 1, q.heap - 1, a2)
      <4>1. Dropped(p, f) = [p EXCEPT !.blocks = a2, !.heap = q.heap - 1]
        BY <2>11 DEF Dropped
      <4> HIDE DEF a2
      <4>2. Dropped(p, f) = Put(q, f, b, q.size - 1, q.heap - 1, a2)
        BY <2>2, <4>1 DEF Put
      <4>3. QED
        BY <4>2 DEF Put
    <3>2. Array(a2, n)
      BY <2>6, <2>8, <2>9, ArrayExcept
    <3>3. /\ f + 1 \in Int /\ f + 1 <= b /\ f \notin f + 1 .. b /\ f .. b = f + 1 .. b \cup {f}
          /\ \A i \in f + 1 .. b : i \in f .. b /\ i # f
      BY <2>6, <2>14
    <3>4. f + 1 .. b \subseteq DOMAIN a2 /\ \A i \in f + 1 .. b : a2[i] = q.blocks[i]
      BY <2>6, <2>8, <3>3
    <3> HIDE DEF a2, s
    <3>5. h.front = n - 1
      BY <2>3, <2>4, <2>6, <2>14
    <3>6. Packed(f, b, q.blocks, n, q.size) => Packed(f + 1, b, a2, n, q.size - 1)
      BY <2>6, <2>14, <3>4, <3>5, PackedNext
    <3>7. Held(f + 1, b, a2, n, q.size - 1, q.heap - 1)
      BY <2>1, <2>5, <2>6, <3>2, <3>3, <3>4, <3>6, HeldDropped
    <3>8. q.heap - 1 \in Int
      BY <2>6
    <3>9. Left(s, n)
      BY <2>1, <2>6, <2>10, <3>1, <3>3, <3>7, <3>8, PutLeft
    <3>10. QED
      BY <2>7, <2>14, <3>9, DoneQ DEF n, s
  <2>15. CASE ~(o + 1 < n) /\ ~(f < b)
    <3> DEFINE x  == q.cap \div 2
               a2 == [a EXCEPT ![f] = Block(x)]
               s  == [p EXCEPT !.blocks[f] = Block(x)]
    <3>1. f = b /\ f .. b = {f}
      BY <2>6, <2>15
    <3>2. AllBuffered(f, b, q.blocks) /\ Buffered(f, b, q.blocks) = {f}
      BY <2>5, <3>1 DEF AllBuffered, Buffered
    <3>3. q.heap = 1
      BY <2>1, <3>2, FS_Singleton DEF Held
    <3>4. q.size = 1
      <4>1. Packed(f, b, q.blocks, n, q.size)
        BY <2>1, <3>2 DEF Held
      <4>2. q.size = h.back - h.front /\ h.back <= n /\ h.front < h.back
        BY <2>12, <3>1, <4>1 DEF Packed, Width
      <4>3. QED
        BY <2>1, <2>3, <2>4, <2>6, <2>15, <4>2
    <3>5. x \in Nat
      BY <2>1, StructParts
    <3>6. /\ Block(x) \in Headers(n) /\ Block(x).cell # << >>
          /\ Block(x).front = Block(x).back
      BY <3>5, BlockHeader DEF n
    <3>7. Array(a2, n) /\ a2[f] = Block(x) /\ f \in DOMAIN a2
      BY <2>6, <2>8, <2>9, <3>6, ArrayExcept
    <3>8. s = Put(q, f, b, 0, 1, a2)
      <4> HIDE DEF x
      <4>1. s = [p EXCEPT !.blocks = a2]
        BY <2>11
      <4> HIDE DEF a2
      <4>2. QED
        BY <2>2, <3>3, <3>4, <4>1 DEF Put
    <3> HIDE DEF a2, s, x
    <3>9. Held(f, b, a2, n, 0, 1)
      <4>1. Held(f, f, a2, n, 0, IF a2[f].cell = << >> THEN 0 ELSE 1)
        BY <2>6, <3>6, <3>7, HeldOne
      <4>2. QED
        BY <3>1, <3>6, <3>7, <4>1
    <3>10. Left(s, n)
      BY <2>1, <2>6, <3>8, <3>9, PutLeft
    <3>11. QED
      BY <2>7, <2>15, <3>10, DoneQ DEF n, s, x
  <2>16. QED
    BY <2>13, <2>14, <2>15
<1>3. QED
  BY <1>1, <1>2

-----------------------------------------------------------------------------
(* Inside the deque. *)

LEMMA ReadValue ==
  ASSUME NEW q, NEW i, Sized, Array(q.blocks, BlockSize)
  PROVE  Read(q, i) \in Value
<1> DEFINE at == At(q, i)
<1>1. CASE ~Readable(q, i)
  BY <1>1 DEF Read, Value
<1>2. CASE Readable(q, i)
  <2> HIDE DEF at
  <2>1. at[1] \in DOMAIN q.blocks /\ q.blocks[at[1]] # NoBlock /\ at[2] \in DOMAIN q.blocks[at[1]].cell
    BY <1>2 DEF Readable, Cell, at
  <2>2. q.blocks[at[1]] \in Headers(BlockSize)
    BY <2>1, ArrayDomain
  <2>3. q.blocks[at[1]].cell \in [0 .. BlockSize - 1 -> Elems \cup {NoElem}]
        /\ at[2] \in 0 .. BlockSize - 1
    BY <2>1, <2>2, HeaderParts DEF Sized
  <2>4. q.blocks[at[1]].cell[at[2]] \in Value
    BY <2>3 DEF Value
  <2>5. QED
    BY <1>2, <2>4 DEF Read, at
<1>3. QED
  BY <1>1, <1>2

(* The elements change, and nothing else. *)
LEMMA RewrittenLeft ==
  ASSUME NEW q, NEW val, Sized, Left(q, BlockSize),
         q.fault \/ \A i \in DOMAIN val : val[i] \in Value
  PROVE  Left(Rewritten(q, val), BlockSize) /\ Rewritten(q, val).size = q.size
<1> DEFINE n == BlockSize
           f == q.front
           b == q.back
           r == Rewritten(q, val)
<1>1. Struct(q)
  BY DEF Left
<1>2. CASE q.fault \/ \E i \in DOMAIN val : ~Readable(q, i)
  <2>1. r = Fault(q)
    BY <1>2 DEF Rewritten
  <2>2. Fault(q).size = q.size
    BY <1>1, StructParts DEF Fault
  <2>3. QED
    BY <1>1, <2>1, <2>2, FaultLeft
<1>3. CASE ~(q.fault \/ \E i \in DOMAIN val : ~Readable(q, i))
  <2> DEFINE here(k, o) == {i \in DOMAIN val : At(q, i) = << k, o >>}
             cell(k) == [o \in DOMAIN q.blocks[k].cell |->
                           IF here(k, o) = {} THEN q.blocks[k].cell[o]
                           ELSE val[CHOOSE i \in here(k, o) : TRUE]]
             a == [k \in DOMAIN q.blocks |-> IF q.blocks[k] = NoBlock THEN NoBlock
                                             ELSE [q.blocks[k] EXCEPT !.cell = cell(k)]]
  <2>1. Held(f, b, q.blocks, n, q.size, q.heap) /\ Array(q.blocks, n)
    BY <1>3 DEF Left, Held
  <2>2. r = Put(q, f, b, q.size, q.heap, a)
    <3>1. r = [q EXCEPT !.blocks = a]
      BY <1>3 DEF Rewritten
    <3> HIDE DEF a
    <3>2. QED
      BY <1>1, <3>1, StructParts DEF Put
  <2>3. ASSUME NEW k \in DOMAIN q.blocks, q.blocks[k] # NoBlock
        PROVE  /\ a[k] \in Headers(n) /\ a[k].front = q.blocks[k].front /\ a[k].back = q.blocks[k].back
               /\ a[k].cell = << >> <=> q.blocks[k].cell = << >>
    <3> DEFINE h == q.blocks[k]
    <3>1. h \in Headers(n) /\ n \in Nat
      BY <2>1, <2>3, ArrayDomain DEF Sized
    <3>2. /\ h = [front |-> h.front, back |-> h.back, cell |-> h.cell]
          /\ h.front \in Nat /\ h.back \in Nat
      BY <3>1, HeaderParts
    <3>3. h.cell \in [0 .. n - 1 -> Value] \/ h.cell = << >>
      BY <3>1 DEF Headers, Value
    <3>4. /\ cell(k) \in [0 .. n - 1 -> Elems \cup {NoElem}] \cup {<< >>}
          /\ cell(k) = << >> <=> h.cell = << >>
      <4>1. \A o \in DOMAIN h.cell : here(k, o) # {} => val[CHOOSE i \in here(k, o) : TRUE] \in Value
        <5>1. ASSUME NEW o \in DOMAIN h.cell, here(k, o) # {}
              PROVE  val[CHOOSE i \in here(k, o) : TRUE] \in Value
          <6>1. (CHOOSE i \in here(k, o) : TRUE) \in here(k, o)
            BY <5>1
          <6>2. (CHOOSE i \in here(k, o) : TRUE) \in DOMAIN val
            BY <6>1
          <6> HIDE DEF here
          <6>3. QED
            BY <1>3, <6>2
        <5>2. QED
          BY <5>1
      <4>2. CASE h.cell \in [0 .. n - 1 -> Value]
        <5>1. \A o \in 0 .. n - 1 : cell(k)[o] \in Value
          <6> HIDE DEF here
          <6>1. QED
            BY <4>1, <4>2
        <5>2. DOMAIN cell(k) = 0 .. n - 1 /\ cell(k) = [o \in 0 .. n - 1 |-> cell(k)[o]]
          BY <4>2
        <5> HIDE DEF cell
        <5>3. cell(k) \in [0 .. n - 1 -> Value]
          BY <5>1, <5>2
        <5>4. 0 \in 0 .. n - 1 /\ DOMAIN << >> = {}
          BY DEF Sized
        <5>5. cell(k) # << >> /\ h.cell # << >>
          BY <4>2, <5>2, <5>4
        <5>6. QED
          BY <5>3, <5>5 DEF Value
      <4>3. CASE h.cell = << >>
        <5>1. DOMAIN h.cell = {}
          BY <4>3
        <5>2. cell(k) = << >>
          BY <5>1
        <5>3. QED
          BY <4>3, <5>2
      <4>4. QED
        BY <3>3, <4>2, <4>3
    <3>5. a[k] = [front |-> h.front, back |-> h.back, cell |-> cell(k)]
      <4>1. a[k] = [h EXCEPT !.cell = cell(k)]
        BY <2>3
      <4> HIDE DEF cell
      <4>2. QED
        BY <3>2, <4>1
    <3> HIDE DEF a, cell, h
    <3>6. a[k] \in Headers(n)
      BY <3>1, <3>2, <3>4, <3>5, HeaderOf
    <3>7. QED
      BY <3>4, <3>5, <3>6 DEF h
  <2>4. DOMAIN a = DOMAIN q.blocks /\ \A k \in DOMAIN q.blocks : q.blocks[k] = NoBlock => a[k] = NoBlock
    OBVIOUS
  <2>5. a = [k \in DOMAIN q.blocks |-> a[k]]
    OBVIOUS
  <2> HIDE DEF a, n
  <2>6. Array(a, n)
    <3>1. \A k \in DOMAIN q.blocks : a[k] \in Headers(n) \cup {NoBlock}
      BY <2>3, <2>4
    <3>2. PICK m \in Nat : DOMAIN q.blocks = 0 .. m - 1
      BY <2>1 DEF Array
    <3>3. a \in [0 .. m - 1 -> Headers(n) \cup {NoBlock}]
      BY <2>5, <3>1, <3>2
    <3>4. QED
      BY <3>3 DEF Array
  <2>7. Held(f, b, a, n, q.size, q.heap)
    <3>1. \A i \in f .. b : i \in DOMAIN q.blocks /\ q.blocks[i] # NoBlock
      BY <2>1 DEF Held, Window, Sized, n
    <3>2. \A i \in f .. b : /\ a[i] \in Headers(n)
                            /\ a[i].front = q.blocks[i].front /\ a[i].back = q.blocks[i].back
                            /\ a[i].cell = << >> <=> q.blocks[i].cell = << >>
      BY <2>3, <3>1
    <3>3. QED
      BY <2>1, <2>4, <2>6, <3>2, HeldRewritten
  <2>8. Left(r, n)
    <3>1. f \in Int /\ b \in Int /\ q.size \in Int /\ q.heap \in Int
      BY <1>1, StructParts
    <3>2. QED
      BY <1>1, <2>2, <2>7, <3>1, PutLeft
  <2>9. r.size = q.size
    BY <2>2 DEF Put
  <2>10. QED
    BY <2>8, <2>9 DEF n
<1>4. QED
  BY <1>2, <1>3

(* insert_at, from either end. *)
LEMMA InsertedLeft ==
  ASSUME NEW q, Sized, Struct(q), Held(q.front, q.back, q.blocks, BlockSize, q.size, q.heap),
         NEW e \in Value, NEW i, NEW g \in Inserted(q, e, i)
  PROVE  Left(g.q, BlockSize)
<1>1. \A j : Read(q, j) \in Value
  BY ReadValue DEF Held
<1>2. CASE i < q.size \div 2
  <2>1. PICK r \in PushedFront(q, Read(q, 0)) :
          g = Done(Rewritten(r.q, [j \in 1 .. i |-> IF j = i THEN e ELSE Read(r.q, j + 1)]))
    BY <1>2 DEF Inserted
  <2> DEFINE val == [j \in 1 .. i |-> IF j = i THEN e ELSE Read(r.q, j + 1)]
  <2>2. Left(r.q, BlockSize)
    BY <1>1, PushedFrontLeft
  <2>3. r.q.fault \/ \A j : Read(r.q, j) \in Value
    BY <2>2, ReadValue DEF Left, Held
  <2>4. r.q.fault \/ \A j \in DOMAIN val : val[j] \in Value
    BY <2>3
  <2> HIDE DEF val
  <2>5. Left(Rewritten(r.q, val), BlockSize)
    BY <2>2, <2>4, RewrittenLeft
  <2>6. QED
    BY <2>1, <2>5, DoneQ DEF val
<1>3. CASE ~(i < q.size \div 2)
  <2>1. PICK r \in PushedBack(q, Read(q, q.size - 1)) :
          g = Done(Rewritten(r.q, [j \in i .. q.size |-> IF j = i THEN e ELSE Read(r.q, j - 1)]))
    BY <1>3 DEF Inserted
  <2> DEFINE val == [j \in i .. q.size |-> IF j = i THEN e ELSE Read(r.q, j - 1)]
  <2>2. Left(r.q, BlockSize)
    BY <1>1, PushedBackLeft
  <2>3. r.q.fault \/ \A j : Read(r.q, j) \in Value
    BY <2>2, ReadValue DEF Left, Held
  <2>4. r.q.fault \/ \A j \in DOMAIN val : val[j] \in Value
    BY <2>3
  <2> HIDE DEF val
  <2>5. Left(Rewritten(r.q, val), BlockSize)
    BY <2>2, <2>4, RewrittenLeft
  <2>6. QED
    BY <2>1, <2>5, DoneQ DEF val
<1>4. QED
  BY <1>2, <1>3

(* erase, from either end. *)
LEMMA ErasedLeft ==
  ASSUME NEW q, Sized, Struct(q), Held(q.front, q.back, q.blocks, BlockSize, q.size, q.heap),
         q.size # 0, NEW i, NEW g \in Erased(q, i)
  PROVE  Left(g.q, BlockSize)
<1> DEFINE low  == [j \in 0 .. i |-> Read(q, IF j = 0 THEN i ELSE j - 1)]
           high == [j \in i .. q.size - 1 |-> Read(q, IF j = q.size - 1 THEN i ELSE j + 1)]
<1>1. Left(q, BlockSize) /\ \A j : Read(q, j) \in Value
  BY ReadValue DEF Held, Left
<1>2. (\A j \in DOMAIN low : low[j] \in Value) /\ (\A j \in DOMAIN high : high[j] \in Value)
  BY <1>1
<1>3. \/ g \in MayFail("malloc", q)
      \/ g \in PoppedFront(Rewritten(q, low))
      \/ g \in PoppedBack(Rewritten(q, high))
  BY DEF Erased
<1> HIDE DEF low, high
<1>4. /\ Left(Rewritten(q, low), BlockSize) /\ Rewritten(q, low).size = q.size
      /\ Left(Rewritten(q, high), BlockSize) /\ Rewritten(q, high).size = q.size
  BY <1>1, <1>2, RewrittenLeft
<1>5. CASE g \in MayFail("malloc", q)
  BY <1>1, <1>5, MayFailQ
<1>6. CASE g \in PoppedFront(Rewritten(q, low))
  BY <1>4, <1>6, PoppedFrontLeft
<1>7. CASE g \in PoppedBack(Rewritten(q, high))
  BY <1>4, <1>7, PoppedBackLeft
<1>8. QED
  BY <1>3, <1>5, <1>6, <1>7

-----------------------------------------------------------------------------
(* The invariant. *)

LEMMA ProgramSized ==
  ASSUME prog \in Programs
  PROVE  Sized /\ prog.min_cap \in Nat \ {0} /\ prog.elems \subseteq Value
BY ProgramsAssumption DEF Sized, BlockSize, Value

(* What programs push is a value of a cell. *)
LEMMA PushesValues ==
  ASSUME prog \in Programs, NEW how \in {prog.front, prog.back}, NEW e \in Value, NEW step \in Int,
         NEW x \in Pushes(how, e, step)
  PROVE  x \in Value
<1>1. /\ how \in {"any", "count", "none"} /\ prog.elems \subseteq Elems
      /\ how = "count" => 0 .. 2 \subseteq Elems /\ Elems \subseteq Int
  BY ProgramsAssumption
<1>2. CASE how = "any"
  BY <1>1, <1>2 DEF Pushes, Value
<1>3. CASE how = "count"
  <2>1. x = IF e = NoElem THEN 0 ELSE (e + step) % 3
    BY <1>3 DEF Pushes
  <2>2. e # NoElem => e \in Int
    BY <1>1, <1>3 DEF Value
  <2>3. x \in 0 .. 2
    BY <2>1, <2>2
  <2>4. QED
    BY <1>1, <1>3, <2>3 DEF Value
<1>4. CASE how = "none"
  BY <1>4 DEF Pushes
<1>5. QED
  BY <1>1, <1>2, <1>3, <1>4

(* What init leaves. *)
LEMMA FreshLeft ==
  ASSUME NEW cap \in Nat \ {0}, Sized
  PROVE  Left(Fresh(cap), BlockSize)
<1> DEFINE c == cap \div 2
           a == One(cap, Block(c))
           r == Fresh(cap)
<1>1. c \in Nat /\ c \in 0 .. cap - 1
  OBVIOUS
<1>2. /\ Block(c) \in Headers(BlockSize) /\ Block(c).cell # << >> /\ Block(c).front = Block(c).back
  BY <1>1, BlockHeader
<1>3. a \in [0 .. cap - 1 -> Headers(BlockSize) \cup {NoBlock}] /\ a[c] = Block(c) /\ c \in DOMAIN a
  BY <1>1, <1>2 DEF One
<1>4. r = [live |-> TRUE, fault |-> FALSE, cap |-> cap, front |-> c, back |-> c,
           size |-> 0, heap |-> 1, blocks |-> a]
  BY DEF Fresh
<1> HIDE DEF a, c
<1>5. Array(a, BlockSize)
  BY <1>3 DEF Array
<1>6. Held(c, c, a, BlockSize, 0, 1)
  <2>1. c \in Int
    BY <1>1
  <2>2. Held(c, c, a, BlockSize, 0, IF a[c].cell = << >> THEN 0 ELSE 1)
    BY <1>2, <1>3, <1>5, <2>1, HeldOne
  <2>3. QED
    BY <1>2, <1>3, <2>2
<1>7. c \in Int /\ TRUE \in BOOLEAN /\ FALSE \in BOOLEAN /\ 0 \in Int /\ 1 \in Int
  BY <1>1
<1>8. Struct(r)
  BY <1>4, <1>7 DEF Struct
<1>9. QED
  BY <1>4, <1>6, <1>8 DEF Left

(* A freed deque is out of use. *)
LEMMA FreedDead == ~Freed.live
BY DEF Freed

\* One deque may change, as long as what it becomes is right.
LEMMA ReplyShapes ==
  ASSUME Shapes, NEW d \in Deques, NEW answers,
         \A r \in answers : r.q.live => Left(r.q, BlockSize), Reply(d, answers)
  PROVE  Shapes'
<1>1. PICK r \in answers : dq' = [dq EXCEPT ![d] = r.q] /\ prog' = prog
  BY DEF Reply
<1>2. BlockSize' = BlockSize
  BY <1>1 DEF BlockSize
<1>3. DOMAIN dq = Deques /\ dq = [c \in Deques |-> dq[c]]
  BY DEF Shapes
<1>4. dq'[d] = r.q /\ \A c \in Deques : c # d => dq'[c] = dq[c]
  BY <1>1, <1>3
<1>5. dq' = [c \in Deques |-> dq'[c]]
  BY <1>1, <1>3
<1>6. \A c \in Deques : dq'[c].live => Left(dq'[c], BlockSize)
  BY <1>4 DEF Shapes
<1>7. QED
  BY <1>1, <1>2, <1>5, <1>6 DEF Shapes

(* A call that is refused changes no deque. *)
LEMMA RefuseShapes ==
  ASSUME Shapes, NEW code, Refuse(code)
  PROVE  Shapes'
BY DEF Shapes, Refuse, BlockSize

\* A deque that can be used is held.
LEMMA UsableHeld ==
  ASSUME Shapes, NEW d \in Deques, Usable(d)
  PROVE  /\ Sized /\ Struct(dq[d]) /\ Left(dq[d], BlockSize)
         /\ Held(dq[d].front, dq[d].back, dq[d].blocks, BlockSize, dq[d].size, dq[d].heap)
         /\ \A i : Read(dq[d], i) \in Value
<1>1. Sized
  BY ProgramSized DEF Shapes
<1>2. Left(dq[d], BlockSize) /\ ~dq[d].fault
  BY DEF Shapes, Usable
<1>3. Struct(dq[d]) /\ Held(dq[d].front, dq[d].back, dq[d].blocks, BlockSize, dq[d].size, dq[d].heap)
  BY <1>2 DEF Left
<1>4. \A i : Read(dq[d], i) \in Value
  BY <1>1, <1>3, ReadValue DEF Held
<1>5. QED
  BY <1>1, <1>2, <1>3, <1>4

(* Every operation leaves deques that are right. *)
LEMMA PushBackShapes ==
  ASSUME Shapes, NEW d \in Deques, PushBack(d)
  PROVE  Shapes'
<1>1. PICK e \in Pushes(prog.back, Read(dq[d], dq[d].size - 1), 1) : Reply(d, PushedBack(dq[d], e))
  BY DEF PushBack
<1>2. Usable(d) /\ prog \in Programs /\ 1 \in Int
  BY DEF PushBack, Shapes
<1>3. e \in Value
  BY <1>1, <1>2, UsableHeld, PushesValues
<1>4. \A r \in PushedBack(dq[d], e) : Left(r.q, BlockSize)
  BY <1>2, <1>3, UsableHeld, PushedBackLeft
<1>5. QED
  BY <1>1, <1>4, ReplyShapes

(* The call of push_front. *)
LEMMA PushFrontShapes ==
  ASSUME Shapes, NEW d \in Deques, PushFront(d)
  PROVE  Shapes'
<1>1. PICK e \in Pushes(prog.front, Read(dq[d], 0), 2) : Reply(d, PushedFront(dq[d], e))
  BY DEF PushFront
<1>2. Usable(d) /\ prog \in Programs /\ 2 \in Int
  BY DEF PushFront, Shapes
<1>3. e \in Value
  BY <1>1, <1>2, UsableHeld, PushesValues
<1>4. \A r \in PushedFront(dq[d], e) : Left(r.q, BlockSize)
  BY <1>2, <1>3, UsableHeld, PushedFrontLeft
<1>5. QED
  BY <1>1, <1>4, ReplyShapes

(* The calls of pop_back and pop_front. *)
LEMMA PopsShapes ==
  ASSUME Shapes, NEW d \in Deques, PopBack(d) \/ PopFront(d)
  PROVE  Shapes'
<1>1. Usable(d)
  BY DEF PopBack, PopFront
<1>2. /\ dq[d].size = 0 => Refuse("CS_EMPTY")
      /\ dq[d].size # 0 => \/ Reply(d, PoppedBack(dq[d]))
                           \/ Reply(d, PoppedFront(dq[d]))
  BY DEF PopBack, PopFront
<1>3. CASE dq[d].size = 0
  BY <1>2, <1>3, RefuseShapes
<1>4. CASE dq[d].size # 0
  <2>1. \A r \in PoppedBack(dq[d]) : Left(r.q, BlockSize)
    BY <1>1, <1>4, UsableHeld, PoppedBackLeft
  <2>2. \A r \in PoppedFront(dq[d]) : Left(r.q, BlockSize)
    BY <1>1, <1>4, UsableHeld, PoppedFrontLeft
  <2>3. QED
    BY <1>2, <1>4, <2>1, <2>2, ReplyShapes
<1>5. QED
  BY <1>3, <1>4

(* The call of insert_at. *)
LEMMA InsertShapes ==
  ASSUME Shapes, NEW d \in Deques, NEW i, NEW e \in Value, InsertAtIndex(d, i, e)
  PROVE  Shapes'
<1> DEFINE q == dq[d]
<1>1. Usable(d)
  BY DEF InsertAtIndex
<1>2. \/ Refuse("CS_POS")
      \/ Reply(d, PushedFront(q, e))
      \/ Reply(d, PushedBack(q, e))
      \/ Reply(d, Inserted(q, e, i))
  BY DEF InsertAtIndex
<1>3. CASE Refuse("CS_POS")
  BY <1>3, RefuseShapes
<1>4. CASE Reply(d, PushedFront(q, e))
  <2>1. \A r \in PushedFront(q, e) : Left(r.q, BlockSize)
    BY <1>1, UsableHeld, PushedFrontLeft
  <2>2. QED
    BY <1>4, <2>1, ReplyShapes
<1>5. CASE Reply(d, PushedBack(q, e))
  <2>1. \A r \in PushedBack(q, e) : Left(r.q, BlockSize)
    BY <1>1, UsableHeld, PushedBackLeft
  <2>2. QED
    BY <1>5, <2>1, ReplyShapes
<1>6. CASE Reply(d, Inserted(q, e, i))
  <2>1. \A r \in Inserted(q, e, i) : Left(r.q, BlockSize)
    BY <1>1, UsableHeld, InsertedLeft
  <2>2. QED
    BY <1>6, <2>1, ReplyShapes
<1>7. QED
  BY <1>2, <1>3, <1>4, <1>5, <1>6

(* The call of erase. *)
LEMMA EraseShapes ==
  ASSUME Shapes, NEW d \in Deques, NEW i, EraseIndex(d, i)
  PROVE  Shapes'
<1> DEFINE q == dq[d]
<1>1. Usable(d)
  BY DEF EraseIndex
<1>2. \/ Refuse("CS_POS")
      \/ i \in 0 .. q.size - 1 /\ \/ Reply(d, PoppedFront(q))
                                  \/ Reply(d, PoppedBack(q))
                                  \/ Reply(d, Erased(q, i))
  BY DEF EraseIndex
<1>3. CASE Refuse("CS_POS")
  BY <1>3, RefuseShapes
<1>4. CASE i \in 0 .. q.size - 1
  <2>1. q.size # 0
    BY <1>1, <1>4, UsableHeld, StructParts
  <2>2. /\ \A r \in PoppedFront(q) : Left(r.q, BlockSize)
        /\ \A r \in PoppedBack(q) : Left(r.q, BlockSize)
        /\ \A r \in Erased(q, i) : Left(r.q, BlockSize)
    BY <1>1, <2>1, UsableHeld, PoppedFrontLeft, PoppedBackLeft, ErasedLeft
  <2> HIDE DEF q
  <2>3. QED
    BY <1>2, <1>3, <2>2, ReplyShapes
<1>5. QED
  BY <1>2, <1>3, <1>4

(* The call of clear, with the allocation of the block it leaves. *)
LEMMA ClearShapes ==
  ASSUME Shapes, NEW d \in Deques, Clear(d)
  PROVE  Shapes'
<1> DEFINE q == [dq[d] EXCEPT !.size = 0, !.heap = 1]
           fresh == Block(q.cap \div 2)
           kept  == {Done(Renewed(q, fresh))}
           lost  == IF "malloc" \in Fails
                      THEN {Done([Renewed(q, left) EXCEPT !.heap = 0]) : left \in NullBlocks} ELSE {}
<1>1. Usable(d) /\ Reply(d, kept \cup lost)
  BY DEF Clear
<1>2. /\ Sized /\ Struct(dq[d]) /\ Array(dq[d].blocks, BlockSize)
  BY <1>1, UsableHeld DEF Held
<1>3. q = Put(dq[d], dq[d].front, dq[d].back, 0, 1, dq[d].blocks)
  <2>1. ASSUME NEW x, Struct(x), NEW s, NEW h
        PROVE  [x EXCEPT !.size = s, !.heap = h] = Put(x, x.front, x.back, s, h, x.blocks)
    <3> DEFINE y == [x EXCEPT !.size = s]
    <3>1. y = Put(x, x.front, x.back, s, x.heap, x.blocks)
      BY <2>1, StructParts DEF Put
    <3>2. [x EXCEPT !.size = s, !.heap = h] = [y EXCEPT !.heap = h]
      OBVIOUS
    <3> HIDE DEF y
    <3>3. QED
      BY <3>1, <3>2 DEF Put
  <2>2. QED
    BY <1>2, <2>1
<1> HIDE DEF q
<1>4. q.size = 0 /\ q.heap = 1 /\ Array(q.blocks, BlockSize) /\ Struct(q)
  <2>1. q.size = 0 /\ q.heap = 1 /\ q.blocks = dq[d].blocks
    BY <1>3 DEF Put
  <2>2. ASSUME NEW x, Struct(x) PROVE Struct(Put(x, x.front, x.back, 0, 1, x.blocks))
    <3>1. 0 \in Int /\ 1 \in Int
      OBVIOUS
    <3>2. QED
      BY <2>2, <3>1, StructParts, StructOf DEF Put
  <2>3. QED
    BY <1>2, <1>3, <2>1, <2>2
<1>5. \A r \in kept : Left(r.q, BlockSize)
  <2>1. q.cap \div 2 \in Nat
    BY <1>4, StructParts
  <2>2. fresh \notin NullBlocks
    BY <1>2, <2>1, BlockHeader, NullHeaders
  <2>3. Left(Renewed(q, fresh), BlockSize)
    BY <1>2, <1>4, <2>1, <2>2, RenewedLeft
  <2>4. QED
    BY <2>3, DoneQ
<1>6. \A r \in lost : Left(r.q, BlockSize)
  <2>1. ASSUME NEW r \in lost PROVE Left(r.q, BlockSize)
    <3>1. PICK left \in NullBlocks : r = Done([Renewed(q, left) EXCEPT !.heap = 0])
      BY <2>1
    <3>2. Left([Renewed(q, left) EXCEPT !.heap = 0], BlockSize)
      BY <1>2, <1>4, RenewedLeft
    <3>3. QED
      BY <3>1, <3>2, DoneQ
  <2>2. QED
    BY <2>1
<1> HIDE DEF kept, lost
<1>7. QED
  BY <1>1, <1>5, <1>6, ReplyShapes

(* A swap, which leaves the capacities behind. *)
LEMMA SwapShapes ==
  ASSUME Shapes, NEW c \in Deques, NEW d \in Deques, Swap(c, d)
  PROVE  Shapes'
<1> DEFINE p == [dq[d] EXCEPT !.cap = dq[c].cap]
           q == [dq[c] EXCEPT !.cap = dq[d].cap]
<1>1. /\ Usable(c) /\ Usable(d) /\ prog' = prog
      /\ dq' = [dq EXCEPT ![c] = p, ![d] = q]
  BY DEF Swap
<1>2. /\ Struct(dq[c]) /\ Held(dq[c].front, dq[c].back, dq[c].blocks, BlockSize, dq[c].size, dq[c].heap)
      /\ Struct(dq[d]) /\ Held(dq[d].front, dq[d].back, dq[d].blocks, BlockSize, dq[d].size, dq[d].heap)
  BY <1>1, UsableHeld
<1>3. ASSUME NEW x, NEW y, Struct(x), Struct(y),
             Held(x.front, x.back, x.blocks, BlockSize, x.size, x.heap)
      PROVE  Left([x EXCEPT !.cap = y.cap], BlockSize)
  <2> DEFINE z == [x EXCEPT !.cap = y.cap]
  <2>1. z = [live |-> x.live, fault |-> x.fault, cap |-> y.cap, front |-> x.front,
             back |-> x.back, size |-> x.size, heap |-> x.heap, blocks |-> x.blocks]
    BY <1>3, StructParts
  <2>2. Struct(z)
    BY <1>3, <2>1, StructParts DEF Struct
  <2> HIDE DEF z
  <2>3. QED
    BY <1>3, <2>1, <2>2 DEF Left, z
<1>4. Left(p, BlockSize) /\ Left(q, BlockSize)
  BY <1>2, <1>3
<1> HIDE DEF p, q
<1>5. DOMAIN dq = Deques /\ dq = [x \in Deques |-> dq[x]]
  BY DEF Shapes
<1>6. /\ dq' = [x \in Deques |-> dq'[x]]
      /\ \A x \in Deques : dq'[x] = dq[x] \/ dq'[x] = p \/ dq'[x] = q
  BY <1>1, <1>5
<1>7. \A x \in Deques : dq'[x].live => Left(dq'[x], BlockSize)
  BY <1>4, <1>6 DEF Shapes
<1>8. BlockSize' = BlockSize
  BY <1>1 DEF BlockSize
<1>9. QED
  BY <1>1, <1>6, <1>7, <1>8 DEF Shapes

(* free and init. *)
LEMMA LifeShapes ==
  ASSUME Shapes, NEW d \in Deques, Free(d) \/ Start(d)
  PROVE  Shapes'
<1>1. CASE Free(d)
  <2>1. Reply(d, {Done(Freed)})
    BY <1>1 DEF Free
  <2>2. \A r \in {Done(Freed)} : ~r.q.live
    BY DoneQ, FreedDead
  <2>3. QED
    BY <2>1, <2>2, ReplyShapes
<1>2. CASE Start(d)
  <2> DEFINE answers == {Done(Fresh(prog.min_cap))} \cup MayFail("malloc", Freed)
  <2>1. Reply(d, answers)
    BY <1>2 DEF Start
  <2>2. Left(Fresh(prog.min_cap), BlockSize)
    BY ProgramSized, FreshLeft DEF Shapes
  <2>3. ASSUME NEW r \in answers, r.q.live PROVE Left(r.q, BlockSize)
    <3>1. CASE r = Done(Fresh(prog.min_cap))
      BY <2>2, <3>1, DoneQ
    <3>2. CASE r \in MayFail("malloc", Freed)
      BY <2>3, <3>2, MayFailQ, FreedDead
    <3>3. QED
      BY <3>1, <3>2
  <2> HIDE DEF answers
  <2>4. QED
    BY <2>1, <2>3, ReplyShapes
<1>3. QED
  BY <1>1, <1>2

(* Every deque that is live is held, unless it is at fault. *)
THEOREM Invariance == Spec => []Shapes
<1>1. Init => Shapes
  <2> SUFFICES ASSUME Init PROVE Shapes
    OBVIOUS
  <2>1. prog \in Programs /\ dq = [d \in Deques |-> IF d \in prog.deques THEN Fresh(prog.min_cap) ELSE Freed]
    BY DEF Init
  <2>2. Left(Fresh(prog.min_cap), BlockSize)
    BY <2>1, ProgramSized, FreshLeft
  <2>3. \A d \in Deques : dq[d].live => Left(dq[d], BlockSize)
    BY <2>1, <2>2, FreedDead
  <2>4. dq = [d \in Deques |-> dq[d]]
    BY <2>1
  <2>5. QED
    BY <2>1, <2>3, <2>4 DEF Shapes
<1>2. Shapes /\ [Next]_vars => Shapes'
  <2> SUFFICES ASSUME Shapes, [Next]_vars PROVE Shapes'
    OBVIOUS
  <2>1. ASSUME NEW d \in Deques,
               PushBack(d) \/ PushFront(d) \/ PopBack(d) \/ PopFront(d)
               \/ Edit(d) \/ Clear(d) \/ Free(d) \/ Start(d)
        PROVE  Shapes'
    <3>1. CASE PushBack(d)
      BY <3>1, PushBackShapes
    <3>2. CASE PushFront(d)
      BY <3>2, PushFrontShapes
    <3>3. CASE PopBack(d) \/ PopFront(d)
      BY <3>3, PopsShapes
    <3>4. CASE Edit(d)
      <4>1. CASE \E e \in prog.elems, i \in -1 .. dq[d].size + 1 : InsertAtIndex(d, i, e)
        <5>1. PICK e \in prog.elems, i \in -1 .. dq[d].size + 1 : InsertAtIndex(d, i, e)
          BY <4>1
        <5>2. e \in Value
          BY ProgramSized DEF Shapes
        <5>3. QED
          BY <5>1, <5>2, InsertShapes
      <4>2. CASE \E i \in -1 .. dq[d].size : EraseIndex(d, i)
        BY <4>2, EraseShapes
      <4>3. QED
        BY <3>4, <4>1, <4>2 DEF Edit
    <3>5. CASE Clear(d)
      BY <3>5, ClearShapes
    <3>6. CASE Free(d) \/ Start(d)
      BY <3>6, LifeShapes
    <3>7. QED
      BY <2>1, <3>1, <3>2, <3>3, <3>4, <3>5, <3>6
  <2>2. ASSUME NEW c \in Deques, NEW d \in Deques, Swap(c, d) PROVE Shapes'
    BY <2>2, SwapShapes
  <2>3. CASE UNCHANGED vars
    <3>1. prog' = prog /\ dq' = dq
      BY <2>3 DEF vars
    <3>2. QED
      BY <3>1 DEF Shapes, BlockSize
  <2>4. QED
    BY <2>1, <2>2, <2>3 DEF Next
<1>3. QED
  BY <1>1, <1>2, PTL DEF Spec

-----------------------------------------------------------------------------
(* deque_at finds what a walk over the blocks finds. *)

(* Induction, on the set of numbers for which a claim holds. *)
LEMMA Induction ==
  ASSUME NEW S, 0 \in S, \A n \in Nat : n \in S => n + 1 \in S
  PROVE  \A n \in Nat : n \in S
<1> SUFFICES ASSUME Nat \ S # {} PROVE FALSE
  OBVIOUS
<1>1. PICK n \in Nat \ S : \A m \in Nat \ S : ~ (<< m, n >> \in OpToRel(<, Nat))
  BY NatLessThanWellFounded, WFMin, Zenon
<1>2. \A m \in Nat \ S : ~ (m < n)
  BY <1>1 DEF OpToRel
<1>3. n - 1 \in Nat /\ n - 1 \in S
  BY <1>2
<1>4. n \in S
  BY <1>3
<1>5. QED
  BY <1>1, <1>4

(* A product with a positive factor is no smaller than the other one. *)
LEMMA AtLeastOne ==
  ASSUME NEW e \in Int, NEW n \in Nat, e >= 1
  PROVE  e * n \in Int /\ e * n >= n
<1>1. (e - 1) * n >= 0 /\ e * n = (e - 1) * n + n
  OBVIOUS
<1>2. QED
  BY <1>1
(* Quotient and remainder of a number that is written as a multiple and a rest. *)
LEMMA DivMod ==
  ASSUME NEW n \in Nat \ {0}, NEW k \in Nat, NEW o \in 0 .. n - 1
  PROVE  (k * n + o) \div n = k /\ (k * n + o) % n = o
<1> DEFINE x == k * n + o
           d == x \div n
           r == x % n
<1>1. x \in Int /\ d \in Int /\ r \in 0 .. n - 1 /\ x = d * n + r
  OBVIOUS
<1>2. (d - k) * n = o - r /\ (k - d) * n = r - o
  OBVIOUS
<1> HIDE DEF d, r
<1>3. ~(d > k)
  <2> SUFFICES ASSUME d - k >= 1 PROVE FALSE
    BY <1>1
  <2>1. (d - k) * n >= n
    BY <1>1, AtLeastOne
  <2>2. QED
    BY <1>1, <1>2, <2>1
<1>4. ~(k > d)
  <2> SUFFICES ASSUME k - d >= 1 PROVE FALSE
    BY <1>1
  <2>1. (k - d) * n >= n
    BY <1>1, AtLeastOne
  <2>2. QED
    BY <1>1, <1>2, <2>1
<1>5. d = k
  BY <1>1, <1>3, <1>4
<1>6. r = o
  BY <1>1, <1>2, <1>5
<1>7. QED
  BY <1>5, <1>6 DEF d, r

\* The index of the first element of block k.
Ahead(f, a, n, k) == IF k = f THEN 0 ELSE Width(a[f]) + (k - f - 1) * n

LEMMA PackedWidths ==
  ASSUME NEW f, NEW b, NEW a, NEW n, NEW size, Ranges(f, b, a, n), Packed(f, b, a, n, size),
         NEW k \in f .. b
  PROVE  /\ f \in Int /\ b \in Int /\ k \in Int /\ f <= k /\ k <= b /\ n \in Nat /\ n > 0
         /\ a[k].front \in Nat /\ a[k].back \in Nat /\ a[k].front <= a[k].back
         /\ Width(a[k]) \in Nat /\ Ahead(f, a, n, k) \in Nat
         /\ a[k].front < a[k].back => a[k].back <= n
         /\ k # f => a[k].front = 0
         /\ k # f /\ k # b => Width(a[k]) = n
<1>1. f \in Int /\ b \in Int /\ k \in Int /\ f <= k /\ k <= b /\ n \in Nat /\ n > 0 /\ f \in f .. b
  BY DEF Ranges
<1>2. \A i \in f .. b : /\ a[i].front \in Nat /\ a[i].back \in Nat /\ a[i].front <= a[i].back
                        /\ a[i].front < a[i].back => a[i].back <= n
                        /\ Width(a[i]) \in Nat
  BY DEF Ranges, Packed, Width
<1>3. k # f => a[k].front = 0
  <2>1. k # f => k \in f + 1 .. b
    BY <1>1
  <2>2. QED
    BY <2>1 DEF Packed
<1>4. k # f /\ k # b => Width(a[k]) = n
  <2> SUFFICES ASSUME k # f, k # b PROVE Width(a[k]) = n
    OBVIOUS
  <2>1. k \in f .. b - 1
    BY <1>1
  <2>2. a[k].back >= n
    BY <2>1 DEF Packed
  <2>3. QED
    BY <1>1, <1>2, <1>3, <2>2 DEF Width
<1>5. Ahead(f, a, n, k) \in Nat
  <2>1. CASE k = f
    BY <2>1 DEF Ahead
  <2>2. CASE k # f
    <3>1. k - f - 1 \in Nat /\ Width(a[f]) \in Nat
      BY <1>1, <1>2, <2>2
    <3>2. (k - f - 1) * n \in Nat
      BY <1>1, <3>1
    <3>3. QED
      BY <2>2, <3>1, <3>2 DEF Ahead
  <2>3. QED
    BY <2>1, <2>2
<1>6. QED
  BY <1>1, <1>2, <1>3, <1>4, <1>5

(* The blocks follow each other, and fill the deque. *)
LEMMA AheadNext ==
  ASSUME NEW f, NEW b, NEW a, NEW n, NEW size, Ranges(f, b, a, n), Packed(f, b, a, n, size),
         NEW k \in f .. b
  PROVE  /\ k = b => Ahead(f, a, n, k) + Width(a[k]) = size
         /\ k # b => Ahead(f, a, n, k) + Width(a[k]) = Ahead(f, a, n, k + 1)
         /\ Ahead(f, a, n, k) + Width(a[k]) <= size
<1>1. /\ f \in Int /\ b \in Int /\ k \in Int /\ f <= k /\ k <= b /\ n \in Nat /\ n > 0
      /\ Width(a[k]) \in Nat /\ f \in f .. b /\ b \in f .. b
  BY PackedWidths
<1>2. Width(a[f]) \in Nat /\ Width(a[b]) \in Nat /\ a[b].back \in Nat
  BY <1>1, PackedWidths
<1>3. Ahead(f, a, n, b) + Width(a[b]) = size
  <2>1. CASE f = b
    BY <1>2, <2>1 DEF Packed, Ahead
  <2>2. CASE f # b
    <3>1. a[b].front = 0
      BY <1>1, <2>2, PackedWidths
    <3>2. Width(a[b]) = a[b].back
      BY <1>2, <3>1 DEF Width
    <3>3. QED
      BY <2>2, <3>2 DEF Packed, Ahead
  <2>3. QED
    BY <2>1, <2>2
<1>4. ASSUME k # b
      PROVE  /\ Ahead(f, a, n, k) + Width(a[k]) = Ahead(f, a, n, k + 1)
             /\ Ahead(f, a, n, k + 1) <= Ahead(f, a, n, b)
  <2>1. Ahead(f, a, n, k + 1) = Width(a[f]) + (k - f) * n
    <3>1. k + 1 # f /\ (k + 1) - f - 1 = k - f
      BY <1>1
    <3>2. QED
      BY <3>1 DEF Ahead
  <2>2. Ahead(f, a, n, k) + Width(a[k]) = Width(a[f]) + (k - f) * n
    <3>1. CASE k = f
      <4>1. (k - f) * n = 0
        BY <1>1, <3>1
      <4>2. QED
        BY <1>2, <3>1, <4>1 DEF Ahead
    <3>2. CASE k # f
      <4>1. Width(a[k]) = n
        BY <1>4, <3>2, PackedWidths
      <4>2. (k - f - 1) * n \in Int /\ ((k - f - 1) + 1) * n = (k - f - 1) * n + n
        BY <1>1, OneMore
      <4>3. (k - f - 1) + 1 = k - f
        BY <1>1
      <4>4. QED
        BY <1>1, <1>2, <3>2, <4>1, <4>2, <4>3 DEF Ahead
    <3>3. QED
      BY <3>1, <3>2
  <2>3. Ahead(f, a, n, k + 1) <= Ahead(f, a, n, b)
    <3>1. b # f /\ b - k - 1 \in Nat
      BY <1>1, <1>4
    <3>2. (b - f - 1) * n = (k - f) * n + (b - k - 1) * n
      BY <1>1
    <3>3. (b - k - 1) * n >= 0 /\ (b - k - 1) * n \in Int /\ (k - f) * n \in Int
      BY <1>1, <3>1
    <3>4. Ahead(f, a, n, b) = Width(a[f]) + (b - f - 1) * n
      BY <3>1 DEF Ahead
    <3>5. QED
      BY <1>2, <2>1, <3>2, <3>3, <3>4
  <2>4. QED
    BY <2>1, <2>2, <2>3
<1>5. Ahead(f, a, n, k) + Width(a[k]) <= size
  <2>1. CASE k = b
    BY <1>1, <1>3, <2>1, PackedWidths
  <2>2. CASE k # b
    <3>1. k + 1 \in f .. b
      BY <1>1, <2>2
    <3>2. Ahead(f, a, n, k + 1) \in Nat /\ Ahead(f, a, n, b) \in Nat
      BY <1>1, <3>1, PackedWidths
    <3>3. QED
      BY <1>2, <1>3, <1>4, <2>2, <3>2
  <2>3. QED
    BY <2>1, <2>2
<1>6. QED
  BY <1>3, <1>4, <1>5

(* Element o of block k. *)
LEMMA ReadBlock ==
  ASSUME NEW q, Sized, Struct(q), Held(q.front, q.back, q.blocks, BlockSize, q.size, q.heap),
         AllBuffered(q.front, q.back, q.blocks), NEW k \in q.front .. q.back,
         NEW o \in 0 .. Width(q.blocks[k]) - 1
  PROVE  Read(q, Ahead(q.front, q.blocks, BlockSize, k) + o)
           = q.blocks[k].cell[q.blocks[k].front + o]
<1> DEFINE f == q.front
           b == q.back
           a == q.blocks
           n == BlockSize
           i == Ahead(f, a, n, k) + o
<1>1. Ranges(f, b, a, n) /\ f .. b \subseteq DOMAIN a /\ Packed(f, b, a, n, q.size) /\ q.size \in Int
      /\ f \in f .. b
  BY EndsOf DEF Held
<1>2. a[k] \in Headers(n) /\ a[k].cell # << >> /\ a[k] # NoBlock /\ k \in DOMAIN a /\ n \in Nat \ {0}
  BY <1>1 DEF Held, Window, AllBuffered, Sized
<1> HIDE DEF f, b, a, n
<1>3. /\ f \in Int /\ k \in Int /\ f <= k /\ n \in Nat /\ n > 0
      /\ a[k].front \in Nat /\ a[k].back \in Nat /\ Width(a[k]) \in Nat /\ Ahead(f, a, n, k) \in Nat
      /\ a[k].front < a[k].back => a[k].back <= n
      /\ k # f => a[k].front = 0
  BY <1>1, PackedWidths DEF f, b
<1>4. Width(a[f]) \in Nat
  BY <1>1, PackedWidths
<1>5. o \in Nat /\ o < Width(a[k]) /\ Width(a[k]) = a[k].back - a[k].front
  BY <1>3 DEF Width, a
<1>6. a[k].front + o \in 0 .. n - 1
  BY <1>3, <1>5
<1>7. a[k].front + o \in DOMAIN a[k].cell
  <2>1. a[k].cell \in [0 .. n - 1 -> Elems \cup {NoElem}]
    BY <1>2 DEF Headers
  <2>2. QED
    BY <1>6, <2>1
<1>8. i \in 0 .. q.size - 1
  <2>1. Ahead(f, a, n, k) + Width(a[k]) <= q.size
    BY <1>1, AheadNext DEF f, b
  <2>2. QED
    BY <1>1, <1>3, <1>5, <2>1
<1>9. At(q, i) = << k, a[k].front + o >>
  <2>1. At(q, i) = IF i < Width(a[f]) THEN << f, a[f].front + i >>
                   ELSE << f + 1 + (i - Width(a[f])) \div n, (i - Width(a[f])) % n >>
    BY DEF At, Width, f, a, n
  <2>2. CASE k = f
    <3>1. i = o
      BY <1>5, <2>2 DEF Ahead
    <3> HIDE DEF i
    <3>2. QED
      BY <1>5, <2>1, <2>2, <3>1
  <2>3. CASE k # f
    <3>1. k - f - 1 \in Nat /\ o \in 0 .. n - 1 /\ a[k].front = 0
      BY <1>3, <1>6, <2>3
    <3>2. (k - f - 1) * n \in Nat
      BY <1>3, <3>1
    <3>3. i = Width(a[f]) + (k - f - 1) * n + o
      BY <2>3 DEF Ahead
    <3>4. i - Width(a[f]) = (k - f - 1) * n + o /\ ~(i < Width(a[f]))
      BY <1>4, <1>5, <3>2, <3>3
    <3>5. ((k - f - 1) * n + o) \div n = k - f - 1 /\ ((k - f - 1) * n + o) % n = o
      BY <1>2, <3>1, DivMod
    <3>6. f + 1 + (k - f - 1) = k /\ a[k].front + o = o
      BY <1>3, <1>5, <3>1
    <3> HIDE DEF i
    <3>7. QED
      BY <2>1, <3>4, <3>5, <3>6
  <2>4. QED
    BY <2>2, <2>3
<1> HIDE DEF i
<1>10. Readable(q, i)
  BY <1>2, <1>7, <1>8, <1>9 DEF Readable, Cell, a
<1>11. Read(q, i) = a[k].cell[a[k].front + o]
  BY <1>9, <1>10 DEF Read, a
<1>12. QED
  BY <1>11 DEF i, f, a, n

Used(block) == [o \in 1 .. block.back - block.front |-> block.cell[block.front + o - 1]]

\* u is what Content computes on its way over the blocks of q.
Walks(u, q) ==
  u = [b \in q.front - 1 .. q.back |->
         IF b < q.front THEN << >> ELSE u[b - 1] \o Used(q.blocks[b])]

(* A sequence that has s in its first places and t in the others. *)
LEMMA Concatenated ==
  ASSUME NEW A, NEW s \in Seq(A), NEW t \in Seq(A), NEW r, NEW m, m = Len(s) + Len(t),
         r = [i \in 1 .. m |-> r[i]],
         \A i \in 1 .. Len(s) : r[i] = s[i],
         \A i \in 1 .. Len(t) : r[Len(s) + i] = t[i]
  PROVE  r = s \o t
<1>1. s \o t = [i \in 1 .. m |-> (s \o t)[i]]
  <2> DEFINE x == s \o t
  <2>1. x \in Seq(A) /\ Len(x) = m
    OBVIOUS
  <2> HIDE DEF x
  <2>2. DOMAIN x = 1 .. m
    BY <2>1
  <2>3. x = [i \in DOMAIN x |-> x[i]]
    BY <2>1
  <2>4. QED
    BY <2>2, <2>3 DEF x
<1>2. ASSUME NEW i \in 1 .. m PROVE r[i] = (s \o t)[i]
  <2>1. CASE i <= Len(s)
    <3>1. i \in 1 .. Len(s)
      BY <2>1
    <3>2. (s \o t)[i] = s[i]
      BY <3>1
    <3>3. QED
      BY <3>1, <3>2
  <2>2. CASE i > Len(s)
    <3>1. i - Len(s) \in 1 .. Len(t) /\ Len(s) + (i - Len(s)) = i
      BY <2>2
    <3>2. (s \o t)[i] = t[i - Len(s)]
      BY <2>2
    <3>3. QED
      BY <3>1, <3>2
  <2>3. QED
    BY <2>1, <2>2
<1>3. QED
  BY <1>1, <1>2

(* The walk that reads by index is one. *)
LEMMA ReadWalks ==
  ASSUME NEW q, Sized, Struct(q), Held(q.front, q.back, q.blocks, BlockSize, q.size, q.heap),
         AllBuffered(q.front, q.back, q.blocks)
  PROVE  LET f == q.front  a == q.blocks  n == BlockSize IN
         Walks([b \in f - 1 .. q.back |->
                  IF b < f THEN << >>
                  ELSE [i \in 1 .. Ahead(f, a, n, b) + Width(a[b]) |-> Read(q, i - 1)]], q)
<1> DEFINE f == q.front
           b == q.back
           a == q.blocks
           n == BlockSize
           upTo(k) == [i \in 1 .. Ahead(f, a, n, k) + Width(a[k]) |-> Read(q, i - 1)]
           v == [k \in f - 1 .. b |-> IF k < f THEN << >> ELSE upTo(k)]
<1>1. Ranges(f, b, a, n) /\ Packed(f, b, a, n, q.size) /\ f \in Int /\ b \in Int /\ f <= b
      /\ Array(a, n)
  BY EndsOf DEF Held
<1>2. \A i : Read(q, i) \in Value
  BY <1>1, ReadValue
<1>3. ASSUME NEW k \in f .. b
      PROVE  /\ Width(a[k]) \in Nat /\ Ahead(f, a, n, k) \in Nat
             /\ Used(a[k]) \in Seq(Value) /\ Len(Used(a[k])) = Width(a[k])
             /\ upTo(k) \in Seq(Value) /\ Len(upTo(k)) = Ahead(f, a, n, k) + Width(a[k])
             /\ \A i \in 1 .. Width(a[k]) : Used(a[k])[i] = Read(q, Ahead(f, a, n, k) + i - 1)
  <2> DEFINE w == Width(a[k])
             h == Ahead(f, a, n, k)
  <2>1. w \in Nat /\ h \in Nat /\ a[k].front \in Nat /\ a[k].back \in Nat
    BY <1>1, PackedWidths
  <2>2. w = a[k].back - a[k].front
    BY DEF Width
  <2>3. \A o \in 0 .. w - 1 : Read(q, h + o) = a[k].cell[a[k].front + o]
    BY ReadBlock
  <2>4. Used(a[k]) = [o \in 1 .. w |-> a[k].cell[a[k].front + o - 1]]
    BY <2>2 DEF Used
  <2> HIDE DEF w, h, f, a, b, n
  <2>5. ASSUME NEW i \in 1 .. w PROVE Used(a[k])[i] = Read(q, h + i - 1)
    <3>1. i - 1 \in 0 .. w - 1 /\ h + (i - 1) = h + i - 1 /\ a[k].front + (i - 1) = a[k].front + i - 1
      BY <2>1
    <3>2. Read(q, h + (i - 1)) = a[k].cell[a[k].front + (i - 1)]
      BY <2>3, <3>1
    <3>3. QED
      BY <2>4, <3>1, <3>2
  <2>6. Used(a[k]) \in Seq(Value) /\ Len(Used(a[k])) = w
    <3>1. \A i \in 1 .. w : Used(a[k])[i] \in Value
      BY <1>2, <2>5
    <3>2. QED
      BY <2>1, <2>4, <3>1
  <2>7. h + w \in Nat
    BY <2>1
  <2>8. upTo(k) \in Seq(Value) /\ Len(upTo(k)) = h + w
    BY <1>2, <2>7 DEF w, h
  <2>9. QED
    BY <2>1, <2>5, <2>6, <2>8 DEF w, h, f, a, b, n
<1>4. ASSUME NEW k \in f .. b
      PROVE  upTo(k) = v[k - 1] \o Used(a[k])
  <2> DEFINE s == v[k - 1]
             t == Used(a[k])
             r == upTo(k)
             h == Ahead(f, a, n, k)
             w == Width(a[k])
  <2>1. s \in Seq(Value) /\ Len(s) = h /\ \A i \in 1 .. h : s[i] = Read(q, i - 1)
    <3>1. CASE k = f
      <4>1. k - 1 \in f - 1 .. b /\ k - 1 < f
        BY <1>1, <3>1
      <4>2. s = << >> /\ h = 0
        BY <3>1, <4>1 DEF Ahead
      <4> HIDE DEF s, h
      <4>3. QED
        BY <4>2
    <3>2. CASE k # f
      <4>1. k - 1 \in f - 1 .. b /\ k - 1 \in f .. b /\ ~(k - 1 < f) /\ k - 1 # b /\ (k - 1) + 1 = k
        BY <1>1, <3>2
      <4>2. s = upTo(k - 1)
        BY <4>1
      <4>3. Ahead(f, a, n, k - 1) + Width(a[k - 1]) = h
        <5> HIDE DEF f, a, b, n
        <5>1. Ahead(f, a, n, k - 1) + Width(a[k - 1]) = Ahead(f, a, n, (k - 1) + 1)
          BY <1>1, <4>1, AheadNext
        <5>2. QED
          BY <4>1, <5>1
      <4>4. upTo(k - 1) \in Seq(Value) /\ Len(upTo(k - 1)) = Ahead(f, a, n, k - 1) + Width(a[k - 1])
        <5> HIDE DEF upTo, f, a, b, n
        <5>1. QED
          BY <1>3, <4>1
      <4>5. upTo(k - 1) = [i \in 1 .. h |-> Read(q, i - 1)]
        BY <4>3
      <4> HIDE DEF s, upTo, h, f, a, b, n
      <4>6. QED
        BY <4>2, <4>3, <4>4, <4>5
    <3>3. QED
      BY <3>1, <3>2
  <2>2. /\ t \in Seq(Value) /\ Len(t) = w /\ w \in Nat /\ h \in Nat
        /\ \A i \in 1 .. w : t[i] = Read(q, h + i - 1)
    BY <1>3
  <2>3. r = [i \in 1 .. h + w |-> Read(q, i - 1)]
    OBVIOUS
  <2> HIDE DEF s, t, r, h, w, f, a, b, n
  <2>4. /\ \A i \in 1 .. Len(s) : r[i] = s[i]
        /\ \A i \in 1 .. Len(t) : r[Len(s) + i] = t[i]
    <3>1. ASSUME NEW i \in 1 .. h PROVE r[i] = s[i]
      <4>1. i \in 1 .. h + w
        BY <2>2
      <4>2. QED
        BY <2>1, <2>3, <4>1
    <3>2. ASSUME NEW i \in 1 .. w PROVE r[h + i] = t[i]
      <4>1. h + i \in 1 .. h + w
        BY <2>2
      <4>2. QED
        BY <2>2, <2>3, <4>1
    <3>3. QED
      BY <2>1, <2>2, <3>1, <3>2
  <2>5. r = [i \in 1 .. h + w |-> r[i]] /\ h + w = Len(s) + Len(t)
    BY <2>1, <2>2, <2>3
  <2>6. r = s \o t
    BY <2>1, <2>2, <2>4, <2>5, Concatenated
  <2>7. QED
    BY <2>6 DEF r, s, t
<1>5. \A k \in f - 1 .. b : v[k] = IF k < f THEN << >> ELSE v[k - 1] \o Used(a[k])
  <2>1. ASSUME NEW k \in f - 1 .. b PROVE v[k] = IF k < f THEN << >> ELSE v[k - 1] \o Used(a[k])
    <3>1. CASE k < f
      BY <3>1
    <3>2. CASE ~(k < f)
      <4>1. k \in f .. b
        BY <1>1, <3>2
      <4>2. v[k] = upTo(k)
        BY <3>2
      <4>3. upTo(k) = v[k - 1] \o Used(a[k])
        BY <1>4, <4>1
      <4> HIDE DEF v, upTo
      <4>4. QED
        BY <3>2, <4>2, <4>3
    <3>3. QED
      BY <3>1, <3>2
  <2>2. QED
    BY <2>1
<1>6. v = [k \in f - 1 .. b |-> v[k]]
  OBVIOUS
<1>7. Walks(v, q)
  <2> HIDE DEF v
  <2>1. v = [k \in f - 1 .. b |-> IF k < f THEN << >> ELSE v[k - 1] \o Used(a[k])]
    BY <1>5, <1>6
  <2>2. QED
    BY <2>1 DEF Walks
<1>8. QED
  BY <1>7

(* There is only one. *)
LEMMA WalksAgree ==
  ASSUME NEW q, q.front \in Int, q.back \in Int, q.front <= q.back,
         NEW u, NEW v, Walks(u, q), Walks(v, q)
  PROVE  u[q.back] = v[q.back]
<1> DEFINE f == q.front
           Claim == {m \in Nat : m <= q.back - f + 1 => u[f - 1 + m] = v[f - 1 + m]}
<1>1. /\ \A k \in f - 1 .. q.back : u[k] = IF k < f THEN << >> ELSE u[k - 1] \o Used(q.blocks[k])
      /\ \A k \in f - 1 .. q.back : v[k] = IF k < f THEN << >> ELSE v[k - 1] \o Used(q.blocks[k])
  BY DEF Walks
<1>2. 0 \in Claim
  <2>1. f - 1 + 0 \in f - 1 .. q.back /\ f - 1 + 0 < f
    OBVIOUS
  <2>2. QED
    BY <1>1, <2>1
<1>3. ASSUME NEW m \in Nat, m \in Claim PROVE m + 1 \in Claim
  <2> SUFFICES ASSUME m + 1 <= q.back - f + 1 PROVE u[f - 1 + (m + 1)] = v[f - 1 + (m + 1)]
    OBVIOUS
  <2> DEFINE k == f - 1 + (m + 1)
  <2>1. k \in f - 1 .. q.back /\ ~(k < f) /\ k - 1 = f - 1 + m
    OBVIOUS
  <2>2. u[f - 1 + m] = v[f - 1 + m]
    BY <1>3
  <2> HIDE DEF k, Claim
  <2>3. u[k] = v[k]
    BY <1>1, <2>1, <2>2
  <2>4. QED
    BY <2>3 DEF k
<1>4. \A m \in Nat : m \in Claim
  <2> HIDE DEF Claim
  <2>1. QED
    BY <1>2, <1>3, Induction
<1>5. q.back - f + 1 \in Nat /\ f - 1 + (q.back - f + 1) = q.back
  OBVIOUS
<1>6. u[f - 1 + (q.back - f + 1)] = v[f - 1 + (q.back - f + 1)]
  BY <1>4, <1>5
<1>7. QED
  BY <1>5, <1>6

(* The walk over the blocks finds what reading by index finds. *)
LEMMA ContentRead ==
  ASSUME NEW q, Sized, Struct(q), Held(q.front, q.back, q.blocks, BlockSize, q.size, q.heap),
         AllBuffered(q.front, q.back, q.blocks)
  PROVE  Content(q) = [i \in 1 .. q.size |-> Read(q, i - 1)]
<1> DEFINE f == q.front
           a == q.blocks
           n == BlockSize
           upTo(k) == [i \in 1 .. Ahead(f, a, n, k) + Width(a[k]) |-> Read(q, i - 1)]
           v == [k \in f - 1 .. q.back |-> IF k < f THEN << >> ELSE upTo(k)]
           u == CHOOSE u : Walks(u, q)
<1>1. Walks(v, q)
  BY ReadWalks
<1>2. Walks(u, q)
  BY <1>1
<1>3. Content(q) = u[q.back]
  BY DEF Content, Walks, Used
<1>4. /\ f \in Int /\ q.back \in Int /\ f <= q.back /\ q.back \in f .. q.back
      /\ Ranges(f, q.back, a, n) /\ Packed(f, q.back, a, n, q.size)
  BY EndsOf DEF Held
<1>5. u[q.back] = v[q.back]
  <2> HIDE DEF u, v
  <2>1. QED
    BY <1>1, <1>2, <1>4, WalksAgree
<1>6. v[q.back] = upTo(q.back)
  BY <1>4
<1>7. Ahead(f, a, n, q.back) + Width(a[q.back]) = q.size
  <2> HIDE DEF f, a, n
  <2>1. QED
    BY <1>4, AheadNext
<1>8. upTo(q.back) = [i \in 1 .. q.size |-> Read(q, i - 1)]
  BY <1>7
<1>9. QED
  BY <1>3, <1>5, <1>6, <1>8

(* deque_at finds by arithmetic what a walk over the blocks finds. *)
THEOREM AtIsRight == Spec => []AtFindsContent
<1>1. Shapes => AtFindsContent
  <2> SUFFICES ASSUME Shapes, NEW d \in Deques, Usable(d), Whole(dq[d])
               PROVE  [i \in 1 .. dq[d].size |-> Read(dq[d], i - 1)] = Content(dq[d])
    BY DEF AtFindsContent
  <2>1. AllBuffered(dq[d].front, dq[d].back, dq[d].blocks)
    BY DEF Whole, AllBuffered
  <2>2. QED
    BY <2>1, UsableHeld, ContentRead
<1>2. QED
  BY <1>1, Invariance, PTL

(* Every buffer allocated and not freed belongs to a block in use. *)
THEOREM NothingLeaks == Spec => []NoLeak
<1>1. Shapes => NoLeak
  <2> SUFFICES ASSUME Shapes, NEW d \in Deques, Usable(d)
               PROVE  dq[d].heap = Cardinality({b \in dq[d].front .. dq[d].back : dq[d].blocks[b].cell # << >>})
    BY DEF NoLeak
  <2>1. QED
    BY UsableHeld DEF Held, Buffered
<1>2. QED
  BY <1>1, Invariance, PTL
====
