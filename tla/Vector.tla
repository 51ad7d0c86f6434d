------------------------------- MODULE Vector -------------------------------
(***************************************************************************)
(* vector.h and vector.c: an array of cap elements of which the first size *)
(* are used.  A push that finds it full doubles it; an erase or a pop      *)
(* divides it by shrink_factor when that leaves it half empty.             *)
(*                                                                         *)
(* Cells behind the used ones are never read and set to NoElem; a write    *)
(* behind the array is lost.  A sort without a comparator goes byte by     *)
(* byte, one step per byte: an element is the number its ElemSize bytes    *)
(* encode, the low byte first.                                             *)
(***************************************************************************)
EXTENDS Integers, Sequences, FiniteSetsExt, Functions, Narrowing

CONSTANTS
  Vectors,  (* the vectors of the program                                  *)
  Attr,     (* Attr[v]: the min_cap, shrink_factor and comp given to init  *)
  Elems,    (* the elements                                                *)
  NoElem,   (* the content of a cell not in use                            *)
  NoVector, (* no vector                                                   *)
  ElemSize, (* attr.size, the bytes of an element                          *)
  Base,     (* the values of a byte                                        *)
  Weight,   (* Weight[k]: what a 1 in byte k stands for                    *)
  Key(_),   (* attr.comp compares the keys of elements                     *)
  AllocFails, (* whether malloc and realloc may fail                       *)
  Reserves, (* the capacities that callers reserve                         *)
  MaxSize   (* bound on the elements of all vectors                        *)

ASSUME VectorAssumption ==
  /\ Attr \in [Vectors -> [min_cap : Nat \ {0}, shrink_factor : Nat \ {0}, comp : BOOLEAN]]
  /\ NoElem \notin Elems /\ NoVector \notin Vectors /\ AllocFails \in BOOLEAN
  /\ ElemSize \in Nat \ {0} /\ Base \in Nat \ {0}
  /\ Weight \in [0 .. ElemSize -> Nat \ {0}] /\ Weight[0] = 1
  /\ \A k \in 0 .. ElemSize - 1 : Weight[k + 1] = Weight[k] * Base
  /\ Elems \subseteq 0 .. Weight[ElemSize] - 1 /\ \A e \in Elems : Key(e) \in Int
  /\ Reserves \subseteq Nat /\ MaxSize \in Nat
  /\ IntMax \in Nat /\ \A r \in Reserves : r <= IntMax
  /\ \A v \in Vectors : Attr[v].min_cap <= IntMax

VARIABLES
  vec,   (* vec[v]: the structure; buf is the array                        *)
  radix, (* the sort in progress: of which vector, which byte is next, src *)
  ret    (* what the last call returned                                    *)

vars == << vec, radix, ret >>

Empty(cap) == [i \in 0 .. cap - 1 |-> NoElem]

Fresh(v) == [live |-> TRUE, attr |-> Attr[v], cap |-> Attr[v].min_cap, size |-> 0,
             buf |-> Empty(Attr[v].min_cap)]

NoRadix == [of |-> NoVector, byte |-> 0, src |-> << >>]

Init == vec = [v \in Vectors |-> Fresh(v)] /\ radix = NoRadix /\ ret = "CS_SUCCESS"

\* The program has one thread: a sort in progress runs on.
Usable(v) == radix = NoRadix /\ vec[v].live

Used(q) == 0 .. q.size - 1

Answer(rc, q) == [rc |-> rc, q |-> q]
Reply(v, answers) ==
  \E r \in answers : vec' = [vec EXCEPT ![v] = r.q] /\ ret' = r.rc /\ UNCHANGED radix
Refuse(code) == ret' = code /\ UNCHANGED << vec, radix >>

-----------------------------------------------------------------------------
(* The array. *)

Resized(q, cap) ==
  [q EXCEPT !.cap = cap,
            !.buf = [i \in 0 .. cap - 1 |-> IF i \in DOMAIN q.buf THEN q.buf[i] ELSE NoElem]]

\* realloc: a failure leaves the array and cap as they were.
Realloc(q, cap) ==
  {Answer("CS_SUCCESS", Resized(q, cap))}
    \cup (IF AllocFails THEN {Answer("CS_MEM", q)} ELSE {})

\* Room for one more element.
Room(q) == IF q.size = q.cap THEN Realloc(q, q.cap * 2) ELSE {Answer("CS_SUCCESS", q)}

\* After a removal: a failure to shrink is not reported.
Shrunk(q) ==
  LET sf == q.attr.shrink_factor  least == q.attr.min_cap
      cap == IF q.cap \div sf < least THEN least ELSE q.cap \div sf
  IN  IF sf > 1 /\ q.size < q.cap \div (sf * 2) /\ q.cap > least
        THEN {Answer("CS_SUCCESS", r.q) : r \in Realloc(q, cap)}
        ELSE {Answer("CS_SUCCESS", q)}

\* e goes in at pos, and the elements from there on move up.
Opened(q, e, pos) ==
  [q EXCEPT !.buf = [i \in DOMAIN @ |-> CASE i = pos -> e
                                          [] i \in pos + 1 .. q.size -> q.buf[i - 1]
                                          [] OTHER -> q.buf[i]],
            !.size = @ + 1]

\* The element at pos goes, and the ones behind it move down.
Closed(q, pos) ==
  [q EXCEPT !.buf = [i \in DOMAIN @ |-> CASE i \in pos .. q.size - 2 -> q.buf[i + 1]
                                          [] i = q.size - 1 -> NoElem
                                          [] OTHER -> q.buf[i]],
            !.size = @ - 1]

-----------------------------------------------------------------------------
(* The operations. *)

Put(q, e, pos) ==
  {IF r.rc = "CS_SUCCESS" THEN Answer("CS_SUCCESS", Opened(r.q, e, pos)) ELSE r : r \in Room(q)}

\* The bounds of the model: MaxSize elements in all vectors together, and no
\* array of more elements than an int counts (see Swap).
Bounded(v) ==
  /\ MapThenSumSet(LAMBDA w : vec[w].size, Vectors) < MaxSize
  /\ vec[v].size = vec[v].cap => vec[v].cap * 2 <= IntMax

PushBack(v, e) ==
  Usable(v) /\ Bounded(v) /\ Reply(v, Put(vec[v], e, vec[v].size))

InsertElem(v, e, pos) ==
  /\ Usable(v) /\ Bounded(v)
  /\ IF pos > vec[v].size THEN Refuse("CS_POS") ELSE Reply(v, Put(vec[v], e, pos))

PopBack(v) ==
  /\ Usable(v)
  /\ IF vec[v].size = 0 THEN Refuse("CS_EMPTY")
     ELSE Reply(v, Shrunk(Closed(vec[v], vec[v].size - 1)))

Erase(v, pos) ==
  /\ Usable(v)
  /\ IF vec[v].size = 0 THEN Refuse("CS_EMPTY")
     ELSE IF pos >= vec[v].size THEN Refuse("CS_POS")
     ELSE Reply(v, Shrunk(Closed(vec[v], pos)))

Replace(v, e, pos) ==
  /\ Usable(v)
  /\ IF vec[v].size = 0 THEN Refuse("CS_EMPTY")
     ELSE IF pos >= vec[v].size THEN Refuse("CS_POS")
     ELSE Reply(v, {Answer("CS_SUCCESS", [vec[v] EXCEPT !.buf[pos] = e])})

Reserve(v, new_cap) ==
  /\ Usable(v)
  /\ IF new_cap = 0 THEN Refuse("CS_SIZE")
     ELSE IF new_cap < vec[v].cap THEN Refuse("CS_SUCCESS")
     ELSE Reply(v, Realloc(vec[v], new_cap))

\* Mutant of ShrinkToFit: an empty vector is left without an array.
ShrinkToZero(v) ==
  /\ Usable(v)
  /\ IF vec[v].size >= vec[v].cap THEN Refuse("CS_SUCCESS")
     ELSE Reply(v, Realloc(vec[v], vec[v].size))

ShrinkToFit(v) ==
  /\ Usable(v)
  /\ IF vec[v].size >= vec[v].cap THEN Refuse("CS_SUCCESS")
     ELSE Reply(v, Realloc(vec[v], IF vec[v].size > 0 THEN vec[v].size ELSE 1))

Clear(v) ==
  Usable(v) /\ Reply(v, {Answer("CS_SUCCESS", [vec[v] EXCEPT !.size = 0, !.buf = Empty(vec[v].cap)])})

\* The size and cap of the first vector wait in ints.
Swap(v, w) ==
  /\ Usable(v) /\ Usable(w) /\ v # w
  /\ vec' = [vec EXCEPT ![v] = vec[w],
                        ![w] = [vec[v] EXCEPT !.size = ThroughInt(@), !.cap = ThroughInt(@)]]
  /\ ret' = "CS_SUCCESS" /\ UNCHANGED radix

Free(v) ==
  Usable(v) /\ Reply(v, {Answer("CS_SUCCESS", [Fresh(v) EXCEPT !.live = FALSE])})

Start(v) ==
  /\ radix = NoRadix /\ ~vec[v].live
  /\ Reply(v, {Answer("CS_SUCCESS", Fresh(v))}
                \cup (IF AllocFails THEN {Answer("CS_MEM", vec[v])} ELSE {}))

-----------------------------------------------------------------------------
(* vector_sort. *)

\* With a comparator, qsort: equal elements may come in any order.
SortByComp(v) ==
  LET q == vec[v] IN
  /\ Usable(v) /\ q.attr.comp /\ q.size > 1
  /\ \E p \in Bijection(Used(q), Used(q)) :
       /\ \A i, j \in Used(q) : i < j => Key(q.buf[p[i]]) <= Key(q.buf[p[j]])
       /\ Reply(v, {Answer("CS_SUCCESS", [q EXCEPT !.buf =
            [i \in DOMAIN @ |-> IF i \in Used(q) THEN q.buf[p[i]] ELSE @[i]]])})

SortSmall(v) == Usable(v) /\ vec[v].size <= 1 /\ Refuse("CS_SUCCESS")

\* Without one, from the low byte to the high one, if there is memory for it.
RadixStart(v) ==
  /\ Usable(v) /\ ~vec[v].attr.comp /\ vec[v].size > 1
  /\ \/ /\ radix' = [of |-> v, byte |-> 0, src |-> [i \in Used(vec[v]) |-> vec[v].buf[i]]]
        /\ UNCHANGED << vec, ret >>
     \/ AllocFails /\ Refuse("CS_SUCCESS")

Byte(e, k) == (e \div Weight[k]) % Base

\* Mutant of CountedPlace: equal bytes are placed from the last one on.
CountedPlaceReversed(src, k, i) ==
  Cardinality({j \in DOMAIN src : Byte(src[j], k) < Byte(src[i], k)})
    + Cardinality({j \in DOMAIN src : Byte(src[j], k) = Byte(src[i], k) /\ j > i})

\* Where a pass over byte k puts element i: the prefix sum of the counts of
\* the smaller bytes, and one further for every equal byte seen before.
CountedPlace(src, k, i) ==
  Cardinality({j \in DOMAIN src : Byte(src[j], k) < Byte(src[i], k)})
    + Cardinality({j \in DOMAIN src : Byte(src[j], k) = Byte(src[i], k) /\ j < i})

RadixPass ==
  LET src == radix.src  k == radix.byte IN
  /\ radix # NoRadix /\ k < ElemSize
  /\ radix' = [radix EXCEPT !.byte = k + 1,
                 !.src = [to \in DOMAIN src |-> src[CHOOSE i \in DOMAIN src : CountedPlace(src, k, i) = to]]]
  /\ UNCHANGED << vec, ret >>

\* The result is copied back if it is not in the array already.
RadixEnd ==
  /\ radix # NoRadix /\ radix.byte = ElemSize
  /\ vec' = [vec EXCEPT ![radix.of].buf =
               [i \in DOMAIN @ |-> IF i \in DOMAIN radix.src THEN radix.src[i] ELSE @[i]]]
  /\ radix' = NoRadix /\ ret' = "CS_SUCCESS"

-----------------------------------------------------------------------------

Edit(v) ==
  \E pos \in 0 .. vec[v].size + 1 :
    Erase(v, pos) \/ \E e \in Elems : InsertElem(v, e, pos) \/ Replace(v, e, pos)

Capacity(v) == ShrinkToFit(v) \/ \E cap \in Reserves : Reserve(v, cap)

Sort(v) == SortByComp(v) \/ SortSmall(v) \/ RadixStart(v)

Next ==
  \/ \E v \in Vectors : \/ PopBack(v) \/ Edit(v) \/ Capacity(v) \/ Sort(v)
                        \/ Clear(v) \/ Free(v) \/ Start(v)
                        \/ \E e \in Elems : PushBack(v, e)
  \/ \E v, w \in Vectors : Swap(v, w)
  \/ RadixPass \/ RadixEnd

Spec == Init /\ [][Next]_vars

-----------------------------------------------------------------------------
(* Correctness. *)

TypeOK ==
  /\ ret \in {"CS_SUCCESS", "CS_MEM", "CS_EMPTY", "CS_POS", "CS_SIZE"}
  /\ \A v \in Vectors :
       /\ vec[v].live \in BOOLEAN /\ vec[v].cap \in Nat /\ vec[v].size \in Nat
       /\ vec[v].attr \in [min_cap : Nat \ {0}, shrink_factor : Nat \ {0}, comp : BOOLEAN]
       /\ vec[v].buf \in [0 .. vec[v].cap - 1 -> Elems \cup {NoElem}]
  /\ radix.of \in Vectors \cup {NoVector} /\ radix.byte \in 0 .. ElemSize

(* The used elements lie in the array, which is never empty: no growth,
   shrinking, reserve or swap, failed or not, has made it too small, and
   doubling its capacity always makes room.  This is for vectors whose capacity
   an int can hold: vector_swap keeps size and cap in ints. *)
CapacityHolds ==
  \A v \in Vectors : /\ vec[v].cap >= 1 /\ vec[v].size <= vec[v].cap
                     /\ \A i \in Used(vec[v]) : vec[v].buf[i] # NoElem

Place(e, by) == IF by = "comp" THEN Key(e) ELSE e

Abs == INSTANCE SequenceSpec WITH
  Objects <- Vectors, Orders <- {"comp", "bytes"}, Key <- Place, Stable <- FALSE,
  Skips <- AllocFails, MayBreak <- FALSE, EmptyCode <- "CS_EMPTY", PosCode <- "CS_POS",
  live <- {v \in Vectors : vec[v].live},
  order <- [v \in Vectors |-> IF vec[v].attr.comp THEN "comp" ELSE "bytes"],
  content <- [v \in Vectors |-> [i \in 1 .. vec[v].size |-> vec[v].buf[i - 1]]]

(* The vectors implement sequences of elements, sorted by the comparator, or
   without one by the number that the bytes of an element encode; a call that
   reports CS_MEM has had no effect.  As for CapacityHolds, their capacity stays
   within INT_MAX. *)
VectorImplements == Abs!Spec

=============================================================================
