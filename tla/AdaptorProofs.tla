--------------------------- MODULE AdaptorProofs ---------------------------
(***************************************************************************)
(* Proofs about the ordered adaptors, for any adaptors, containers and     *)
(* elements, for every size, and with any allocation failing.  First what  *)
(* all adaptors share: the containers keep their types, and init, clear,   *)
(* swap and free keep each container with one adaptor of its type and      *)
(* leave its elements alone or none at all.  Then PriorityQueue: the loops *)
(* of push and pop restore the heap.  Then FlatSet: the binary search      *)
(* closes in on the one place where the element is or belongs, so that the *)
(* elements stay strictly in order.                                        *)
(***************************************************************************)
EXTENDS PriorityQueue, FlatSet, SequenceTheorems, TLAPS

-----------------------------------------------------------------------------
(* The part of the inductive invariants that all adaptors share. *)

Lives == {"free", "live", "raw", "gone", "nobuf", "lost"}

Container == [life : Lives, type : Types \cup {"none"}, s : Seq(Elems), exact : BOOLEAN]

Handle == [type : Types \cup {"none"}, at : Addresses \cup {Null}]

Typed ==
  /\ obj \in [Objects -> Handle]
  /\ mem \in [Addresses -> Container]

\* Only these have elements.
Filled(q) == q.s # << >> => q.life \in {"live", "lost", "nobuf"}

AllFilled == \A c \in Addresses : Filled(mem[c])

\* After undefined behaviour no call goes on.
Over == ret = "undefined" => work = NoWork

\* A call in progress is a call on an adaptor that has a container.
Busy == work # NoWork => work.of \in Objects /\ obj[work.of].at \in Addresses

\* OwnedByType, adaptor by adaptor.
Sole ==
  ret # "undefined" =>
    \A c \in Addresses :
      /\ mem[c].life = "free" => \A o \in Objects : obj[o].at # c
      /\ mem[c].life # "free" =>
           \E o \in Objects : /\ obj[o].at = c /\ obj[o].type = mem[c].type
                             /\ \A p \in Objects : obj[p].at = c => p = o

Shared == Typed /\ AllFilled /\ Over /\ Busy /\ Sole

\* attr.comp tells the sign of a difference; no container is at NULL.
Parameters == (\A e \in Elems : Key(e) \in Int) /\ Null \notin Addresses

-----------------------------------------------------------------------------
(* Sequences. *)

(* What SubSeq yields, stated for the prefixes and suffixes used here. *)
LEMMA PieceFacts ==
  ASSUME NEW S, NEW s \in Seq(S), NEW m \in 1 .. Len(s) + 1, NEW n \in m - 1 .. Len(s)
  PROVE  /\ SubSeq(s, m, n) \in Seq(S)
         /\ Len(SubSeq(s, m, n)) = n - m + 1
         /\ \A k \in 1 .. n - m + 1 : SubSeq(s, m, n)[k] = s[m + k - 1]
<1>1. Len(s) \in Nat
  BY LenProperties
<1>2. m \in Int /\ n \in Int /\ \A i \in m .. n : s[i] \in S
  BY <1>1, ElementOfSeq
<1>3. /\ SubSeq(s, m, n) \in Seq(S)
      /\ Len(SubSeq(s, m, n)) = IF m <= n THEN n - m + 1 ELSE 0
      /\ \A k \in 1 .. n - m + 1 : SubSeq(s, m, n)[k] = s[m + k - 1]
  BY <1>2, SubSeqProperties
<1>4. (IF m <= n THEN n - m + 1 ELSE 0) = n - m + 1
  BY <1>1
<1>5. QED
  BY <1>3, <1>4

(* Front drops the last element. *)
LEMMA FrontFacts ==
  ASSUME NEW S, NEW s \in Seq(S), s # << >>
  PROVE  /\ Front(s) \in Seq(S)
         /\ Len(Front(s)) = Len(s) - 1
         /\ \A k \in 1 .. Len(s) - 1 : Front(s)[k] = s[k]
<1> DEFINE f == SubSeq(s, 1, Len(s) - 1)
<1>1. Len(s) \in Nat \ {0}
  BY EmptySeq
<1>2. 1 \in 1 .. Len(s) + 1 /\ Len(s) - 1 \in 1 - 1 .. Len(s) /\ (Len(s) - 1) - 1 + 1 = Len(s) - 1
  BY <1>1
<1>3. /\ f \in Seq(S) /\ Len(f) = (Len(s) - 1) - 1 + 1
      /\ \A k \in 1 .. (Len(s) - 1) - 1 + 1 : f[k] = s[1 + k - 1]
  BY <1>2, PieceFacts, Zenon
<1>4. \A k \in 1 .. Len(s) - 1 : 1 + k - 1 = k
  OBVIOUS
<1>5. QED
  BY <1>2, <1>3, <1>4 DEF Front

(* InsertAt shifts what is at the place and behind it. *)
LEMMA InsertFacts ==
  ASSUME NEW S, NEW s \in Seq(S), NEW i \in 1 .. Len(s) + 1, NEW e \in S
  PROVE  /\ InsertAt(s, i, e) \in Seq(S)
         /\ Len(InsertAt(s, i, e)) = Len(s) + 1
         /\ \A k \in 1 .. Len(s) + 1 :
              InsertAt(s, i, e)[k] = IF k < i THEN s[k] ELSE IF k = i THEN e ELSE s[k - 1]
<1> DEFINE a  == SubSeq(s, 1, i - 1)
           ae == a \o << e >>
           b  == SubSeq(s, i, Len(s))
<1>1. Len(s) \in Nat /\ i \in Nat \ {0}
  BY LenProperties
<1>2. a \in Seq(S) /\ Len(a) = i - 1 /\ \A k \in 1 .. i - 1 : a[k] = s[k]
  BY <1>1, PieceFacts
<1>3. /\ b \in Seq(S) /\ Len(b) = Len(s) - i + 1
      /\ \A k \in 1 .. Len(s) - i + 1 : b[k] = s[i + k - 1]
  BY <1>1, PieceFacts
<1>4. << e >> \in Seq(S) /\ Len(<< e >>) = 1 /\ << e >>[1] = e
  OBVIOUS
<1> HIDE DEF a, b
<1>5. /\ ae \in Seq(S) /\ Len(ae) = Len(a) + 1
      /\ \A k \in 1 .. Len(a) + 1 : ae[k] = IF k <= Len(a) THEN a[k] ELSE << e >>[k - Len(a)]
  BY <1>2, <1>4, ConcatProperties
<1> HIDE DEF ae
<1>6. /\ ae \o b \in Seq(S) /\ Len(ae \o b) = Len(ae) + Len(b)
      /\ \A k \in 1 .. Len(ae) + Len(b) : (ae \o b)[k] = IF k <= Len(ae) THEN ae[k] ELSE b[k - Len(ae)]
  BY <1>3, <1>5, ConcatProperties
<1>7. Len(ae) = i /\ Len(ae) + Len(b) = Len(s) + 1
  BY <1>1, <1>2, <1>3, <1>5
<1>8. ASSUME NEW k \in 1 .. Len(s) + 1
      PROVE  (ae \o b)[k] = IF k < i THEN s[k] ELSE IF k = i THEN e ELSE s[k - 1]
  <2>1. CASE k < i
    <3>1. k <= Len(a) /\ k <= Len(ae) /\ k \in 1 .. Len(a) + 1 /\ k \in 1 .. Len(ae) + Len(b)
      BY <2>1, <1>1, <1>2, <1>7
    <3>2. QED
      BY <2>1, <3>1, <1>1, <1>2, <1>5, <1>6
  <2>2. CASE k = i
    <3>1. k - Len(a) = 1 /\ ~(k <= Len(a)) /\ k \in 1 .. Len(a) + 1
      BY <2>2, <1>1, <1>2
    <3>2. QED
      BY <2>2, <3>1, <1>4, <1>5, <1>6, <1>7
  <2>3. CASE k > i
    <3>1. k - i \in 1 .. Len(s) - i + 1 /\ i + (k - i) - 1 = k - 1 /\ ~(k <= i) /\ k # i
      BY <2>3, <1>1
    <3>2. (ae \o b)[k] = b[k - i] /\ b[k - i] = s[k - 1]
      BY <3>1, <1>3, <1>6, <1>7
    <3>3. QED
      BY <3>1, <3>2, <1>1
  <2>4. k < i \/ k = i \/ k > i
    BY <1>1
  <2>5. QED
    BY <2>1, <2>2, <2>3, <2>4, Zenon
<1>9. QED
  BY <1>6, <1>7, <1>8 DEF InsertAt, a, b, ae

(* RemoveAt shifts what is behind the place. *)
LEMMA RemoveFacts ==
  ASSUME NEW S, NEW s \in Seq(S), NEW i \in 1 .. Len(s)
  PROVE  /\ RemoveAt(s, i) \in Seq(S)
         /\ Len(RemoveAt(s, i)) = Len(s) - 1
         /\ \A k \in 1 .. Len(s) - 1 : RemoveAt(s, i)[k] = IF k < i THEN s[k] ELSE s[k + 1]
<1> DEFINE a == SubSeq(s, 1, i - 1)
           b == SubSeq(s, i + 1, Len(s))
<1>1. Len(s) \in Nat /\ i \in Nat \ {0}
  BY LenProperties
<1>2. a \in Seq(S) /\ Len(a) = i - 1 /\ \A k \in 1 .. i - 1 : a[k] = s[k]
  BY <1>1, PieceFacts
<1>3. /\ b \in Seq(S) /\ Len(b) = Len(s) - i
      /\ \A k \in 1 .. Len(s) - i : b[k] = s[i + k]
  BY <1>1, PieceFacts
<1> HIDE DEF a, b
<1>4. /\ a \o b \in Seq(S) /\ Len(a \o b) = Len(a) + Len(b)
      /\ \A k \in 1 .. Len(a) + Len(b) : (a \o b)[k] = IF k <= Len(a) THEN a[k] ELSE b[k - Len(a)]
  BY <1>2, <1>3, ConcatProperties
<1>5. Len(a) + Len(b) = Len(s) - 1
  BY <1>1, <1>2, <1>3
<1>6. ASSUME NEW k \in 1 .. Len(s) - 1
      PROVE  (a \o b)[k] = IF k < i THEN s[k] ELSE s[k + 1]
  <2>1. CASE k < i
    <3>1. k <= Len(a) /\ k \in 1 .. Len(a) + Len(b) /\ k \in 1 .. i - 1
      BY <2>1, <1>1, <1>2, <1>5
    <3>2. QED
      BY <2>1, <3>1, <1>2, <1>4
  <2>2. CASE k >= i
    <3>1. /\ k - (i - 1) \in 1 .. Len(s) - i /\ i + (k - (i - 1)) = k + 1
          /\ ~(k <= i - 1) /\ ~(k < i)
      BY <2>2, <1>1
    <3>2. (a \o b)[k] = b[k - (i - 1)] /\ b[k - (i - 1)] = s[k + 1]
      BY <3>1, <1>2, <1>3, <1>4, <1>5
    <3>3. QED
      BY <3>1, <3>2
  <2>3. k < i \/ k >= i
    BY <1>1
  <2>4. QED
    BY <2>1, <2>2, <2>3, Zenon
<1>7. QED
  BY <1>4, <1>5, <1>6 DEF RemoveAt, a, b

-----------------------------------------------------------------------------
(* The answers of the containers. *)

\* An answer that leaves a container of the same type, if it is defined.
Sound(q, r) ==
  /\ r.q \in Container /\ Filled(r.q)
  /\ r.rc # "undefined" => r.q.life # "free" /\ r.q.type = q.type

\* A container that is in use.
Used(q) == q \in Container /\ Filled(q) /\ q.life # "free"

(* An answer that keeps the type, and with the elements the life too. *)
LEMMA SoundAnswer ==
  ASSUME NEW q, Used(q), NEW t \in Seq(Elems), NEW l \in Lives \ {"free"}, NEW x \in BOOLEAN,
         t # << >> => l \in {"live", "lost", "nobuf"}, NEW rc
  PROVE  Sound(q, Answer(rc, [q EXCEPT !.s = t, !.life = l, !.exact = x]))
BY DEF Sound, Used, Answer, Container, Filled, Lives

(* A deque with a block that has no buffer. *)
LEMMA NoBufferSound ==
  ASSUME NEW q, Used(q), q.life = "nobuf", NEW t \in Seq(Elems), NEW r \in NoBuffer(q, t)
  PROVE  /\ Sound(q, r) /\ (r.q.exact => q.exact /\ r.q.s = q.s)
         /\ IF r.rc = "CS_SUCCESS" THEN r.q.s = t /\ ~r.q.exact ELSE r.q.s = q.s
<1>1. \/ r = Answer("undefined", q) \/ r = Answer("CS_MEM", q)
      \/ r = Done([q EXCEPT !.s = t, !.exact = FALSE])
      \/ r = Answer("CS_MEM", [q EXCEPT !.life = "lost"])
  BY DEF NoBuffer, Undefined, MayFail
<1>2. CASE r = Answer("undefined", q) \/ r = Answer("CS_MEM", q)
  BY <1>2 DEF Sound, Used, Answer
<1>3. CASE r = Done([q EXCEPT !.s = t, !.exact = FALSE])
  BY <1>3 DEF Sound, Used, Answer, Done, Container, Filled
<1>4. CASE r = Answer("CS_MEM", [q EXCEPT !.life = "lost"])
  BY <1>4 DEF Sound, Used, Answer, Container, Filled, Lives
<1>5. QED
  BY <1>1, <1>2, <1>3, <1>4

(* push_back appends the element, or leaves the elements alone. *)
LEMMA PushBackSound ==
  ASSUME NEW q, Used(q), NEW e \in Elems, NEW r \in PushBack(q, e)
  PROVE  /\ Sound(q, r) /\ (r.q.exact => q.exact)
         /\ IF r.rc = "CS_SUCCESS" THEN r.q.s = Append(q.s, e) ELSE r.q.s = q.s
<1>1. Append(q.s, e) \in Seq(Elems)
  BY DEF Used, Container
<1>2. CASE q.life = "live"
  BY <1>1, <1>2 DEF PushBack, Sound, Used, Answer, Done, MayFail, Undefined, Container, Filled, Lives
<1>3. CASE q.life = "raw"
  BY <1>1, <1>3 DEF PushBack, Sound, Used, Answer, Done, MayFail, Undefined, Container, Filled, Lives
<1>4. CASE q.life = "nobuf"
  <2> DEFINE t == Append(q.s, e)
  <2>1. t \in Seq(Elems) /\ r \in NoBuffer(q, t)
    BY <1>1, <1>4 DEF PushBack
  <2> HIDE DEF t
  <2>2. /\ Sound(q, r) /\ (r.q.exact => q.exact /\ r.q.s = q.s)
        /\ IF r.rc = "CS_SUCCESS" THEN r.q.s = t /\ ~r.q.exact ELSE r.q.s = q.s
    BY <1>4, <2>1, NoBufferSound
  <2>3. QED
    BY <2>2 DEF t
<1>5. CASE q.life # "live" /\ q.life # "raw" /\ q.life # "nobuf"
  BY <1>1, <1>5 DEF PushBack, Sound, Used, Answer, Done, MayFail, Undefined, Container, Filled, Lives
<1>6. QED
  BY <1>2, <1>3, <1>4, <1>5

(* pop_back of the only element leaves none. *)
LEMMA PopBackSound ==
  ASSUME NEW q, Used(q), Len(q.s) = 1, NEW r \in PopBack(q)
  PROVE  /\ Sound(q, r) /\ (r.q.exact => q.exact)
         /\ r.q.s = q.s \/ r.q.s = << >>
<1>1. q.s \in Seq(Elems) /\ q.s # << >>
  BY DEF Used, Container
<1>2. Front(q.s) \in Seq(Elems) /\ Len(Front(q.s)) = 0
  BY <1>1, FrontFacts
<1>3. Front(q.s) = << >>
  BY <1>2, EmptySeq
<1>4. q.life \in {"live", "lost", "nobuf"}
  BY <1>1 DEF Used, Filled
<1>5. CASE q.life = "live"
  <2>1. Pop(q, Front(q.s)) = {Done([q EXCEPT !.s = Front(q.s)])}
    BY <1>1, <1>5 DEF Pop
  <2>2. \/ r = Done([q EXCEPT !.s = << >>])
        \/ r = Answer("CS_MEM", [q EXCEPT !.s = << >>, !.life = "nobuf"])
    BY <1>1, <1>3, <2>1 DEF PopBack, MayFail
  <2>3. CASE r = Done([q EXCEPT !.s = << >>])
    BY <1>5, <2>3, EmptySeq DEF Sound, Used, Answer, Done, Container, Filled, Lives
  <2>4. CASE r = Answer("CS_MEM", [q EXCEPT !.s = << >>, !.life = "nobuf"])
    BY <1>5, <2>4, EmptySeq DEF Sound, Used, Answer, Container, Filled, Lives
  <2>5. QED
    BY <2>2, <2>3, <2>4
<1>6. CASE q.life = "lost"
  <2>1. Pop(q, Front(q.s)) = Undefined(q)
    BY <1>1, <1>6 DEF Pop
  <2>2. r = Answer("undefined", q)
    BY <1>1, <1>6, <2>1 DEF PopBack, Undefined
  <2>3. QED
    BY <2>2 DEF Sound, Used, Answer
<1>7. CASE q.life = "nobuf"
  <2> DEFINE t == Front(q.s)
  <2>1. t \in Seq(Elems) /\ r \in NoBuffer(q, t)
    BY <1>1, <1>2, <1>7 DEF PopBack, Pop
  <2> HIDE DEF t
  <2>2. /\ Sound(q, r) /\ (r.q.exact => q.exact /\ r.q.s = q.s)
        /\ IF r.rc = "CS_SUCCESS" THEN r.q.s = t /\ ~r.q.exact ELSE r.q.s = q.s
    BY <1>7, <2>1, NoBufferSound
  <2>3. QED
    BY <1>3, <2>2 DEF t
<1>8. QED
  BY <1>4, <1>5, <1>6, <1>7

(* clear leaves no elements, or the container alone. *)
LEMMA ClearedSound ==
  ASSUME NEW q, Used(q), NEW r \in Cleared(q)
  PROVE  Sound(q, r) /\ (r.q = q \/ r.q.s = << >>)
<1>1. \A l \in Lives \ {"free"}, rc \in {"CS_SUCCESS"} :
        Sound(q, Answer(rc, Made(q.type, l))) /\ Made(q.type, l).s = << >>
  BY EmptySeq DEF Sound, Used, Answer, Made, Container, Filled
<1>2. Sound(q, Answer("CS_SUCCESS", q)) /\ Sound(q, Answer("undefined", q))
  BY DEF Sound, Used, Answer
<1>3. \/ r = Answer("CS_SUCCESS", q) \/ r = Answer("undefined", q)
      \/ \E l \in {"live", "nobuf"} : r = Answer("CS_SUCCESS", Made(q.type, l))
  <2>1. CASE q.life \in {"live", "nobuf"} /\ q.type = "deque"
    <3>1. \E l \in {"live", "nobuf"} : r = Done(Made("deque", l))
      BY <2>1 DEF Cleared
    <3>2. QED
      BY <2>1, <3>1 DEF Done
  <2>2. CASE q.life = "live" /\ q.type = "list" /\ q.s = << >>
    BY <2>2 DEF Cleared, Undefined
  <2>3. CASE q.life = "live" /\ q.type # "deque" /\ ~(q.type = "list" /\ q.s = << >>)
    <3>1. Cleared(q) = {Done(Made(q.type, "live"))}
      BY <2>3 DEF Cleared
    <3>2. QED
      BY <3>1 DEF Done
  <2>4. CASE q.life = "raw"
    BY <2>4 DEF Cleared, Done
  <2>5. CASE q.life \notin {"live", "raw"} /\ ~(q.life = "nobuf" /\ q.type = "deque")
    BY <2>5 DEF Cleared, Undefined
  <2>6. QED
    BY <2>1, <2>2, <2>3, <2>4, <2>5
<1>4. QED
  BY <1>1, <1>2, <1>3 DEF Answer, Lives

-----------------------------------------------------------------------------
(* The steps that all adaptors share. *)

(* At the start no adaptor has a container. *)
LEMMA SharedInit == ASSUME Parameters, Init PROVE Shared
<1>1. << >> \in Seq(Elems)
  BY EmptySeq
<1>2. Typed
  BY <1>1 DEF Init, Typed, NoContainer, Container, Handle, Lives
<1>3. AllFilled /\ Over /\ Busy
  BY DEF Init, AllFilled, Filled, NoContainer, Over, Busy
<1>4. Sole
  BY DEF Init, Sole, NoContainer, Parameters
<1>5. QED
  BY <1>2, <1>3, <1>4 DEF Shared

(* The container of an adaptor that the program may use is in use. *)
LEMMA UsableFacts ==
  ASSUME Shared, NEW o \in Objects, Usable(o)
  PROVE  obj[o].at \in Addresses /\ Used(Here(o)) /\ ret # "undefined" /\ work = NoWork
<1>1. obj[o].at \in Addresses /\ ret # "undefined" /\ work = NoWork
  BY DEF Shared, Typed, Handle, Usable
<1>2. QED
  BY <1>1 DEF Shared, Typed, AllFilled, Used, Here, Sole

(* So is that of an adaptor with a call in progress. *)
LEMMA BusyFacts ==
  ASSUME Shared, work # NoWork
  PROVE  /\ work.of \in Objects /\ obj[work.of].at \in Addresses
         /\ Used(Here(work.of)) /\ ret # "undefined"
<1>1. work.of \in Objects /\ obj[work.of].at \in Addresses /\ ret # "undefined"
  BY DEF Shared, Busy, Over
<1>2. QED
  BY <1>1 DEF Shared, Typed, AllFilled, Used, Here, Sole

(* A container gives way to another one of its type. *)
LEMMA ReplacedStep ==
  ASSUME Shared, NEW o \in Objects, obj[o].at \in Addresses, ret # "undefined",
         NEW q \in Container, Filled(q), mem' = [mem EXCEPT ![obj[o].at] = q], UNCHANGED obj,
         ret' # "undefined" => q.life # "free" /\ q.type = Here(o).type
  PROVE  Typed' /\ AllFilled' /\ Sole'
<1>1. Typed'
  BY DEF Shared, Typed
<1>2. AllFilled'
  BY DEF Shared, Typed, AllFilled, Filled
<1>3. ASSUME ret' # "undefined", NEW c \in Addresses
      PROVE  /\ mem'[c].life = "free" => \A p \in Objects : obj'[p].at # c
             /\ mem'[c].life # "free" =>
                  \E p \in Objects : /\ obj'[p].at = c /\ obj'[p].type = mem'[c].type
                                    /\ \A n \in Objects : obj'[n].at = c => n = p
  <2>1. CASE c # obj[o].at
    <3>1. mem'[c] = mem[c]
      BY <2>1 DEF Shared, Typed
    <3>2. QED
      BY <3>1 DEF Shared, Sole
  <2>2. CASE c = obj[o].at
    <3>1. mem'[c] = q /\ q.life # "free" /\ q.type = mem[c].type
      BY <1>3, <2>2 DEF Shared, Typed, Here
    <3>2. mem[c].life # "free"
      BY <2>2 DEF Shared, Sole
    <3>3. QED
      BY <3>1, <3>2 DEF Shared, Sole
  <2>3. QED
    BY <2>1, <2>2
<1>4. QED
  BY <1>1, <1>2, <1>3 DEF Sole

(* A call returns. *)
LEMMA ReplyStep ==
  ASSUME Shared, NEW o \in Objects, obj[o].at \in Addresses, ret # "undefined",
         NEW r, Sound(Here(o), r), Reply(o, r)
  PROVE  /\ Shared' /\ work' = NoWork
         /\ \A c \in Addresses : mem'[c] = IF c = obj[o].at THEN r.q ELSE mem[c]
<1>1. Typed' /\ AllFilled' /\ Sole'
  BY ReplacedStep DEF Sound, Reply
<1>2. Over' /\ Busy'
  BY DEF Reply, Over, Busy
<1>3. \A c \in Addresses : mem'[c] = IF c = obj[o].at THEN r.q ELSE mem[c]
  BY DEF Shared, Typed, Reply
<1>4. QED
  BY <1>1, <1>2, <1>3 DEF Reply, Shared

(* A call goes on with other local variables. *)
LEMMA ContinueStep ==
  ASSUME Shared, NEW o \in Objects, obj[o].at \in Addresses, ret # "undefined",
         NEW q \in Container, Filled(q), q.life # "free", q.type = Here(o).type,
         NEW locals, locals.of = o, Continue(o, q, locals)
  PROVE  /\ Shared' /\ work' = locals
         /\ \A c \in Addresses : mem'[c] = IF c = obj[o].at THEN q ELSE mem[c]
<1>1. Typed' /\ AllFilled' /\ Sole'
  BY ReplacedStep DEF Continue
<1>2. Over' /\ Busy'
  BY DEF Continue, Over, Busy
<1>3. \A c \in Addresses : mem'[c] = IF c = obj[o].at THEN q ELSE mem[c]
  BY DEF Shared, Typed, Continue
<1>4. QED
  BY <1>1, <1>2, <1>3 DEF Continue, Shared

-----------------------------------------------------------------------------
(* init, clear, swap and free. *)

\* What these do to the containers: they leave one alone or without elements.
Emptying == \A c \in Addresses : mem'[c] = mem[c] \/ mem'[c].s = << >>

(* init takes a free address, or fails and changes no container. *)
LEMMA StartStep ==
  ASSUME Parameters, Shared, NEW o \in Objects, NEW type \in Types, Start(o, type)
  PROVE  Shared' /\ Emptying /\ work = NoWork /\ work' = NoWork
<1>1. work = NoWork /\ work' = NoWork /\ ret # "undefined" /\ obj[o].at = Null
  BY DEF Start
<1>2. Over' /\ Busy'
  BY <1>1 DEF Over, Busy
<1>3. ASSUME NEW c \in Addresses, mem[c].life = "free", NEW l \in Lives \ {"free"},
             obj' = [obj EXCEPT ![o] = [type |-> type, at |-> c]],
             mem' = [mem EXCEPT ![c] = Made(type, l)]
      PROVE  Typed' /\ AllFilled' /\ Sole' /\ Emptying
  <2>1. Made(type, l) \in Container /\ Made(type, l).s = << >>
    BY EmptySeq DEF Made, Container
  <2>2. Typed' /\ AllFilled' /\ Emptying
    BY <1>3, <2>1 DEF Shared, Typed, Handle, AllFilled, Filled, Emptying
  <2>3. \A p \in Objects : obj[p].at # c
    BY <1>1, <1>3 DEF Shared, Sole
  <2>4. \A p \in Objects : p # o => obj'[p] = obj[p]
    BY <1>3 DEF Shared, Typed
  <2>5. obj'[o].at = c /\ obj'[o].type = type
    BY <1>3 DEF Shared, Typed
  <2>6. ASSUME NEW d \in Addresses
        PROVE  /\ mem'[d].life = "free" => \A p \in Objects : obj'[p].at # d
               /\ mem'[d].life # "free" =>
                    \E p \in Objects : /\ obj'[p].at = d /\ obj'[p].type = mem'[d].type
                                      /\ \A n \in Objects : obj'[n].at = d => n = p
    <3>1. CASE d = c
      <4>1. mem'[d] = Made(type, l)
        BY <1>3, <3>1 DEF Shared, Typed
      <4>2. QED
        BY <3>1, <4>1, <2>3, <2>4, <2>5 DEF Made
    <3>2. CASE d # c
      <4>1. mem'[d] = mem[d]
        BY <1>3, <3>2 DEF Shared, Typed
      <4>2. obj[o].at # d /\ obj'[o].at # d
        BY <1>1, <2>5, <3>2 DEF Parameters
      <4>3. QED
        BY <1>1, <4>1, <4>2, <2>4 DEF Shared, Sole
    <3>3. QED
      BY <3>1, <3>2
  <2>7. QED
    BY <2>2, <2>6 DEF Sole
<1>4. ASSUME obj' = [obj EXCEPT ![o].type = type], UNCHANGED mem
      PROVE  Typed' /\ AllFilled' /\ Sole' /\ Emptying
  <2>1. Typed' /\ AllFilled' /\ Emptying
    BY <1>4 DEF Shared, Typed, Handle, AllFilled, Filled, Emptying
  <2>2. \A p \in Objects : obj'[p].at = obj[p].at /\ (p # o => obj'[p] = obj[p])
    BY <1>4 DEF Shared, Typed, Handle
  <2>3. QED
    BY <1>1, <1>4, <2>1, <2>2 DEF Shared, Sole, Parameters
<1>5. \/ \E c \in Addresses, r \in Inits(type) :
            /\ mem[c].life = "free" /\ mem' = [mem EXCEPT ![c] = r.q]
            /\ obj' = [obj EXCEPT ![o] = [type |-> type, at |-> c]]
      \/ obj' = [obj EXCEPT ![o].type = type] /\ UNCHANGED mem
  BY DEF Start
<1>6. \A r \in Inits(type) : \E l \in Lives \ {"free"} : r.q = Made(type, l)
  BY DEF Inits, Answer, Lives
<1>7. QED
  BY <1>1, <1>2, <1>3, <1>4, <1>5, <1>6 DEF Shared

(* clear leaves the container empty or alone. *)
LEMMA ClearStep ==
  ASSUME Shared, NEW o \in Objects, Clear(o)
  PROVE  Shared' /\ Emptying /\ work = NoWork /\ work' = NoWork
<1>1. obj[o].at \in Addresses /\ Used(Here(o)) /\ ret # "undefined" /\ work = NoWork
  BY UsableFacts DEF Clear
<1>2. PICK r \in Cleared(Here(o)) : Reply(o, r)
  BY DEF Clear
<1>3. Sound(Here(o), r) /\ (r.q = Here(o) \/ r.q.s = << >>)
  BY <1>1, <1>2, ClearedSound
<1>4. /\ Shared' /\ work' = NoWork
      /\ \A c \in Addresses : mem'[c] = IF c = obj[o].at THEN r.q ELSE mem[c]
  BY <1>1, <1>2, <1>3, ReplyStep
<1>5. QED
  BY <1>1, <1>3, <1>4 DEF Emptying, Here

(* swap exchanges addresses together with types. *)
LEMMA SwapStep ==
  ASSUME Shared, NEW o \in Objects, NEW p \in Objects, Swap(o, p)
  PROVE  Shared' /\ Emptying /\ work = NoWork /\ work' = NoWork
<1>1. /\ work = NoWork /\ work' = NoWork /\ ret # "undefined" /\ UNCHANGED mem
      /\ obj' = [obj EXCEPT ![o] = obj[p], ![p] = obj[o]]
  BY DEF Swap, Usable
<1>2. Typed' /\ AllFilled' /\ Over' /\ Busy' /\ Emptying
  BY <1>1 DEF Shared, Typed, AllFilled, Filled, Over, Busy, Emptying
<1> DEFINE other(n) == IF n = o THEN p ELSE IF n = p THEN o ELSE n
<1>3. \A n \in Objects : other(n) \in Objects /\ other(other(n)) = n /\ obj'[n] = obj[other(n)]
  BY <1>1 DEF Shared, Typed
<1> HIDE DEF other
<1>4. Sole'
  <2>1. ASSUME NEW c \in Addresses
        PROVE  /\ mem[c].life = "free" => \A n \in Objects : obj'[n].at # c
               /\ mem[c].life # "free" =>
                    \E m \in Objects : /\ obj'[m].at = c /\ obj'[m].type = mem[c].type
                                      /\ \A n \in Objects : obj'[n].at = c => n = m
    <3>1. CASE mem[c].life = "free"
      <4>1. \A n \in Objects : obj[n].at # c
        BY <1>1, <3>1 DEF Shared, Sole
      <4>2. \A n \in Objects : obj'[n].at # c
        BY <1>3, <4>1
      <4>3. QED
        BY <3>1, <4>2
    <3>2. CASE mem[c].life # "free"
      <4>1. PICK m \in Objects : /\ obj[m].at = c /\ obj[m].type = mem[c].type
                                 /\ \A n \in Objects : obj[n].at = c => n = m
        BY <1>1, <3>2 DEF Shared, Sole
      <4>2. other(m) \in Objects /\ obj'[other(m)] = obj[m]
        BY <1>3
      <4>3. \A n \in Objects : obj'[n].at = c => n = other(m)
        BY <1>3, <4>1
      <4>4. QED
        BY <3>2, <4>1, <4>2, <4>3
    <3>3. QED
      BY <3>1, <3>2
  <2>2. mem' = mem
    BY <1>1
  <2>3. QED
    BY <2>1, <2>2 DEF Sole
<1>5. QED
  BY <1>1, <1>2, <1>4 DEF Shared

(* free gives the address back. *)
LEMMA FreeStep ==
  ASSUME Parameters, Shared, NEW o \in Objects, Free(o)
  PROVE  Shared' /\ Emptying /\ work = NoWork /\ work' = NoWork
<1>1. obj[o].at \in Addresses /\ Used(Here(o)) /\ ret # "undefined" /\ work = NoWork /\ work' = NoWork
  BY UsableFacts DEF Free
<1>2. /\ mem' = [mem EXCEPT ![obj[o].at] = NoContainer]
      /\ obj' = [obj EXCEPT ![o].at = Null]
  <2>1. PICK r \in Freed(Here(o)) :
          mem' = [mem EXCEPT ![obj[o].at] = r.q] /\ obj' = [obj EXCEPT ![o].at = Null]
    BY DEF Free
  <2>2. r.q = NoContainer
    BY DEF Freed, Undefined, Done, Answer
  <2>3. QED
    BY <2>1, <2>2
<1>3. NoContainer \in Container /\ NoContainer.s = << >> /\ NoContainer.life = "free"
  BY EmptySeq DEF NoContainer, Container, Lives
<1>4. Typed' /\ AllFilled' /\ Emptying
  BY <1>1, <1>2, <1>3 DEF Shared, Typed, Handle, AllFilled, Filled, Emptying
<1>5. \A p \in Objects : p # o => obj'[p] = obj[p]
  BY <1>2 DEF Shared, Typed
<1>6. obj'[o].at = Null
  BY <1>2 DEF Shared, Typed, Handle
<1>7. Sole'
  <2>1. ASSUME NEW c \in Addresses
        PROVE  /\ mem'[c].life = "free" => \A n \in Objects : obj'[n].at # c
               /\ mem'[c].life # "free" =>
                    \E m \in Objects : /\ obj'[m].at = c /\ obj'[m].type = mem'[c].type
                                      /\ \A n \in Objects : obj'[n].at = c => n = m
    <3>1. obj'[o].at # c
      BY <1>6 DEF Parameters
    <3>2. CASE c = obj[o].at
      <4>1. mem'[c].life = "free"
        BY <1>2, <1>3, <3>2 DEF Shared, Typed
      <4>2. \A n \in Objects : obj[n].at = c => n = o
        BY <1>1, <3>2 DEF Shared, Sole, Used, Here
      <4>3. QED
        BY <3>1, <4>1, <4>2, <1>5
    <3>3. CASE c # obj[o].at
      <4>1. mem'[c] = mem[c]
        BY <1>2, <3>3 DEF Shared, Typed
      <4>2. QED
        BY <1>1, <1>5, <3>1, <3>3, <4>1 DEF Shared, Sole
    <3>4. QED
      BY <3>2, <3>3
  <2>2. QED
    BY <2>1 DEF Sole
<1>8. QED
  BY <1>1, <1>4, <1>7 DEF Shared, Over, Busy

(* All four of them. *)
LEMMA ManageStep ==
  ASSUME Parameters, Shared, Manage
  PROVE  Shared' /\ Emptying /\ work = NoWork /\ work' = NoWork
BY StartStep, ClearStep, SwapStep, FreeStep DEF Manage

(* Sole says what OwnedByType says. *)
LEMMA SoleOwners == ASSUME Shared PROVE OwnedByType
<1>1. ASSUME ret # "undefined", NEW c \in Addresses
      PROVE  IF mem[c].life = "free" THEN Owners(c) = {}
             ELSE \E o \in Objects : Owners(c) = {o} /\ obj[o].type = mem[c].type
  BY <1>1 DEF Shared, Sole, Owners
<1>2. QED
  BY <1>1 DEF OwnedByType

-----------------------------------------------------------------------------
(* The inductive invariant: one element at most is out of order, the one   *)
(* that the loop is moving.                                                *)

Heap(s) == \A k \in 2 .. Len(s) : Key(s[k]) <= Key(s[k \div 2])

\* The children of i are no larger than the parent of i.
Bridged(s, i) == \A k \in 2 .. Len(s) : k \div 2 = i /\ i > 1 => Key(s[k]) <= Key(s[i \div 2])

\* push: only the element at i may be larger than its parent.
Rising(s, i) ==
  Bridged(s, i) /\ \A k \in 2 .. Len(s) : k # i => Key(s[k]) <= Key(s[k \div 2])

\* pop: only the element at i may be smaller than its children.
Sinking(s, i) ==
  Bridged(s, i) /\ \A k \in 2 .. Len(s) : k \div 2 # i => Key(s[k]) <= Key(s[k \div 2])

PushWork == [op : {"push"}, of : Objects, idx : Nat]
PopWork == [op : {"pop"}, of : Objects, idx : Nat, out : Elems]
HeapWork == work \in {NoWork} \cup PushWork \cup PopWork

Moving ==
  work # NoWork =>
    LET q == Here(work.of) IN
    /\ work.idx \in 1 .. Len(q.s)
    /\ q.exact => IF work.op = "push" THEN Rising(q.s, work.idx) ELSE Sinking(q.s, work.idx)

Ordered ==
  \A c \in Addresses :
    mem[c].exact => Heap(mem[c].s) \/ (work # NoWork /\ obj[work.of].at = c)

HeapIInv == Shared /\ HeapWork /\ Moving /\ Ordered

-----------------------------------------------------------------------------
(* The heap as an array. *)

(* The parent of an element comes before it. *)
LEMMA ParentFacts == ASSUME NEW k \in Nat, k >= 2 PROVE k \div 2 \in Nat /\ 1 <= k \div 2 /\ k \div 2 < k
OBVIOUS

(* The children of i are 2i and 2i + 1. *)
LEMMA ChildFacts ==
  ASSUME NEW i \in Nat, i >= 1, NEW k \in Nat
  PROVE  k \div 2 = i <=> k = i * 2 \/ k = i * 2 + 1
OBVIOUS

(* The parent of a place in the heap is a place before it. *)
LEMMA LessElement ==
  ASSUME NEW S, NEW s \in Seq(S), NEW k \in 2 .. Len(s)
  PROVE  k \div 2 \in 1 .. Len(s) /\ k \div 2 < k /\ s[k] \in S /\ s[k \div 2] \in S
<1>1. Len(s) \in Nat
  BY LenProperties
<1>2. k \div 2 \in 1 .. Len(s) /\ k \div 2 < k /\ k \in 1 .. Len(s)
  BY <1>1, ParentFacts
<1>3. QED
  BY <1>2, ElementOfSeq

(* The exchange through temp. *)
LEMMA ExchangeFacts ==
  ASSUME NEW S, NEW s \in Seq(S), NEW k \in 1 .. Len(s), NEW l \in 1 .. Len(s)
  PROVE  /\ Exchanged(s, k, l) \in Seq(S) /\ Len(Exchanged(s, k, l)) = Len(s)
         /\ Exchanged(s, k, l)[k] = s[l] /\ Exchanged(s, k, l)[l] = s[k]
         /\ \A n \in 1 .. Len(s) : n # k /\ n # l => Exchanged(s, k, l)[n] = s[n]
<1> DEFINE t == [s EXCEPT ![k] = s[l]]
<1>1. s[k] \in S /\ s[l] \in S
  BY ElementOfSeq
<1>2. t \in Seq(S) /\ Len(t) = Len(s) /\ t[k] = s[l] /\ \A n \in 1 .. Len(s) : n # k => t[n] = s[n]
  BY <1>1, ExceptSeq
<1> HIDE DEF t
<1>3. /\ [t EXCEPT ![l] = s[k]] \in Seq(S) /\ Len([t EXCEPT ![l] = s[k]]) = Len(t)
      /\ [t EXCEPT ![l] = s[k]][l] = s[k]
      /\ \A n \in 1 .. Len(t) : n # l => [t EXCEPT ![l] = s[k]][n] = t[n]
  BY <1>1, <1>2, ExceptSeq
<1>4. Exchanged(s, k, l) = [t EXCEPT ![l] = s[k]]
  BY DEF Exchanged, t
<1>5. QED
  BY <1>2, <1>3, <1>4

(* push starts with the new element at the end. *)
LEMMA PushStart ==
  ASSUME NEW s \in Seq(Elems), NEW e \in Elems, Heap(s)
  PROVE  Rising(Append(s, e), Len(s) + 1)
<1> DEFINE t == Append(s, e)
<1>1. Len(s) \in Nat /\ Len(t) = Len(s) + 1 /\ \A k \in 1 .. Len(s) : t[k] = s[k]
  BY AppendProperties, LenProperties
<1> HIDE DEF t
<1>2. ASSUME NEW k \in 2 .. Len(t) PROVE k \div 2 # Len(s) + 1
  BY <1>1, ParentFacts
<1>3. ASSUME NEW k \in 2 .. Len(t), k # Len(s) + 1 PROVE Key(t[k]) <= Key(t[k \div 2])
  <2>1. k \in 2 .. Len(s)
    BY <1>1, <1>3
  <2>2. t[k] = s[k] /\ t[k \div 2] = s[k \div 2]
    BY <1>1, <2>1, LessElement
  <2>3. QED
    BY <2>1, <2>2 DEF Heap
<1>4. QED
  BY <1>2, <1>3 DEF Rising, Bridged, t

(* A turn of the loop of push. *)
LEMMA RisingTurn ==
  ASSUME Parameters, NEW s \in Seq(Elems), NEW i \in 2 .. Len(s), Rising(s, i),
         Key(s[i]) > Key(s[i \div 2])
  PROVE  Rising(Exchanged(s, i, i \div 2), i \div 2)
<1> DEFINE p == i \div 2
           t == Exchanged(s, i, p)
<1>1. Len(s) \in Nat /\ p \in 1 .. Len(s) /\ p < i /\ i \in 1 .. Len(s)
  BY LenProperties, LessElement
<1>2. /\ Len(t) = Len(s) /\ t[i] = s[p] /\ t[p] = s[i]
      /\ \A n \in 1 .. Len(s) : n # i /\ n # p => t[n] = s[n]
  BY <1>1, ExchangeFacts
<1>3. \A n \in 1 .. Len(s) : Key(s[n]) \in Int
  BY ElementOfSeq DEF Parameters
<1> HIDE DEF p, t
<1>4. Key(s[i]) > Key(s[p])
  BY DEF p
<1>5. ASSUME NEW k \in 2 .. Len(t), k # p PROVE Key(t[k]) <= Key(t[k \div 2])
  <2>1. k \in 1 .. Len(s) /\ k \div 2 \in 1 .. Len(s) /\ k \div 2 < k
    BY <1>2, LessElement
  <2>2. CASE k = i
    BY <2>2, <1>1, <1>2, <1>3, <1>4 DEF p
  <2>3. CASE k # i /\ k \div 2 = i
    <3>1. t[k] = s[k] /\ t[k \div 2] = s[p]
      BY <1>2, <1>5, <2>1, <2>3
    <3>2. Key(s[k]) <= Key(s[p])
      BY <1>2, <2>3 DEF Rising, Bridged, p
    <3>3. QED
      BY <3>1, <3>2
  <2>4. CASE k # i /\ k \div 2 = p
    <3>1. t[k] = s[k] /\ t[k \div 2] = s[i]
      BY <1>2, <1>5, <2>1, <2>4
    <3>2. Key(s[k]) <= Key(s[p])
      BY <1>2, <2>4 DEF Rising
    <3>3. QED
      BY <3>1, <3>2, <1>1, <1>3, <1>4, <2>1
  <2>5. CASE k # i /\ k \div 2 # i /\ k \div 2 # p
    <3>1. t[k] = s[k] /\ t[k \div 2] = s[k \div 2]
      BY <1>2, <1>5, <2>1, <2>5
    <3>2. Key(s[k]) <= Key(s[k \div 2])
      BY <1>2, <2>5 DEF Rising
    <3>3. QED
      BY <3>1, <3>2
  <2>6. QED
    BY <2>2, <2>3, <2>4, <2>5
<1>6. ASSUME NEW k \in 2 .. Len(t), k \div 2 = p, p > 1 PROVE Key(t[k]) <= Key(t[p \div 2])
  <2>1. k \in 1 .. Len(s) /\ p < k
    BY <1>2, <1>6, LessElement
  <2>2. p \in 2 .. Len(s) /\ p \div 2 \in 1 .. Len(s) /\ p \div 2 < p
    BY <1>1, <1>6, LessElement
  <2>3. t[p \div 2] = s[p \div 2] /\ Key(s[p]) <= Key(s[p \div 2])
    BY <1>1, <1>2, <2>2 DEF Rising
  <2>4. CASE k = i
    BY <2>4, <1>2, <2>3
  <2>5. CASE k # i
    <3>1. t[k] = s[k] /\ Key(s[k]) <= Key(s[p])
      BY <1>2, <1>6, <2>1, <2>5 DEF Rising
    <3>2. Key(s[k]) \in Int /\ Key(s[p]) \in Int /\ Key(s[p \div 2]) \in Int
      BY <1>1, <1>3, <2>1, <2>2
    <3>3. QED
      BY <3>1, <3>2, <2>3
  <2>6. QED
    BY <2>4, <2>5
<1>7. QED
  BY <1>5, <1>6 DEF Rising, Bridged, p, t

(* The loop of push ends with a heap. *)
LEMMA RisingEnd ==
  ASSUME NEW s, NEW i, Rising(s, i), i > 1 => Key(s[i]) <= Key(s[i \div 2])
  PROVE  Heap(s)
<1> SUFFICES ASSUME NEW k \in 2 .. Len(s) PROVE Key(s[k]) <= Key(s[k \div 2])
  BY DEF Heap
<1>1. CASE k = i
  BY <1>1
<1>2. CASE k # i
  BY <1>2 DEF Rising
<1>3. QED
  BY <1>1, <1>2

\* What pop starts from: the last element at the top.
Beheaded(s) == Front([s EXCEPT ![1] = Last(s)])

(* pop starts with only the element at the top out of order. *)
LEMMA PopStart ==
  ASSUME NEW s \in Seq(Elems), Len(s) >= 2
  PROVE  /\ Beheaded(s) \in Seq(Elems) /\ Len(Beheaded(s)) = Len(s) - 1
         /\ Heap(s) => Sinking(Beheaded(s), 1)
<1> DEFINE u == [s EXCEPT ![1] = Last(s)]
           t == Front(u)
<1>1. Len(s) \in Nat /\ 1 \in 1 .. Len(s) /\ Len(s) \in 1 .. Len(s)
  BY LenProperties
<1>2. Last(s) \in Elems
  BY <1>1, ElementOfSeq DEF Last
<1>3. u \in Seq(Elems) /\ Len(u) = Len(s) /\ \A k \in 1 .. Len(s) : k # 1 => u[k] = s[k]
  BY <1>1, <1>2, ExceptSeq
<1> HIDE DEF u
<1>4. u # << >>
  BY <1>1, <1>3, EmptySeq
<1>5. t \in Seq(Elems) /\ Len(t) = Len(s) - 1 /\ \A k \in 1 .. Len(s) - 1 : t[k] = u[k]
  BY <1>3, <1>4, FrontFacts
<1> HIDE DEF t
<1>6. ASSUME Heap(s), NEW k \in 2 .. Len(t), k \div 2 # 1 PROVE Key(t[k]) <= Key(t[k \div 2])
  <2>1. k \in 2 .. Len(s) /\ k \in 1 .. Len(s) - 1 /\ k # 1
    BY <1>1, <1>5
  <2>2. k \div 2 \in 1 .. Len(t)
    BY <1>5, LessElement
  <2>3. t[k] = s[k] /\ t[k \div 2] = s[k \div 2]
    BY <1>1, <1>3, <1>5, <1>6, <2>1, <2>2
  <2>4. QED
    BY <1>6, <2>1, <2>3 DEF Heap
<1>7. Heap(s) => Sinking(t, 1)
  BY <1>6 DEF Sinking, Bridged
<1>8. Beheaded(s) = t
  BY DEF Beheaded, t, u
<1>9. QED
  BY <1>5, <1>7, <1>8

(* What Largest returns: the element itself or one of its children. *)
LEMMA LargestFacts ==
  ASSUME Parameters, NEW s \in Seq(Elems), NEW i \in 1 .. Len(s)
  PROVE  /\ Largest(s, i) \in 1 .. Len(s)
         /\ \A k \in 2 .. Len(s) : k \div 2 = i => Key(s[k]) <= Key(s[Largest(s, i)])
         /\ Largest(s, i) # i =>
              /\ Largest(s, i) \in 2 .. Len(s) /\ Largest(s, i) \div 2 = i
              /\ Key(s[i]) < Key(s[Largest(s, i)])
<1> DEFINE left == i * 2
           right == i * 2 + 1
           larger == IF left <= Len(s) /\ Key(s[left]) > Key(s[i]) THEN left ELSE i
           largest == IF right <= Len(s) /\ Key(s[right]) > Key(s[larger]) THEN right ELSE larger
<1>1. Len(s) \in Nat /\ i \in Nat /\ i >= 1 /\ left \in Nat /\ right \in Nat /\ left >= 2 /\ right >= 2
  BY LenProperties
<1>2. \A n \in 1 .. Len(s) : Key(s[n]) \in Int
  BY ElementOfSeq DEF Parameters
<1>3. \A k \in Nat : k \div 2 = i <=> k = left \/ k = right
  BY <1>1, ChildFacts
<1>4. larger \in 1 .. Len(s) /\ largest \in 1 .. Len(s)
  BY <1>1
<1>5. Largest(s, i) = largest
  BY DEF Largest
<1>6. Key(s[i]) <= Key(s[larger]) /\ (larger # i => larger = left /\ Key(s[i]) < Key(s[larger]))
  BY <1>1, <1>2
<1>7. left <= Len(s) => Key(s[left]) <= Key(s[larger])
  BY <1>1, <1>2
<1> HIDE DEF larger
<1>8. Key(s[larger]) <= Key(s[largest]) /\ (largest # larger => largest = right /\ Key(s[larger]) < Key(s[largest]))
  BY <1>1, <1>2, <1>4
<1>9. right <= Len(s) => Key(s[right]) <= Key(s[largest])
  BY <1>1, <1>2, <1>4
<1> HIDE DEF largest
<1>10. left <= Len(s) => Key(s[left]) <= Key(s[largest])
  BY <1>1, <1>2, <1>4, <1>7, <1>8
<1>11. largest # i => (largest = left \/ largest = right) /\ Key(s[i]) < Key(s[largest])
  BY <1>2, <1>4, <1>6, <1>8
<1> HIDE DEF left, right
<1>12. ASSUME NEW k \in 2 .. Len(s), k \div 2 = i PROVE Key(s[k]) <= Key(s[largest])
  BY <1>1, <1>3, <1>9, <1>10, <1>12
<1>13. ASSUME largest # i PROVE largest \in 2 .. Len(s) /\ largest \div 2 = i
  BY <1>1, <1>3, <1>4, <1>11, <1>13
<1>14. QED
  BY <1>4, <1>5, <1>11, <1>12, <1>13

(* A turn of the loop of pop. *)
LEMMA SinkingTurn ==
  ASSUME Parameters, NEW s \in Seq(Elems), NEW i \in 1 .. Len(s), Sinking(s, i), Largest(s, i) # i
  PROVE  Sinking(Exchanged(s, i, Largest(s, i)), Largest(s, i))
<1> DEFINE l == Largest(s, i)
           t == Exchanged(s, i, l)
<1>1. /\ l \in 1 .. Len(s) /\ l \in 2 .. Len(s) /\ l \div 2 = i /\ Key(s[i]) < Key(s[l])
      /\ \A k \in 2 .. Len(s) : k \div 2 = i => Key(s[k]) <= Key(s[l])
  BY LargestFacts
<1>2. /\ Len(t) = Len(s) /\ t[i] = s[l] /\ t[l] = s[i]
      /\ \A n \in 1 .. Len(s) : n # i /\ n # l => t[n] = s[n]
  BY <1>1, ExchangeFacts
<1>3. \A n \in 1 .. Len(s) : Key(s[n]) \in Int
  BY ElementOfSeq DEF Parameters
<1> HIDE DEF l, t
<1>4. Len(s) \in Nat /\ i < l
  BY <1>1, LenProperties, LessElement
<1>5. ASSUME NEW k \in 2 .. Len(t), k \div 2 # l PROVE Key(t[k]) <= Key(t[k \div 2])
  <2>1. k \in 1 .. Len(s) /\ k \div 2 \in 1 .. Len(s) /\ k \div 2 < k
    BY <1>2, LessElement
  <2>2. CASE k = l
    BY <2>2, <1>1, <1>2, <1>3
  <2>3. CASE k # l /\ k \div 2 = i
    <3>1. t[k] = s[k] /\ t[k \div 2] = s[l]
      BY <1>2, <2>1, <2>3
    <3>2. QED
      BY <3>1, <2>3, <1>1, <1>2
  <2>4. CASE k # l /\ k = i
    <3>1. t[k] = s[l] /\ t[k \div 2] = s[k \div 2]
      BY <1>2, <1>5, <2>1, <2>4
    <3>2. Key(s[l]) <= Key(s[i \div 2])
      BY <1>1, <2>4 DEF Sinking, Bridged
    <3>3. QED
      BY <3>1, <3>2, <2>4
  <2>5. CASE k # l /\ k \div 2 # i /\ k # i
    <3>1. t[k] = s[k] /\ t[k \div 2] = s[k \div 2]
      BY <1>2, <1>5, <2>1, <2>5
    <3>2. QED
      BY <3>1, <2>5, <1>2 DEF Sinking
  <2>6. QED
    BY <2>2, <2>3, <2>4, <2>5
<1>6. ASSUME NEW k \in 2 .. Len(t), k \div 2 = l, l > 1 PROVE Key(t[k]) <= Key(t[l \div 2])
  <2>1. k \in 1 .. Len(s) /\ l < k
    BY <1>2, <1>6, LessElement
  <2>2. t[k] = s[k] /\ t[l \div 2] = s[l]
    BY <1>1, <1>2, <1>4, <2>1
  <2>3. Key(s[k]) <= Key(s[l])
    BY <1>2, <1>4, <1>6 DEF Sinking
  <2>4. QED
    BY <2>2, <2>3
<1>7. QED
  BY <1>5, <1>6 DEF Sinking, Bridged, l, t

(* The loop of pop ends with a heap. *)
LEMMA SinkingEnd ==
  ASSUME Parameters, NEW s \in Seq(Elems), NEW i \in 1 .. Len(s), Sinking(s, i), Largest(s, i) = i
  PROVE  Heap(s)
BY LargestFacts DEF Sinking, Heap

-----------------------------------------------------------------------------
(* The steps of the calls. *)

\* What a call that returns or goes on has to show of the other containers.
Elsewhere(o) == \A c \in Addresses : c # obj[o].at /\ mem[c].exact => Heap(mem[c].s)

(* A call that returns with a heap, or has told that it left none. *)
LEMMA HeapReply ==
  ASSUME HeapIInv, NEW o \in Objects, obj[o].at \in Addresses, ret # "undefined", Elsewhere(o),
         NEW r, Sound(Here(o), r), r.q.exact => Heap(r.q.s), Reply(o, r)
  PROVE  HeapIInv'
<1>1. /\ Shared' /\ work' = NoWork
      /\ \A c \in Addresses : mem'[c] = IF c = obj[o].at THEN r.q ELSE mem[c]
  BY ReplyStep DEF HeapIInv
<1>2. HeapWork' /\ Moving'
  BY <1>1 DEF HeapWork, Moving
<1>3. ASSUME NEW c \in Addresses, mem'[c].exact PROVE Heap(mem'[c].s)
  BY <1>1, <1>3 DEF Elsewhere
<1>4. QED
  BY <1>1, <1>2, <1>3 DEF HeapIInv, Ordered

(* A call that goes on with one element out of order. *)
LEMMA HeapContinue ==
  ASSUME HeapIInv, NEW o \in Objects, obj[o].at \in Addresses, ret # "undefined", Elsewhere(o),
         NEW q \in Container, Filled(q), q.life # "free", q.type = Here(o).type,
         NEW locals \in PushWork \cup PopWork, locals.of = o, locals.idx \in 1 .. Len(q.s),
         q.exact => IF locals.op = "push" THEN Rising(q.s, locals.idx) ELSE Sinking(q.s, locals.idx),
         Continue(o, q, locals)
  PROVE  HeapIInv'
<1>1. /\ Shared' /\ work' = locals /\ obj' = obj
      /\ \A c \in Addresses : mem'[c] = IF c = obj[o].at THEN q ELSE mem[c]
  BY ContinueStep DEF HeapIInv, Continue
<1>2. HeapWork'
  BY <1>1 DEF HeapWork
<1>3. work' # NoWork
  BY <1>1 DEF PushWork, PopWork, NoWork
<1>4. Here(work.of)' = q
  BY <1>1 DEF Here
<1>5. Moving'
  BY <1>1, <1>4 DEF Moving
<1>6. Ordered'
  BY <1>1, <1>3 DEF Ordered, Elsewhere
<1>7. QED
  BY <1>1, <1>2, <1>5, <1>6 DEF HeapIInv

(* Between calls there are only heaps. *)
LEMMA QuietFacts ==
  ASSUME HeapIInv, NEW o \in Objects, Usable(o)
  PROVE  /\ obj[o].at \in Addresses /\ Used(Here(o)) /\ ret # "undefined"
         /\ Elsewhere(o) /\ (Here(o).exact => Heap(Here(o).s))
<1>1. obj[o].at \in Addresses /\ Used(Here(o)) /\ ret # "undefined" /\ work = NoWork
  BY UsableFacts DEF HeapIInv
<1>2. \A c \in Addresses : mem[c].exact => Heap(mem[c].s)
  BY <1>1 DEF HeapIInv, Ordered
<1>3. QED
  BY <1>1, <1>2 DEF Elsewhere, Here

(* During a call the container at hand is in use, the others are heaps. *)
LEMMA HeapCallFacts ==
  ASSUME HeapIInv, work # NoWork
  PROVE  /\ work.of \in Objects /\ obj[work.of].at \in Addresses /\ ret # "undefined"
         /\ Used(Here(work.of)) /\ Elsewhere(work.of)
         /\ work \in PushWork \cup PopWork
         /\ Here(work.of).s \in Seq(Elems) /\ work.idx \in 1 .. Len(Here(work.of).s)
<1>1. work.of \in Objects /\ obj[work.of].at \in Addresses /\ ret # "undefined" /\ Used(Here(work.of))
  BY BusyFacts DEF HeapIInv
<1>2. Elsewhere(work.of)
  BY DEF HeapIInv, Ordered, Elsewhere
<1>3. QED
  BY <1>1, <1>2 DEF HeapIInv, HeapWork, Moving, Used, Container

(* push *)
LEMMA PushStep == ASSUME Parameters, HeapIInv, NEW o \in Objects, NEW e \in Elems, Push(o, e) PROVE HeapIInv'
<1>1. /\ obj[o].at \in Addresses /\ Used(Here(o)) /\ ret # "undefined"
      /\ Elsewhere(o) /\ (Here(o).exact => Heap(Here(o).s))
  BY QuietFacts DEF Push
<1>2. PICK r \in PushBack(Here(o), e) :
        IF r.rc # "CS_SUCCESS" THEN Reply(o, r)
        ELSE \/ Continue(o, r.q, [op |-> "push", of |-> o, idx |-> Len(r.q.s)])
             \/ AllocFails /\ Reply(o, Answer("CS_MEM", [r.q EXCEPT !.exact = FALSE]))
  BY DEF Push
<1>3. /\ Sound(Here(o), r) /\ (r.q.exact => Here(o).exact)
      /\ IF r.rc = "CS_SUCCESS" THEN r.q.s = Append(Here(o).s, e) ELSE r.q.s = Here(o).s
  BY <1>1, <1>2, PushBackSound
<1>4. CASE r.rc # "CS_SUCCESS"
  BY <1>1, <1>2, <1>3, <1>4, HeapReply
<1>5. CASE r.rc = "CS_SUCCESS"
  <2> DEFINE s == Here(o).s
             locals == [op |-> "push", of |-> o, idx |-> Len(r.q.s)]
  <2>1. r.q \in Container /\ Filled(r.q) /\ r.q.life # "free" /\ r.q.type = Here(o).type
    BY <1>3, <1>5 DEF Sound
  <2>2. s \in Seq(Elems) /\ Len(s) \in Nat /\ Len(r.q.s) = Len(s) + 1
    BY <1>1, <1>3, <1>5, AppendProperties, LenProperties DEF Used, Container
  <2>3. CASE Continue(o, r.q, locals)
    <3>1. locals \in PushWork /\ locals.idx \in 1 .. Len(r.q.s)
      BY <2>2 DEF PushWork
    <3>2. r.q.exact => Rising(r.q.s, locals.idx)
      BY <1>1, <1>3, <1>5, <2>2, PushStart
    <3>3. QED
      BY <1>1, <2>1, <2>3, <3>1, <3>2, HeapContinue
  <2>4. CASE Reply(o, Answer("CS_MEM", [r.q EXCEPT !.exact = FALSE]))
    <3> DEFINE a == Answer("CS_MEM", [r.q EXCEPT !.exact = FALSE])
    <3>1. Sound(Here(o), a) /\ ~a.q.exact
      BY <2>1 DEF Sound, Answer, Container, Filled
    <3> HIDE DEF a
    <3>2. Reply(o, a)
      BY <2>4 DEF a
    <3>3. QED
      BY <1>1, <3>1, <3>2, HeapReply
  <2>5. QED
    BY <1>2, <1>5, <2>3, <2>4
<1>6. QED
  BY <1>4, <1>5

(* The turns of the loops have the same shape: an exchange of two elements. *)
LEMMA SiftTurn ==
  ASSUME HeapIInv, work # NoWork, NEW n \in 1 .. Len(Here(work.of).s), NEW q,
         q = [Here(work.of) EXCEPT !.s = Exchanged(@, work.idx, n)],
         q.exact => IF work.op = "push" THEN Rising(q.s, n) ELSE Sinking(q.s, n),
         Continue(work.of, q, [work EXCEPT !.idx = n])
  PROVE  HeapIInv'
<1> DEFINE h == Here(work.of)
           locals == [work EXCEPT !.idx = n]
<1>1. /\ work.of \in Objects /\ obj[work.of].at \in Addresses /\ ret # "undefined"
      /\ Used(h) /\ Elsewhere(work.of) /\ work \in PushWork \cup PopWork
      /\ h.s \in Seq(Elems) /\ work.idx \in 1 .. Len(h.s)
  BY HeapCallFacts
<1>2. Len(h.s) \in Nat
  BY <1>1, LenProperties
<1>3. /\ locals \in PushWork \cup PopWork /\ locals.of = work.of /\ locals.op = work.op
      /\ locals.idx = n
  BY <1>1, <1>2 DEF PushWork, PopWork
<1>4. /\ q.s \in Seq(Elems) /\ Len(q.s) = Len(h.s)
      /\ q \in Container /\ q.life = h.life /\ q.type = h.type
  <2>1. q.s = Exchanged(h.s, work.idx, n)
    BY <1>1 DEF Used, Container
  <2>2. q.s \in Seq(Elems) /\ Len(q.s) = Len(h.s)
    BY <1>1, <2>1, ExchangeFacts
  <2>3. QED
    BY <1>1, <2>1, <2>2 DEF Used, Container
<1>5. Filled(q) /\ q.life # "free"
  <2>1. h.s # << >>
    BY <1>1, <1>2, EmptySeq
  <2>2. QED
    BY <1>1, <1>4, <2>1 DEF Used, Filled
<1> HIDE DEF h, locals
<1>6. Continue(work.of, q, locals)
  BY DEF locals
<1>7. q.type = Here(work.of).type
  BY <1>4 DEF h
<1>8. locals.idx \in 1 .. Len(q.s)
  BY <1>3, <1>4 DEF h
<1>9. QED
  BY <1>1, <1>3, <1>4, <1>5, <1>6, <1>7, <1>8, HeapContinue

(* The end of a loop. *)
LEMMA TurnEnd ==
  ASSUME HeapIInv, work # NoWork, Here(work.of).exact => Heap(Here(work.of).s),
         Reply(work.of, Done(Here(work.of)))
  PROVE  HeapIInv'
<1>1. /\ work.of \in Objects /\ obj[work.of].at \in Addresses /\ ret # "undefined"
      /\ Used(Here(work.of)) /\ Elsewhere(work.of)
  BY HeapCallFacts
<1>2. Sound(Here(work.of), Done(Here(work.of))) /\ Done(Here(work.of)).q = Here(work.of)
  BY <1>1 DEF Sound, Used, Done, Answer
<1>3. QED
  BY <1>1, <1>2, HeapReply

(* A turn of push: the risen element changes places with its parent. *)
LEMMA SiftUpStep == ASSUME Parameters, HeapIInv, SiftUp PROVE HeapIInv'
<1> DEFINE h == Here(work.of)
           p == work.idx \div 2
           q == [h EXCEPT !.s = Exchanged(@, work.idx, p)]
<1>1. /\ work.op = "push" /\ work.idx > 1 /\ Key(h.s[work.idx]) > Key(h.s[p])
      /\ Continue(work.of, q, [work EXCEPT !.idx = p])
  BY DEF SiftUp
<1>2. work # NoWork
  BY <1>1 DEF NoWork
<1>3. h.s \in Seq(Elems) /\ work.idx \in 1 .. Len(h.s) /\ Used(h)
  BY <1>2, HeapCallFacts
<1>4. work.idx \in 2 .. Len(h.s)
  BY <1>1, <1>3, LenProperties
<1>5. p \in 1 .. Len(h.s)
  BY <1>3, <1>4, LessElement
<1>6. q.exact = h.exact /\ q.s = Exchanged(h.s, work.idx, p)
  BY <1>3 DEF Used, Container
<1>7. h.exact => Rising(h.s, work.idx)
  BY <1>1, <1>2 DEF HeapIInv, Moving
<1>8. q.exact => Rising(q.s, p)
  BY <1>1, <1>3, <1>4, <1>6, <1>7, RisingTurn
<1> HIDE DEF q, p
<1>9. q = [Here(work.of) EXCEPT !.s = Exchanged(@, work.idx, p)]
  BY DEF q
<1>10. QED
  BY <1>1, <1>2, <1>5, <1>8, <1>9, SiftTurn

(* The risen element has met a parent that is not smaller. *)
LEMMA SiftUpEndStep == ASSUME HeapIInv, SiftUpEnd PROVE HeapIInv'
<1>1. work # NoWork /\ work.op = "push"
  BY DEF SiftUpEnd, NoWork
<1>2. Here(work.of).exact => Heap(Here(work.of).s)
  BY <1>1, RisingEnd DEF HeapIInv, Moving, SiftUpEnd
<1>3. QED
  BY <1>1, <1>2, TurnEnd DEF SiftUpEnd

(* A turn of pop: the sunk element changes places with its larger child. *)
LEMMA SiftDownStep == ASSUME Parameters, HeapIInv, SiftDown PROVE HeapIInv'
<1> DEFINE h == Here(work.of)
           l == Largest(h.s, work.idx)
           q == [h EXCEPT !.s = Exchanged(@, work.idx, l)]
<1>1. work.op = "pop" /\ l # work.idx /\ Continue(work.of, q, [work EXCEPT !.idx = l])
  BY DEF SiftDown
<1>2. work # NoWork
  BY <1>1 DEF NoWork
<1>3. h.s \in Seq(Elems) /\ work.idx \in 1 .. Len(h.s) /\ Used(h)
  BY <1>2, HeapCallFacts
<1>4. l \in 1 .. Len(h.s)
  BY <1>3, LargestFacts
<1>5. q.exact = h.exact /\ q.s = Exchanged(h.s, work.idx, l)
  BY <1>3 DEF Used, Container
<1>6. h.exact => Sinking(h.s, work.idx)
  BY <1>1, <1>2 DEF HeapIInv, Moving
<1>7. q.exact => Sinking(q.s, l)
  BY <1>1, <1>3, <1>5, <1>6, SinkingTurn
<1> HIDE DEF q, l
<1>8. q = [Here(work.of) EXCEPT !.s = Exchanged(@, work.idx, l)]
  BY DEF q
<1>9. QED
  BY <1>1, <1>2, <1>4, <1>7, <1>8, SiftTurn

(* The sunk element has no larger child. *)
LEMMA SiftDownEndStep == ASSUME Parameters, HeapIInv, SiftDownEnd PROVE HeapIInv'
<1>1. /\ work # NoWork /\ work.op = "pop" /\ Largest(Here(work.of).s, work.idx) = work.idx
      /\ Reply(work.of, Done(Here(work.of)))
  BY DEF SiftDownEnd, NoWork
<1>2. Here(work.of).s \in Seq(Elems) /\ work.idx \in 1 .. Len(Here(work.of).s)
  BY <1>1, HeapCallFacts
<1>3. Here(work.of).exact => Sinking(Here(work.of).s, work.idx)
  BY <1>1 DEF HeapIInv, Moving
<1>4. Here(work.of).exact => Heap(Here(work.of).s)
  BY <1>1, <1>2, <1>3, SinkingEnd
<1>5. QED
  BY <1>1, <1>4, TurnEnd

(* pop *)
LEMMA PopTopStep == ASSUME Parameters, HeapIInv, NEW o \in Objects, PopTop(o) PROVE HeapIInv'
<1> DEFINE q == Here(o)
<1>1. /\ obj[o].at \in Addresses /\ Used(q) /\ ret # "undefined"
      /\ Elsewhere(o) /\ (q.exact => Heap(q.s))
  BY QuietFacts DEF PopTop
<1>2. q.s \in Seq(Elems) /\ Len(q.s) \in Nat
  BY <1>1, LenProperties DEF Used, Container
<1>3. \A rc : Sound(q, Answer(rc, q)) /\ Answer(rc, q).q = q
  BY <1>1 DEF Sound, Used, Answer
<1>4. CASE q.life = "gone" \/ (q.life = "lost" /\ q.s # << >>)
  <2>1. Reply(o, Answer("undefined", q)) \/ Reply(o, Answer("CS_MEM", q))
    BY <1>4 DEF PopTop, Undefined
  <2>2. QED
    BY <1>1, <1>3, <2>1, HeapReply
<1>5. CASE ~(q.life = "gone" \/ (q.life = "lost" /\ q.s # << >>)) /\ q.s = << >>
  <2>1. Reply(o, Answer("CS_EMPTY", q))
    BY <1>5 DEF PopTop
  <2>2. QED
    BY <1>1, <1>3, <2>1, HeapReply
<1>6. CASE ~(q.life = "gone" \/ (q.life = "lost" /\ q.s # << >>)) /\ q.s # << >> /\ Len(q.s) = 1
  <2>1. PICK r \in PopBack(q) : Reply(o, r)
    BY <1>6 DEF PopTop
  <2>2. Sound(q, r) /\ (r.q.exact => q.exact) /\ (r.q.s = q.s \/ r.q.s = << >>)
    BY <1>1, <1>6, <2>1, PopBackSound
  <2>3. Heap(<< >>)
    BY EmptySeq DEF Heap
  <2>4. QED
    BY <1>1, <2>1, <2>2, <2>3, HeapReply
<1>7. CASE ~(q.life = "gone" \/ (q.life = "lost" /\ q.s # << >>)) /\ q.s # << >> /\ Len(q.s) # 1
  <2>1. Len(q.s) >= 2
    <3>1. Len(q.s) \in Nat \ {0} /\ Len(q.s) # 1
      BY <1>2, <1>7, EmptySeq, Zenon
    <3>2. \A n \in Nat \ {0} : n # 1 => n >= 2
      OBVIOUS
    <3>3. QED
      BY <3>1, <3>2, Zenon
  <2> DEFINE t == Beheaded(q.s)
             n == [q EXCEPT !.s = t]
             locals == [op |-> "pop", of |-> o, idx |-> 1, out |-> q.s[1]]
  <2>2. Continue(o, n, locals) \/ Reply(o, Answer("CS_MEM", q)) \/ Reply(o, Answer("undefined", q))
    BY <1>7 DEF PopTop, Beheaded, Undefined
  <2>3. t \in Seq(Elems) /\ Len(t) = Len(q.s) - 1 /\ (Heap(q.s) => Sinking(t, 1))
    BY <1>2, <2>1, PopStart
  <2> HIDE DEF t
  <2>4. /\ n \in Container /\ n.life = q.life /\ n.type = q.type /\ n.exact = q.exact
        /\ n.s = t
    BY <1>1, <2>3 DEF Used, Container
  <2>5. Filled(n) /\ n.life # "free"
    BY <1>1, <1>7, <2>4 DEF Used, Filled
  <2>6. q.s[1] \in Elems
    BY <1>2, <2>1, ElementOfSeq
  <2>7. locals \in PopWork /\ locals.of = o /\ locals.op = "pop" /\ locals.idx = 1
    BY <2>6 DEF PopWork
  <2>8. locals.idx \in 1 .. Len(n.s)
    BY <1>2, <2>1, <2>3, <2>4, <2>7
  <2>9. n.exact => Sinking(n.s, locals.idx)
    BY <1>1, <2>3, <2>4, <2>7
  <2> HIDE DEF n, locals
  <2>10. CASE Continue(o, n, locals)
    BY <1>1, <2>4, <2>5, <2>7, <2>8, <2>9, <2>10, HeapContinue
  <2>11. CASE Reply(o, Answer("CS_MEM", q)) \/ Reply(o, Answer("undefined", q))
    BY <1>1, <1>3, <2>11, HeapReply
  <2>12. QED
    BY <2>2, <2>10, <2>11
<1>8. QED
  BY <1>4, <1>5, <1>6, <1>7

(* init, clear, swap and free leave the heaps alone, or empty. *)
LEMMA ManageHeapStep == ASSUME Parameters, HeapIInv, Manage PROVE HeapIInv'
<1>1. Shared' /\ Emptying /\ work = NoWork /\ work' = NoWork
  BY ManageStep DEF HeapIInv
<1>2. ASSUME NEW c \in Addresses, mem'[c].exact PROVE Heap(mem'[c].s)
  <2>1. CASE mem'[c] = mem[c]
    BY <1>1, <1>2, <2>1 DEF HeapIInv, Ordered
  <2>2. CASE mem'[c].s = << >>
    BY <2>2, EmptySeq DEF Heap
  <2>3. QED
    BY <1>1, <2>1, <2>2 DEF Emptying
<1>3. HeapWork' /\ Moving' /\ Ordered'
  BY <1>1, <1>2 DEF HeapWork, Moving, Ordered
<1>4. QED
  BY <1>1, <1>3 DEF HeapIInv

-----------------------------------------------------------------------------
(* The theorems. *)

(* No queue is made yet. *)
LEMMA HeapInit == ASSUME Parameters, Init PROVE HeapIInv
<1>1. Shared /\ work = NoWork
  BY SharedInit DEF Init
<1>2. \A c \in Addresses : Heap(mem[c].s)
  BY EmptySeq DEF Init, NoContainer, Heap
<1>3. QED
  BY <1>1, <1>2 DEF HeapIInv, HeapWork, Moving, Ordered

(* Every step preserves the invariant. *)
LEMMA HeapStep == ASSUME Parameters, HeapIInv, [HeapNext]_vars PROVE HeapIInv'
<1>1. CASE Manage
  BY <1>1, ManageHeapStep
<1>2. CASE Sift
  BY <1>2, SiftUpStep, SiftUpEndStep, SiftDownStep, SiftDownEndStep DEF Sift
<1>3. ASSUME NEW o \in Objects, PopTop(o) PROVE HeapIInv'
  BY <1>3, PopTopStep
<1>4. ASSUME NEW o \in Objects, NEW e \in Elems, Push(o, e) PROVE HeapIInv'
  BY <1>4, PushStep
<1>5. CASE UNCHANGED vars
  BY <1>5 DEF vars, HeapIInv, Shared, Typed, AllFilled, Filled, Over, Busy, Sole, HeapWork, Moving,
              Here, Ordered
<1>6. QED
  BY <1>1, <1>2, <1>3, <1>4, <1>5 DEF HeapNext

(* Whenever no call is in progress every queue is a heap: push and pop leave
   nothing out of order, for any number of elements and of turns. *)
THEOREM HeapCorrect == ASSUME Parameters PROVE HeapSpec => []HeapOrdered
<1>1. HeapIInv => HeapOrdered
  BY DEF HeapIInv, Ordered, HeapOrdered, Heap
<1>2. QED
  BY <1>1, HeapInit, HeapStep, PTL DEF HeapSpec

(* Every container belongs to one queue, which has its type. *)
THEOREM QueuesOwn == ASSUME Parameters PROVE HeapSpec => []OwnedByType
<1>1. HeapIInv => OwnedByType
  BY SoleOwners DEF HeapIInv
<1>2. QED
  BY <1>1, HeapInit, HeapStep, PTL DEF HeapSpec

-----------------------------------------------------------------------------
(* The inductive invariant: every pair of elements is in order, not only   *)
(* neighbours, and the range of the search brackets the place.             *)

Ascending(s) == \A k, l \in 1 .. Len(s) : k < l => Key(s[k]) < Key(s[l])

Calls == [op : {"insert", "erase", "find"}, of : Objects, elem : Elems, left : Int, right : Int]
SearchWork == work \in {NoWork} \cup Calls

\* The range lies in the sequence.
Inside(s, w) ==
  w.left \in 0 .. Len(s) /\ w.right \in -1 .. Len(s) - 1 /\ w.left <= w.right + 1

\* All to the left of the range is smaller, all to the right is larger.
Brackets(s, w) ==
  /\ \A k \in 1 .. w.left : Key(s[k]) < Key(w.elem)
  /\ \A k \in w.right + 2 .. Len(s) : Key(w.elem) < Key(s[k])

Ranged ==
  work # NoWork =>
    /\ Inside(Here(work.of).s, work)
    /\ Here(work.of).exact => Brackets(Here(work.of).s, work)

Ascended == \A c \in Addresses : mem[c].exact => Ascending(mem[c].s)

SortedIInv == Shared /\ SearchWork /\ Ranged /\ Ascended

-----------------------------------------------------------------------------
(* Sorted arrays. *)

(* Between its neighbours an element keeps the order. *)
LEMMA InsertedAscends ==
  ASSUME Parameters, NEW s \in Seq(Elems), Ascending(s), NEW e \in Elems, NEW i \in 0 .. Len(s),
         \A k \in 1 .. i : Key(s[k]) < Key(e),
         \A k \in i + 1 .. Len(s) : Key(e) < Key(s[k])
  PROVE  Ascending(InsertAt(s, i + 1, e))
<1> DEFINE t == InsertAt(s, i + 1, e)
<1>1. Len(s) \in Nat /\ i \in Nat /\ i + 1 \in 1 .. Len(s) + 1
  BY LenProperties
<1>2. /\ Len(t) = Len(s) + 1
      /\ \A k \in 1 .. Len(s) + 1 :
           t[k] = IF k < i + 1 THEN s[k] ELSE IF k = i + 1 THEN e ELSE s[k - 1]
  BY <1>1, InsertFacts
<1> HIDE DEF t
<1>3. ASSUME NEW k \in 1 .. Len(t), NEW l \in 1 .. Len(t), k < l PROVE Key(t[k]) < Key(t[l])
  <2>1. k \in 1 .. Len(s) + 1 /\ l \in 1 .. Len(s) + 1
    BY <1>2
  <2>2. CASE l < i + 1
    <3>1. t[k] = s[k] /\ t[l] = s[l] /\ k \in 1 .. Len(s) /\ l \in 1 .. Len(s)
      BY <1>1, <1>2, <1>3, <2>1, <2>2
    <3>2. QED
      BY <1>3, <3>1 DEF Ascending
  <2>3. CASE l = i + 1
    <3>1. t[k] = s[k] /\ t[l] = e /\ k \in 1 .. i
      BY <1>1, <1>2, <1>3, <2>1, <2>3
    <3>2. QED
      BY <3>1
  <2>4. CASE l > i + 1 /\ k = i + 1
    <3>1. t[k] = e /\ t[l] = s[l - 1] /\ l - 1 \in i + 1 .. Len(s)
      BY <1>1, <1>2, <2>1, <2>4
    <3>2. QED
      BY <3>1
  <2>5. CASE l > i + 1 /\ k < i + 1
    <3>1. t[k] = s[k] /\ t[l] = s[l - 1] /\ k \in 1 .. Len(s) /\ l - 1 \in 1 .. Len(s) /\ k < l - 1
      BY <1>1, <1>2, <2>1, <2>5
    <3>2. QED
      BY <3>1 DEF Ascending
  <2>6. CASE l > i + 1 /\ k > i + 1
    <3>1. /\ t[k] = s[k - 1] /\ t[l] = s[l - 1] /\ k - 1 \in 1 .. Len(s) /\ l - 1 \in 1 .. Len(s)
          /\ k - 1 < l - 1
      BY <1>1, <1>2, <1>3, <2>1, <2>6
    <3>2. QED
      BY <3>1 DEF Ascending
  <2>7. \/ l < i + 1 \/ l = i + 1 \/ (l > i + 1 /\ k = i + 1) \/ (l > i + 1 /\ k < i + 1)
        \/ (l > i + 1 /\ k > i + 1)
    BY <1>1, <2>1
  <2>8. QED
    BY <2>2, <2>3, <2>4, <2>5, <2>6, <2>7, Zenon
<1>4. QED
  BY <1>3 DEF Ascending, t

(* Without one of its elements an array stays in order. *)
LEMMA RemovedAscends ==
  ASSUME NEW s \in Seq(Elems), Ascending(s), NEW i \in 1 .. Len(s)
  PROVE  Ascending(RemoveAt(s, i))
<1> DEFINE t == RemoveAt(s, i)
<1>1. Len(s) \in Nat /\ i \in Nat
  BY LenProperties
<1>2. Len(t) = Len(s) - 1 /\ \A k \in 1 .. Len(s) - 1 : t[k] = IF k < i THEN s[k] ELSE s[k + 1]
  BY RemoveFacts
<1> HIDE DEF t
<1>3. ASSUME NEW k \in 1 .. Len(t), NEW l \in 1 .. Len(t), k < l PROVE Key(t[k]) < Key(t[l])
  <2> DEFINE m == IF k < i THEN k ELSE k + 1
             n == IF l < i THEN l ELSE l + 1
  <2>1. m \in 1 .. Len(s) /\ n \in 1 .. Len(s) /\ m < n
    BY <1>1, <1>2, <1>3
  <2>2. t[k] = s[m] /\ t[l] = s[n]
    BY <1>1, <1>2
  <2>3. QED
    BY <2>1, <2>2 DEF Ascending
<1>4. QED
  BY <1>3 DEF Ascending, t

(* The middle lies in the range. *)
LEMMA MidFacts ==
  ASSUME NEW l \in Int, NEW r \in Int, l <= r
  PROVE  (l + r) \div 2 \in Int /\ l <= (l + r) \div 2 /\ (l + r) \div 2 <= r
OBVIOUS

-----------------------------------------------------------------------------
(* The answers of the containers. *)

(* insert_elem puts the element in its place or leaves the elements alone;
   only a deque that finds no memory may do otherwise. *)
LEMMA InsertElemSound ==
  ASSUME NEW q, Used(q), NEW e \in Elems, NEW i \in 0 .. Len(q.s), NEW r \in InsertElem(q, e, i)
  PROVE  /\ Sound(q, r)
         /\ r.q.exact => q.exact /\ (r.q.s = q.s \/ r.q.s = InsertAt(q.s, i + 1, e))
<1> DEFINE inside == q.type = "deque" /\ i \in 1 .. Len(q.s) - 1
           full   == [q EXCEPT !.s = InsertAt(@, i + 1, e)]
           done   == Done(full)
<1>1. q \in Container /\ q.s \in Seq(Elems) /\ Len(q.s) \in Nat /\ i + 1 \in 1 .. Len(q.s) + 1
  BY LenProperties DEF Used, Container
<1>2. InsertAt(q.s, i + 1, e) \in Seq(Elems)
  BY <1>1, InsertFacts
<1>3. ASSUME q.life = "live"
      PROVE  Sound(q, done) /\ done.q.exact = q.exact /\ done.q.s = InsertAt(q.s, i + 1, e)
  BY <1>1, <1>2, <1>3 DEF Sound, Used, Done, Answer, Container, Filled, Lives
<1>4. CASE q.life # "live" \/ ~inside
  <2> HIDE DEF done, full
  <2>1. PICK a \in PushBack(q, e) :
          r = IF a.rc = "CS_SUCCESS" THEN [a EXCEPT !.q.s = done.q.s] ELSE a
    BY <1>4 DEF InsertElem, done, full
  <2>2. Sound(q, a) /\ (a.q.exact => q.exact) /\ (a.rc # "CS_SUCCESS" => a.q.s = q.s)
    BY <2>1, PushBackSound
  <2>3. CASE a.rc = "CS_SUCCESS"
    <3>1. a = Answer("CS_SUCCESS", a.q) /\ a.q.life \in {"live", "nobuf"}
      <4>1. PushBack(q, e) =
              CASE q.life = "live" ->
                     {Done([q EXCEPT !.s = Append(@, e)])} \cup MayFail(q)
                       \cup (IF q.type = "deque" THEN MayFail([q EXCEPT !.life = "lost"]) ELSE {})
                [] q.life = "raw" -> {Answer("CS_NULL", q)}
                [] q.life = "nobuf" -> NoBuffer(q, Append(q.s, e))
                [] OTHER -> Undefined(q)
        BY DEF PushBack
      <4>2. CASE q.life = "live"
        <5>1. a = Done([q EXCEPT !.s = Append(@, e)])
          BY <2>1, <2>3, <4>1, <4>2 DEF MayFail, Answer
        <5>2. QED
          BY <1>1, <4>2, <5>1 DEF Done, Answer, Container
      <4>3. CASE q.life = "nobuf"
        <5>1. a = Done([q EXCEPT !.s = Append(@, e), !.exact = FALSE])
          BY <2>1, <2>3, <4>1, <4>3 DEF NoBuffer, Undefined, MayFail, Answer
        <5>2. QED
          BY <1>1, <4>3, <5>1 DEF Done, Answer, Container
      <4>4. CASE q.life \notin {"live", "nobuf"}
        BY <2>1, <2>3, <4>1, <4>4 DEF Undefined, Answer
      <4>5. QED
        BY <4>2, <4>3, <4>4
    <3>2. done.q.s = InsertAt(q.s, i + 1, e)
      <4>1. full.s = InsertAt(q.s, i + 1, e)
        BY <1>1 DEF full, Container
      <4>2. done = [rc |-> "CS_SUCCESS", q |-> full]
        BY DEF done, Done, Answer
      <4>3. QED
        BY <4>1, <4>2
    <3>3. r = Answer("CS_SUCCESS", [a.q EXCEPT !.s = InsertAt(q.s, i + 1, e)])
      BY <2>1, <2>3, <3>1, <3>2 DEF Answer
    <3>4. QED
      BY <1>2, <2>2, <3>1, <3>3 DEF Sound, Answer, Container, Filled
  <2>4. CASE a.rc # "CS_SUCCESS"
    BY <2>1, <2>2, <2>4
  <2>5. QED
    BY <2>3, <2>4
<1>5. CASE q.life = "live" /\ inside
  <2> DEFINE over == [q EXCEPT !.s = Overwritten(@, e, i), !.exact = FALSE]
  <2> HIDE DEF done, full
  <2>1. \/ r = done \/ r = Answer("undefined", q) \/ r = Done(over)
    <3>1. InsertElem(q, e, i) =
            {done} \cup
            (IF ~AllocFails THEN {}
             ELSE IF i >= Len(q.s) \div 2 THEN Undefined(q)
             ELSE Undefined(q) \cup {Done(over)})
      BY <1>5 DEF InsertElem, done, full
    <3>2. QED
      BY <3>1 DEF Undefined
  <2>2. CASE r = done
    BY <1>3, <1>5, <2>2
  <2>3. CASE r = Answer("undefined", q)
    BY <2>3 DEF Sound, Used, Answer
  <2>4. CASE r = Done(over)
    <3>1. 2 \in 1 .. Len(q.s) /\ i + 1 \in 1 .. (Len(q.s) - 1) + 1
      BY <1>1, <1>5, <2>4
    <3>2. RemoveAt(q.s, 2) \in Seq(Elems) /\ Len(RemoveAt(q.s, 2)) = Len(q.s) - 1
      BY <1>1, <3>1, RemoveFacts
    <3>3. Overwritten(q.s, e, i) \in Seq(Elems)
      BY <3>1, <3>2, InsertFacts DEF Overwritten
    <3>4. Sound(q, r) /\ ~r.q.exact
      BY <1>1, <1>5, <2>4, <3>3 DEF Sound, Used, Done, Answer, Container, Filled, Lives
    <3>5. QED
      BY <3>4
  <2>5. QED
    BY <2>1, <2>2, <2>3, <2>4
<1>6. QED
  BY <1>4, <1>5

(* erase_elem removes the element or leaves the elements alone. *)
LEMMA EraseElemSound ==
  ASSUME NEW q, Used(q), NEW i \in 0 .. Len(q.s) - 1, NEW r \in EraseElem(q, i)
  PROVE  /\ Sound(q, r) /\ (r.q.exact => q.exact)
         /\ r.q.s = q.s \/ r.q.s = RemoveAt(q.s, i + 1)
<1>1. q \in Container /\ q.s \in Seq(Elems) /\ Len(q.s) \in Nat /\ i + 1 \in 1 .. Len(q.s)
  BY LenProperties DEF Used, Container
<1>2. RemoveAt(q.s, i + 1) \in Seq(Elems) /\ q.s # << >>
  BY <1>1, RemoveFacts, EmptySeq
<1>3. \/ r = Done([q EXCEPT !.s = RemoveAt(@, i + 1)]) \/ r = Answer("CS_MEM", q)
      \/ q.life = "nobuf" /\ r \in NoBuffer(q, RemoveAt(q.s, i + 1))
  BY DEF EraseElem, MayFail
<1>4. CASE r = Done([q EXCEPT !.s = RemoveAt(@, i + 1)])
  BY <1>1, <1>2, <1>4 DEF Sound, Used, Done, Answer, Container, Filled, Lives
<1>5. CASE r = Answer("CS_MEM", q)
  BY <1>5 DEF Sound, Used, Answer
<1>6. CASE q.life = "nobuf" /\ r \in NoBuffer(q, RemoveAt(q.s, i + 1))
  BY <1>2, <1>6, NoBufferSound
<1>7. QED
  BY <1>3, <1>4, <1>5, <1>6

-----------------------------------------------------------------------------
(* The steps of the calls. *)

(* A call that returns with the elements in order. *)
LEMMA SortedReply ==
  ASSUME SortedIInv, NEW o \in Objects, obj[o].at \in Addresses, ret # "undefined",
         NEW r, Sound(Here(o), r), r.q.exact => Ascending(r.q.s), Reply(o, r)
  PROVE  SortedIInv'
<1>1. /\ Shared' /\ work' = NoWork
      /\ \A c \in Addresses : mem'[c] = IF c = obj[o].at THEN r.q ELSE mem[c]
  BY ReplyStep DEF SortedIInv
<1>2. SearchWork' /\ Ranged'
  BY <1>1 DEF SearchWork, Ranged
<1>3. Ascended'
  BY <1>1 DEF SortedIInv, Ascended
<1>4. QED
  BY <1>1, <1>2, <1>3 DEF SortedIInv

(* A call that goes on with another range. *)
LEMMA SortedContinue ==
  ASSUME SortedIInv, NEW o \in Objects, obj[o].at \in Addresses, ret # "undefined", Used(Here(o)),
         NEW locals \in Calls, locals.of = o, Inside(Here(o).s, locals),
         Here(o).exact => Brackets(Here(o).s, locals), Continue(o, Here(o), locals)
  PROVE  SortedIInv'
<1>1. /\ Shared' /\ work' = locals
      /\ \A c \in Addresses : mem'[c] = IF c = obj[o].at THEN Here(o) ELSE mem[c]
  BY ContinueStep DEF SortedIInv, Used
<1>2. obj' = obj /\ \A c \in Addresses : mem'[c] = mem[c]
  BY <1>1 DEF Continue, Here
<1>3. Here(work.of)' = Here(o)
  BY <1>1, <1>2 DEF Here
<1>4. SearchWork' /\ Ranged'
  BY <1>1, <1>3 DEF SearchWork, Ranged
<1>5. Ascended'
  BY <1>2 DEF SortedIInv, Ascended
<1>6. QED
  BY <1>1, <1>4, <1>5 DEF SortedIInv

(* What a call in progress knows. *)
LEMMA SearchCallFacts ==
  ASSUME SortedIInv, work # NoWork
  PROVE  /\ work.of \in Objects /\ obj[work.of].at \in Addresses /\ ret # "undefined"
         /\ Used(Here(work.of)) /\ work \in Calls
         /\ Here(work.of).s \in Seq(Elems) /\ Len(Here(work.of).s) \in Nat
         /\ Inside(Here(work.of).s, work)
         /\ Here(work.of).exact => Brackets(Here(work.of).s, work) /\ Ascending(Here(work.of).s)
<1>1. work.of \in Objects /\ obj[work.of].at \in Addresses /\ ret # "undefined" /\ Used(Here(work.of))
  BY BusyFacts DEF SortedIInv
<1>2. Here(work.of).exact => Ascending(Here(work.of).s)
  BY <1>1 DEF SortedIInv, Ascended, Here
<1>3. Here(work.of).s \in Seq(Elems)
  BY <1>1 DEF Used, Container
<1>4. QED
  BY <1>1, <1>2, <1>3, LenProperties DEF SortedIInv, SearchWork, Ranged

(* While the search goes on the middle is an element. *)
LEMMA SearchingFacts ==
  ASSUME SortedIInv, Searching
  PROVE  /\ Mid \in work.left .. work.right /\ Mid + 1 \in 1 .. Len(Here(work.of).s)
         /\ work.left \in Int /\ work.right \in Int
<1>1. work # NoWork /\ work.left <= work.right
  BY DEF Searching
<1>2. work.left \in Int /\ work.right \in Int
  BY <1>1, SearchCallFacts DEF Calls
<1>3. Mid \in Int /\ work.left <= Mid /\ Mid <= work.right
  BY <1>1, <1>2, MidFacts DEF Mid
<1>4. QED
  BY <1>1, <1>2, <1>3, SearchCallFacts DEF Inside

(* insert, erase and find start with the whole array. *)
LEMMA SearchStep ==
  ASSUME SortedIInv, NEW o \in Objects, NEW op \in {"insert", "erase", "find"}, NEW e \in Elems,
         Search(o, op, e)
  PROVE  SortedIInv'
<1> DEFINE q == Here(o)
           locals == [op |-> op, of |-> o, elem |-> e, left |-> 0, right |-> Len(q.s) - 1]
<1>1. obj[o].at \in Addresses /\ Used(q) /\ ret # "undefined"
  BY UsableFacts DEF SortedIInv, Search
<1>2. q.s \in Seq(Elems) /\ Len(q.s) \in Nat /\ (q.exact => Ascending(q.s))
  BY <1>1, LenProperties DEF SortedIInv, Ascended, Here, Used, Container
<1>3. Reply(o, Answer("undefined", q)) \/ Continue(o, q, locals)
  BY DEF Search, Undefined
<1>4. CASE Reply(o, Answer("undefined", q))
  <2>1. Sound(q, Answer("undefined", q)) /\ Answer("undefined", q).q = q
    BY <1>1 DEF Sound, Used, Answer
  <2>2. QED
    BY <1>1, <1>2, <1>4, <2>1, SortedReply
<1>5. CASE Continue(o, q, locals)
  <2>1. locals \in Calls /\ locals.of = o /\ locals.left = 0 /\ locals.right = Len(q.s) - 1
    BY <1>2 DEF Calls
  <2>2. Inside(q.s, locals) /\ Brackets(q.s, locals)
    BY <1>2, <2>1 DEF Inside, Brackets
  <2> HIDE DEF locals
  <2>3. QED
    BY <1>1, <1>5, <2>1, <2>2, SortedContinue
<1>6. QED
  BY <1>3, <1>4, <1>5

(* The element is smaller than the one in the middle. *)
LEMMA GoLeftStep == ASSUME Parameters, SortedIInv, GoLeft PROVE SortedIInv'
<1> DEFINE q == Here(work.of)
           locals == [work EXCEPT !.right = Mid - 1]
<1>1. Searching /\ Key(work.elem) < Key(q.s[Mid + 1]) /\ Continue(work.of, q, locals)
  BY DEF GoLeft, AtMid
<1>2. work # NoWork
  BY <1>1 DEF Searching
<1>3. Mid \in work.left .. work.right /\ Mid + 1 \in 1 .. Len(q.s) /\ work.left \in Int /\ work.right \in Int
  BY <1>1, SearchingFacts
<1>4. /\ locals \in Calls /\ locals.of = work.of /\ locals.left = work.left
      /\ locals.right = Mid - 1 /\ locals.elem = work.elem
  BY <1>2, <1>3, SearchCallFacts DEF Calls
<1>5. Inside(q.s, work) /\ Len(q.s) \in Nat
  BY <1>2, SearchCallFacts
<1>6. Inside(q.s, locals)
  BY <1>3, <1>4, <1>5 DEF Inside
<1>7. ASSUME q.exact PROVE Brackets(q.s, locals)
  <2>1. Brackets(q.s, work) /\ Ascending(q.s)
    BY <1>2, <1>7, SearchCallFacts
  <2>2. ASSUME NEW k \in locals.right + 2 .. Len(q.s) PROVE Key(work.elem) < Key(q.s[k])
    <3>1. k = Mid + 1 \/ Mid + 1 < k
      BY <1>3, <1>4
    <3>2. k \in 1 .. Len(q.s)
      BY <1>3, <1>4, <1>5
    <3>3. Key(q.s[Mid + 1]) \in Int /\ Key(q.s[k]) \in Int /\ Key(work.elem) \in Int
      BY <1>2, <1>3, <3>2, SearchCallFacts, ElementOfSeq DEF Parameters, Calls
    <3>4. QED
      BY <1>1, <1>3, <2>1, <3>1, <3>2, <3>3 DEF Ascending
  <2>3. QED
    BY <1>4, <2>1, <2>2 DEF Brackets
<1> HIDE DEF locals
<1>8. QED
  BY <1>1, <1>2, <1>4, <1>6, <1>7, SearchCallFacts, SortedContinue

(* The element is larger than the one in the middle. *)
LEMMA GoRightStep == ASSUME Parameters, SortedIInv, GoRight PROVE SortedIInv'
<1> DEFINE q == Here(work.of)
           locals == [work EXCEPT !.left = Mid + 1]
<1>1. Searching /\ Key(work.elem) > Key(q.s[Mid + 1]) /\ Continue(work.of, q, locals)
  BY DEF GoRight, AtMid
<1>2. work # NoWork
  BY <1>1 DEF Searching
<1>3. Mid \in work.left .. work.right /\ Mid + 1 \in 1 .. Len(q.s) /\ work.left \in Int /\ work.right \in Int
  BY <1>1, SearchingFacts
<1>4. /\ locals \in Calls /\ locals.of = work.of /\ locals.left = Mid + 1
      /\ locals.right = work.right /\ locals.elem = work.elem
  BY <1>2, <1>3, SearchCallFacts DEF Calls
<1>5. Inside(q.s, work) /\ Len(q.s) \in Nat
  BY <1>2, SearchCallFacts
<1>6. Inside(q.s, locals)
  BY <1>3, <1>4, <1>5 DEF Inside
<1>7. ASSUME q.exact PROVE Brackets(q.s, locals)
  <2>1. Brackets(q.s, work) /\ Ascending(q.s)
    BY <1>2, <1>7, SearchCallFacts
  <2>2. ASSUME NEW k \in 1 .. locals.left PROVE Key(q.s[k]) < Key(work.elem)
    <3>1. k = Mid + 1 \/ k < Mid + 1
      BY <1>3, <1>4
    <3>2. k \in 1 .. Len(q.s)
      BY <1>3, <1>4, <1>5
    <3>3. Key(q.s[Mid + 1]) \in Int /\ Key(q.s[k]) \in Int /\ Key(work.elem) \in Int
      BY <1>2, <1>3, <3>2, SearchCallFacts, ElementOfSeq DEF Parameters, Calls
    <3>4. QED
      BY <1>1, <1>3, <2>1, <3>1, <3>2, <3>3 DEF Ascending
  <2>3. QED
    BY <1>4, <2>1, <2>2 DEF Brackets
<1> HIDE DEF locals
<1>8. QED
  BY <1>1, <1>2, <1>4, <1>6, <1>7, SearchCallFacts, SortedContinue

(* The element is the one in the middle. *)
LEMMA FoundStep == ASSUME SortedIInv, Found PROVE SortedIInv'
<1> DEFINE q == Here(work.of)
<1>1. Searching /\ work # NoWork
  BY DEF Found, Searching
<1>2. /\ work.of \in Objects /\ obj[work.of].at \in Addresses /\ ret # "undefined"
      /\ Used(q) /\ q.s \in Seq(Elems) /\ (q.exact => Ascending(q.s))
  BY <1>1, SearchCallFacts
<1>3. Mid + 1 \in 1 .. Len(q.s) /\ Mid \in 0 .. Len(q.s) - 1
  BY <1>1, SearchingFacts, SearchCallFacts
<1>4. \A rc : Sound(q, Answer(rc, q)) /\ Answer(rc, q).q = q
  BY <1>2 DEF Sound, Used, Answer
<1>5. ASSUME NEW r \in EraseElem(q, Mid) PROVE Sound(q, r) /\ (r.q.exact => Ascending(r.q.s))
  BY <1>2, <1>3, EraseElemSound, RemovedAscends
<1>6. \/ Reply(work.of, Answer("CS_ELEM", q)) \/ Reply(work.of, Answer("found", q))
      \/ \E r \in EraseElem(q, Mid) : Reply(work.of, r)
  BY DEF Found
<1>7. QED
  BY <1>2, <1>4, <1>5, <1>6, SortedReply

(* The range is empty: the element is in no place and belongs at `left`. *)
LEMMA AbsentStep == ASSUME Parameters, SortedIInv, Absent PROVE SortedIInv'
<1> DEFINE q == Here(work.of)
<1>1. work # NoWork /\ work.left > work.right
  BY DEF Absent
<1>2. /\ work.of \in Objects /\ obj[work.of].at \in Addresses /\ ret # "undefined"
      /\ Used(q) /\ q.s \in Seq(Elems) /\ Len(q.s) \in Nat
      /\ q.exact => Brackets(q.s, work) /\ Ascending(q.s)
  BY <1>1, SearchCallFacts
<1>3. work.left \in 0 .. Len(q.s) /\ work.right + 1 = work.left /\ work.elem \in Elems
  BY <1>1, SearchCallFacts DEF Inside, Calls
<1>4. \A rc : Sound(q, Answer(rc, q)) /\ Answer(rc, q).q = q
  BY <1>2 DEF Sound, Used, Answer
<1>5. ASSUME NEW r \in InsertElem(q, work.elem, work.left)
      PROVE  Sound(q, r) /\ (r.q.exact => Ascending(r.q.s))
  <2>1. /\ Sound(q, r)
        /\ r.q.exact => /\ q.exact
                        /\ r.q.s = q.s \/ r.q.s = InsertAt(q.s, work.left + 1, work.elem)
    BY <1>2, <1>3, InsertElemSound
  <2>2. ASSUME q.exact PROVE Ascending(InsertAt(q.s, work.left + 1, work.elem))
    <3>1. /\ \A k \in 1 .. work.left : Key(q.s[k]) < Key(work.elem)
          /\ \A k \in work.left + 1 .. Len(q.s) : Key(work.elem) < Key(q.s[k])
      <4>1. work.right + 2 = work.left + 1
        BY <1>1, <1>3, SearchCallFacts DEF Inside
      <4>2. QED
        BY <1>2, <2>2, <4>1 DEF Brackets
    <3>2. QED
      BY <1>2, <1>3, <2>2, <3>1, InsertedAscends
  <2>3. QED
    BY <1>2, <2>1, <2>2
<1>6. \/ Reply(work.of, Answer("CS_ELEM", q)) \/ Reply(work.of, Answer("absent", q))
      \/ \E r \in InsertElem(q, work.elem, work.left) : Reply(work.of, r)
  BY DEF Absent
<1>7. QED
  BY <1>2, <1>4, <1>5, <1>6, SortedReply

(* init, clear, swap and free leave the arrays alone, or empty. *)
LEMMA ManageSortedStep == ASSUME Parameters, SortedIInv, Manage PROVE SortedIInv'
<1>1. Shared' /\ Emptying /\ work = NoWork /\ work' = NoWork
  BY ManageStep DEF SortedIInv
<1>2. ASSUME NEW c \in Addresses, mem'[c].exact PROVE Ascending(mem'[c].s)
  <2>1. CASE mem'[c] = mem[c]
    BY <1>1, <1>2, <2>1 DEF SortedIInv, Ascended
  <2>2. CASE mem'[c].s = << >>
    BY <2>2, EmptySeq DEF Ascending
  <2>3. QED
    BY <1>1, <2>1, <2>2 DEF Emptying
<1>3. SearchWork' /\ Ranged' /\ Ascended'
  BY <1>1, <1>2 DEF SearchWork, Ranged, Ascended
<1>4. QED
  BY <1>1, <1>3 DEF SortedIInv

-----------------------------------------------------------------------------
(* The theorems. *)

(* No set is made yet. *)
LEMMA SortedInit == ASSUME Parameters, Init PROVE SortedIInv
<1>1. Shared /\ work = NoWork
  BY SharedInit DEF Init
<1>2. \A c \in Addresses : Ascending(mem[c].s)
  BY EmptySeq DEF Init, NoContainer, Ascending
<1>3. QED
  BY <1>1, <1>2 DEF SortedIInv, SearchWork, Ranged, Ascended

(* Every step preserves the invariant. *)
LEMMA SortedStep == ASSUME Parameters, SortedIInv, [SortedNext]_vars PROVE SortedIInv'
<1>1. CASE Manage
  BY <1>1, ManageSortedStep
<1>2. CASE Turn
  BY <1>2, GoLeftStep, GoRightStep, FoundStep, AbsentStep DEF Turn
<1>3. ASSUME NEW o \in Objects, NEW e \in Elems, NEW op \in {"insert", "erase", "find"},
             Search(o, op, e)
      PROVE  SortedIInv'
  BY <1>3, SearchStep
<1>4. CASE UNCHANGED vars
  BY <1>4 DEF vars, SortedIInv, Shared, Typed, AllFilled, Filled, Over, Busy, Sole, SearchWork, Ranged,
              Inside, Brackets, Here, Ascended
<1>5. QED
  BY <1>1, <1>2, <1>3, <1>4 DEF SortedNext

(* The elements of every flat set stay strictly in order: the place that the
   search ends at is the only one where the element does not break the order. *)
THEOREM SortedCorrect == ASSUME Parameters PROVE SortedSpec => []StrictlySorted
<1>1. ASSUME SortedIInv PROVE StrictlySorted
  <2>1. ASSUME NEW c \in Addresses, mem[c].exact, NEW k \in 2 .. Len(mem[c].s)
        PROVE  Key(mem[c].s[k - 1]) < Key(mem[c].s[k])
    <3>1. Len(mem[c].s) \in Nat
      BY <1>1, LenProperties DEF SortedIInv, Shared, Typed, Container
    <3>2. k \in 1 .. Len(mem[c].s) /\ k - 1 \in 1 .. Len(mem[c].s) /\ k - 1 < k
      BY <3>1
    <3>3. QED
      BY <1>1, <2>1, <3>2 DEF SortedIInv, Ascended, Ascending
  <2>2. QED
    BY <2>1 DEF StrictlySorted
<1>2. QED
  BY <1>1, SortedInit, SortedStep, PTL DEF SortedSpec

(* The range of a search always brackets the place of the element. *)
THEOREM SearchCorrect == ASSUME Parameters PROVE SortedSpec => []RangeBrackets
<1>1. SortedIInv => RangeBrackets
  BY DEF SortedIInv, Ranged, Inside, Brackets, RangeBrackets
<1>2. QED
  BY <1>1, SortedInit, SortedStep, PTL DEF SortedSpec

(* Every container belongs to one flat set, which has its type. *)
THEOREM SetsOwn == ASSUME Parameters PROVE SortedSpec => []OwnedByType
<1>1. SortedIInv => OwnedByType
  BY SoleOwners DEF SortedIInv
<1>2. QED
  BY <1>1, SortedInit, SortedStep, PTL DEF SortedSpec

=============================================================================
