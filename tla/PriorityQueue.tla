--------------------------- MODULE PriorityQueue ---------------------------
(***************************************************************************)
(* priority_queue.c: a binary heap in a vector or a deque, the largest     *)
(* element first.  Indices count from 1, as the loops of the code do.      *)
(***************************************************************************)
EXTENDS Adaptor

\* s with the elements at k and l exchanged, through temp.
Exchanged(s, k, l) == [s EXCEPT ![k] = s[l], ![l] = s[k]]

\* push appends the element and then needs memory to move it.
Push(o, e) ==
  /\ Usable(o) /\ Roomy(o)
  /\ \E r \in PushBack(Here(o), e) :
       IF r.rc # "CS_SUCCESS" THEN Reply(o, r)
       ELSE \/ Continue(o, r.q, [op |-> "push", of |-> o, idx |-> Len(r.q.s)])
            \/ AllocFails /\ Reply(o, Answer("CS_MEM", [r.q EXCEPT !.exact = FALSE]))

SiftUp ==
  LET q == Here(work.of)  idx == work.idx  parent == idx \div 2 IN
  /\ work.op = "push" /\ idx > 1 /\ Key(q.s[idx]) > Key(q.s[parent])
  /\ Continue(work.of, [q EXCEPT !.s = Exchanged(@, idx, parent)], [work EXCEPT !.idx = parent])

SiftUpEnd ==
  LET q == Here(work.of)  idx == work.idx IN
  /\ work.op = "push" /\ (idx > 1 => Key(q.s[idx]) <= Key(q.s[idx \div 2]))
  /\ Reply(work.of, Done(q))

\* The last element takes the place of the first and then moves down; `out` is
\* history: the element that goes.
PopTop(o) ==
  LET q == Here(o)  s == q.s IN
  /\ Usable(o)
  /\ IF q.life = "gone" \/ (q.life = "lost" /\ s # << >>)
       THEN \/ \E r \in Undefined(q) : Reply(o, r)
            \/ Len(s) > 1 /\ AllocFails /\ Reply(o, Answer("CS_MEM", q))
     ELSE IF s = << >> THEN Reply(o, Answer("CS_EMPTY", q))
     ELSE IF Len(s) = 1 THEN \E r \in PopBack(q) : Reply(o, r)
     ELSE \/ Continue(o, [q EXCEPT !.s = Front([s EXCEPT ![1] = Last(s)])],
                      [op |-> "pop", of |-> o, idx |-> 1, out |-> s[1]])
          \/ AllocFails /\ Reply(o, Answer("CS_MEM", q))
          \/ q.life = "nobuf" /\ \E r \in Undefined(q) : Reply(o, r)

\* Mutant of Largest: the right child is compared with the parent.
LargestOfPairs(s, idx) ==
  LET left == idx * 2  right == idx * 2 + 1
      larger == IF left <= Len(s) /\ Key(s[left]) > Key(s[idx]) THEN left ELSE idx
  IN  IF right <= Len(s) /\ Key(s[right]) > Key(s[idx]) THEN right ELSE larger

\* The index of the largest of an element and its two children.
Largest(s, idx) ==
  LET left == idx * 2  right == idx * 2 + 1
      larger == IF left <= Len(s) /\ Key(s[left]) > Key(s[idx]) THEN left ELSE idx
  IN  IF right <= Len(s) /\ Key(s[right]) > Key(s[larger]) THEN right ELSE larger

SiftDown ==
  LET q == Here(work.of)  idx == work.idx  largest == Largest(q.s, idx) IN
  /\ work.op = "pop" /\ largest # idx
  /\ Continue(work.of, [q EXCEPT !.s = Exchanged(@, idx, largest)], [work EXCEPT !.idx = largest])

SiftDownEnd ==
  LET q == Here(work.of) IN
  /\ work.op = "pop" /\ Largest(q.s, work.idx) = work.idx
  /\ Reply(work.of, Done(q))

Sift == SiftUp \/ SiftUpEnd \/ SiftDown \/ SiftDownEnd

HeapNext ==
  /\ UNCHANGED adaptor
  /\ \/ Manage \/ Sift
     \/ \E o \in Objects : PopTop(o) \/ \E e \in Elems : Push(o, e)

HeapSpec == adaptor = "priority_queue" /\ Init /\ [][HeapNext]_vars

=============================================================================
