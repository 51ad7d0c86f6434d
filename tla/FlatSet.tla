------------------------------ MODULE FlatSet ------------------------------
(***************************************************************************)
(* flat_set.c: a sorted vector or deque.  insert, erase and find share a   *)
(* binary search over the indices left .. right, one turn a step.          *)
(***************************************************************************)
EXTENDS Adaptor

\* A set whose container is gone is read before the search.
Search(o, op, e) ==
  /\ Usable(o) /\ (op = "insert" => Roomy(o))
  /\ IF Here(o).life = "gone" \/ (Here(o).life = "lost" /\ Here(o).s # << >>)
       THEN \E r \in Undefined(Here(o)) : Reply(o, r)
     ELSE \/ Continue(o, Here(o), [op |-> op, of |-> o, elem |-> e,
                                   left |-> 0, right |-> Len(Here(o).s) - 1])
          \/ /\ Here(o).life = "nobuf" /\ Here(o).s # << >>
             /\ \E r \in Undefined(Here(o)) : Reply(o, r)

Mid == (work.left + work.right) \div 2
AtMid == Here(work.of).s[Mid + 1]
Searching == work # NoWork /\ work.left <= work.right

\* Mutant of GoLeft: the middle stays in the range.
GoLeftInclusive ==
  /\ Searching /\ Key(work.elem) < Key(AtMid)
  /\ Continue(work.of, Here(work.of), [work EXCEPT !.right = Mid])

GoLeft ==
  /\ Searching /\ Key(work.elem) < Key(AtMid)
  /\ Continue(work.of, Here(work.of), [work EXCEPT !.right = Mid - 1])

\* Mutant of GoRight: the element behind the middle is skipped.
GoRightTooFar ==
  /\ Searching /\ Key(work.elem) > Key(AtMid)
  /\ Continue(work.of, Here(work.of), [work EXCEPT !.left = Mid + 2])

GoRight ==
  /\ Searching /\ Key(work.elem) > Key(AtMid)
  /\ Continue(work.of, Here(work.of), [work EXCEPT !.left = Mid + 1])

Found ==
  LET q == Here(work.of) IN
  /\ Searching /\ Key(work.elem) = Key(AtMid)
  /\ \/ work.op = "insert" /\ Reply(work.of, Answer("CS_ELEM", q))
     \/ work.op = "erase" /\ \E r \in EraseElem(q, Mid) : Reply(work.of, r)
     \/ work.op = "find" /\ Reply(work.of, Answer("found", q))

\* Mutant of Absent: the element is inserted where the last middle was.
AbsentAtMiddle ==
  LET q == Here(work.of)  mid == IF work.left = 0 THEN 0 ELSE work.left - 1 IN
  /\ work # NoWork /\ work.left > work.right
  /\ \/ work.op = "insert" /\ \E r \in InsertElem(q, work.elem, mid) : Reply(work.of, r)
     \/ work.op = "erase" /\ Reply(work.of, Answer("CS_ELEM", q))
     \/ work.op = "find" /\ Reply(work.of, Answer("absent", q))

Absent ==
  LET q == Here(work.of) IN
  /\ work # NoWork /\ work.left > work.right
  /\ \/ work.op = "insert" /\ \E r \in InsertElem(q, work.elem, work.left) : Reply(work.of, r)
     \/ work.op = "erase" /\ Reply(work.of, Answer("CS_ELEM", q))
     \/ work.op = "find" /\ Reply(work.of, Answer("absent", q))

Turn == GoLeft \/ GoRight \/ Found \/ Absent

SortedNext ==
  /\ UNCHANGED adaptor
  /\ \/ Manage \/ Turn
     \/ \E o \in Objects, e \in Elems, op \in {"insert", "erase", "find"} : Search(o, op, e)

SortedSpec == adaptor = "flat_set" /\ Init /\ [][SortedNext]_vars

=============================================================================
