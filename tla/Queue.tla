------------------------------- MODULE Queue -------------------------------
(***************************************************************************)
(* queue.c: elements go in at the back of a list or a deque and come out   *)
(* at its front.                                                           *)
(***************************************************************************)
EXTENDS Adaptor

Push(o, e) ==
  /\ Usable(o) /\ Roomy(o)
  /\ \E r \in PushBack(Here(o), e) : Reply(o, r)

\* Mutant of PopFirst: the element that was pushed last comes out.
PopFirstLast(o) == Usable(o) /\ \E r \in PopBack(Here(o)) : Reply(o, r)

PopFirst(o) == Usable(o) /\ \E r \in PopFront(Here(o)) : Reply(o, r)

Next ==
  /\ UNCHANGED adaptor
  /\ \/ Manage
     \/ \E o \in Objects : PopFirst(o) \/ \E e \in Elems : Push(o, e)

Spec == adaptor = "queue" /\ Init /\ [][Next]_vars

=============================================================================
