------------------------------- MODULE Stack -------------------------------
(***************************************************************************)
(* stack.c: the back of a vector, a deque or a list.                       *)
(***************************************************************************)
EXTENDS Adaptor

Push(o, e) ==
  /\ Usable(o) /\ Roomy(o)
  /\ \E r \in PushBack(Here(o), e) : Reply(o, r)

PopTop(o) == Usable(o) /\ \E r \in PopBack(Here(o)) : Reply(o, r)

\* There is no stack_swap.
Next ==
  /\ UNCHANGED adaptor
  /\ \E o \in Objects : \/ \E type \in Types : Start(o, type)
                        \/ Clear(o) \/ Free(o) \/ PopTop(o)
                        \/ \E e \in Elems : Push(o, e)

Spec == adaptor = "stack" /\ Init /\ [][Next]_vars

=============================================================================
