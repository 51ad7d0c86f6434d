-------------------------- MODULE MCPriorityQueue --------------------------
(***************************************************************************)
(* One priority queue of up to three elements; every allocation succeeds.  *)
(***************************************************************************)
EXTENDS PriorityQueue

CONSTANTS pq, here

Plain(e) == e

\* The capacity of the one container.
Room == [c \in Addresses |-> 3]

=============================================================================
