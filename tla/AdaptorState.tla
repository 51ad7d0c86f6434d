---------------------------- MODULE AdaptorState ----------------------------
(***************************************************************************)
(* The adaptors of a program, the containers that they own, and what must  *)
(* hold of them.  A program uses one kind of adaptor: no call concerns     *)
(* adaptors of two kinds.                                                  *)
(***************************************************************************)
EXTENDS Integers, Sequences

CONSTANTS
  Objects,    (* the adaptors of the program                               *)
  Addresses,  (* where containers may be allocated                         *)
  Key(_)      (* attr.comp compares the keys of elements                   *)

VARIABLES
  adaptor, (* "priority_queue", "flat_set", "stack" or "queue"             *)
  obj,     (* obj[o]: the type, and the address `at` of the container      *)
  mem,     (* mem[c]: the container at address c; `exact` is history: no   *)
           (* failed allocation has left its elements in the wrong places  *)
  work,    (* the local variables of the call in progress                  *)
  ret      (* what the last call returned                                  *)

\* No call is in progress.
NoWork == [op |-> "none"]

Here(o) == mem[obj[o].at]

Owners(c) == {o \in Objects : obj[o].at = c}

(* Every container belongs to exactly one adaptor, which has its type: a call
   never takes a deque for a vector, and no container is used by two adaptors
   or forgotten. *)
OwnedByType ==
  ret # "undefined" =>
    \A c \in Addresses :
      IF mem[c].life = "free" THEN Owners(c) = {}
      ELSE \E o \in Objects : Owners(c) = {o} /\ obj[o].type = mem[c].type

(* Between calls no element of a priority queue is larger than its parent:
   however many turns the loops of push and pop take, they leave no pair out
   of order.  A push that finds no memory to move its element leaves it where
   it is, and tells. *)
HeapOrdered ==
  (adaptor = "priority_queue" /\ work = NoWork) =>
    \A c \in Addresses : mem[c].exact =>
      \A k \in 2 .. Len(mem[c].s) : Key(mem[c].s[k]) <= Key(mem[c].s[k \div 2])

(* The elements of a flat set are in order, and no two of them are equal. *)
StrictlySorted ==
  adaptor = "flat_set" =>
    \A c \in Addresses : mem[c].exact =>
      \A k \in 2 .. Len(mem[c].s) : Key(mem[c].s[k - 1]) < Key(mem[c].s[k])

(* The search of a flat set narrows down to the one place where the element is
   or belongs: all to the left of the range is smaller, all to the right is
   larger. *)
RangeBrackets ==
  (adaptor = "flat_set" /\ work # NoWork /\ Here(work.of).exact) =>
    LET s == Here(work.of).s IN
    /\ work.left \in 0 .. Len(s) /\ work.right \in -1 .. Len(s) - 1
    /\ work.left <= work.right + 1
    /\ \A k \in 1 .. work.left : Key(s[k]) < Key(work.elem)
    /\ \A k \in work.right + 2 .. Len(s) : Key(work.elem) < Key(s[k])

=============================================================================
