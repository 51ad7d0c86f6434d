----------------------------- MODULE MCWrappers -----------------------------
(***************************************************************************)
(* The containers that wrap another one, a kind of them per behavior:      *)
(* either two keyed containers, or two adaptors of which one container is  *)
(* given room for a deep heap or a long search and the other one little.   *)
(***************************************************************************)
EXTENDS KeyedContainers, AdaptorState

CONSTANTS c1, c2, k1, k2, near, far

adaptors == << adaptor, obj, mem, work, ret >>

Bound(n, f) == [c \in Addresses |-> IF c = near THEN n ELSE f]

\* Two elements of a flat set have the same key.
KeyOf(e) == IF e = 5 THEN 2 ELSE e

P == INSTANCE PriorityQueue WITH Null <- NoAttr, Types <- {"vector", "deque"},
       Elems <- 1 .. 3, AllocFails <- TRUE, MaxSize <- Bound(5, 0)
F == INSTANCE FlatSet WITH Null <- NoAttr, Types <- {"vector", "deque"},
       Elems <- 1 .. 5, AllocFails <- TRUE, MaxSize <- Bound(5, 0)
S == INSTANCE Stack WITH Null <- NoAttr, Types <- {"vector", "deque", "list"},
       Elems <- 1 .. 2, AllocFails <- TRUE, MaxSize <- Bound(4, 2)
Q == INSTANCE Queue WITH Null <- NoAttr, Types <- {"list", "deque"},
       Elems <- 1 .. 2, AllocFails <- TRUE, MaxSize <- Bound(4, 2)

AnyInit ==
  /\ adaptor \in {"none", "priority_queue", "flat_set", "stack", "queue"}
  /\ Init /\ (adaptor # "none" => kind = "map")
  /\ P!Init

AnyNext ==
  \/ adaptor = "none" /\ Next /\ UNCHANGED adaptors
  \/ /\ UNCHANGED vars
     /\ \/ adaptor = "priority_queue" /\ P!HeapNext
        \/ adaptor = "flat_set" /\ F!SortedNext
        \/ adaptor = "stack" /\ S!Next
        \/ adaptor = "queue" /\ Q!Next

AnySpec == AnyInit /\ [][AnyNext]_<< vars, adaptors >>

\* The thread that is in a loop takes its next turn.
Turn == /\ UNCHANGED adaptor
        /\ \/ adaptor = "priority_queue" /\ P!Sift
           \/ adaptor = "flat_set" /\ F!Turn

FairSpec == AnySpec /\ WF_adaptors(Turn)

-----------------------------------------------------------------------------
(* What an adaptor holds, and the promise it implements. *)

Discipline == CASE adaptor = "stack" -> "lifo"
                [] adaptor = "flat_set" -> "set"
                [] adaptor = "priority_queue" -> "priority"
                [] OTHER -> "fifo"

Kept(o) == obj[o].at # NoAttr

\* A failed allocation has left a container without its array, its blocks or
\* one of its elements.
Lost == \E c \in Addresses : mem[c].life \notin {"free", "live"} \/ ~mem[c].exact

\* The answer of init is the address of the container, returned as a code, where
\* the headers, the READMEs and the unit tests have CS_SUCCESS.
Announced(code) == IF code = "pointer" THEN "CS_SUCCESS" ELSE code

\* The element at i of a container belongs to its adaptor: one that is being
\* pushed does not yet.
Settled(o, i) == work.op = "push" /\ work.of = o => i # work.idx
Occurrences(o, e) ==
  Cardinality({i \in DOMAIN Here(o).s : Here(o).s[i] = e /\ Settled(o, i)})
  + (IF work.op = "pop" /\ work.of = o /\ work.out = e THEN 1 ELSE 0)

ContentOf(o) ==
  CASE Discipline = "priority" -> [e \in 1 .. 5 |-> IF e <= 3 /\ Kept(o) THEN Occurrences(o, e) ELSE 0]
    [] Discipline = "set" -> IF Kept(o) THEN {Here(o).s[i] : i \in DOMAIN Here(o).s} ELSE {}
    [] OTHER -> IF Kept(o) THEN Here(o).s ELSE << >>

\* flat_set_insert and flat_set_erase answer CS_ELEM where flat_set.h has
\* CS_EXISTS and CS_NOT_FOUND, codes that universal.h does not define.
A == INSTANCE AdaptorSpec WITH Elems <- 1 .. 5, MayBreak <- TRUE,
       PresentCode <- "CS_ELEM", AbsentCode <- "CS_ELEM",
       discipline <- Discipline, live <- {o \in Objects : Kept(o)},
       content <- [o \in Objects |-> ContentOf(o)],
       ret <- IF Lost THEN "lost" ELSE Announced(ret)

-----------------------------------------------------------------------------
(* Correctness. *)

(* The loops of push, pop and of the binary searches end. *)
CallsReturn == work # NoWork ~> work = NoWork

(* Stacks, queues, priority queues and flat sets do what their headers say, up
   to a failed allocation that costs a container its state; only an insertion
   into a flat set, the clearing of an empty adaptor and free may be undefined.
   Three answers are not those of the headers, and are read as if they were:
   init answers an address where stack.h, flat_set.h, the READMEs and the unit
   tests have CS_SUCCESS (stack_unittest.h:19-26), flat_set_insert and
   flat_set_erase answer CS_ELEM where flat_set.h:30 has CS_EXISTS and
   flat_set.h:38 CS_NOT_FOUND. *)
AdaptorImplements == A!Spec

=============================================================================
