------------------------------ MODULE Containers -----------------------------
(***************************************************************************)
(* Vectors, lists or forward lists: a behavior picks one kind of container *)
(* and the variables of the others keep their initial values.              *)
(***************************************************************************)
EXTENDS Vector

CONSTANTS
  Lists,      (* the lists and the forward lists of the program            *)
  Nodes,      (* the addresses of their nodes                              *)
  ListElems,  (* their elements                                            *)
  ListKey(_), (* attr.comp compares the keys of elements                   *)
  Null        (* NULL                                                      *)

\* A sort has 32 bins, which hold fewer than 2^32 nodes (list.c:124); the size
\* of a list is an int, and that of a forward list is kept in one (Swap).
ASSUME ListsAssumption ==
  /\ IsFiniteSet(Nodes) /\ Cardinality(Nodes) \div 65536 < 65536 /\ Null \notin Nodes
  /\ Cardinality(Nodes) <= IntMax
  /\ \A e \in ListElems : ListKey(e) \in Int

VARIABLES
  kind,               (* the kind of container picked             *)
  list, heap, lret,   (* list, heap and ret of List               *)
  flist, fheap, fret  (* list, heap and ret of ForwardList        *)

L == INSTANCE List WITH Elems <- ListElems, Key <- ListKey, MallocFails <- AllocFails, ret <- lret
F == INSTANCE ForwardList WITH Elems <- ListElems, Key <- ListKey, MallocFails <- AllocFails,
                               list <- flist, heap <- fheap, ret <- fret

AnyInit == Init /\ L!Init /\ F!Init /\ kind \in {"vector", "list", "forward_list"}

AnyNext ==
  /\ UNCHANGED kind
  /\ \/ kind = "vector" /\ Next /\ UNCHANGED << list, heap, lret, flist, fheap, fret >>
     \/ kind = "list" /\ L!Next /\ UNCHANGED << vec, radix, ret, flist, fheap, fret >>
     \/ kind = "forward_list" /\ F!Next /\ UNCHANGED << vec, radix, ret, list, heap, lret >>

AnySpec ==
  AnyInit /\ [][AnyNext]_<< kind, vec, radix, ret, list, heap, lret, flist, fheap, fret >>

(* Every field of every kind of container keeps its range. *)
TypesOK == TypeOK /\ L!TypeOK /\ F!TypeOK

(* The nodes of a list form one ring that is linked in both directions, and no
   operation of list.c leaks a node or keeps a freed one. *)
RingIntact == L!RingIntact

(* The nodes of a forward list form a chain from head to tail, and no operation
   of forward_list.c leaks a node or keeps a freed one. *)
ChainIntact == F!ChainIntact

(* Lists are sequences, which list_sort sorts stably, up to a clear of an empty
   list; of a call that is refused, only that it has no effect. *)
ListImplements == L!ListImplements

(* Forward lists are sequences, which forward_list_sort sorts. *)
ForwardListImplements == F!ForwardListImplements

=============================================================================
