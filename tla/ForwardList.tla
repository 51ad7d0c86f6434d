---------------------------- MODULE ForwardList ----------------------------
(***************************************************************************)
(* forward_list.h and forward_list.c: a chain of nodes from head to tail,  *)
(* pushed and popped at the head.  The nodes of all lists are on one heap; *)
(* malloc may return any of them that is free.                             *)
(***************************************************************************)
EXTENDS Integers, Sequences, FiniteSets, MergeSort, Narrowing

CONSTANTS
  Lists,   (* the lists of the program                                     *)
  Nodes,   (* the addresses of nodes: they bound the elements of all lists *)
  Elems,   (* the elements                                                 *)
  Key(_),  (* attr.comp, or memcmp, compares the keys of elements          *)
  Null,    (* NULL                                                         *)
  MallocFails (* whether malloc may fail                                   *)

VARIABLES
  list,  (* list[l]: the structure                                         *)
  heap,  (* heap[n]: the node at address n, for those allocated            *)
  ret    (* what the last call returned                                    *)

vars == << list, heap, ret >>

Fresh == [live |-> TRUE, head |-> Null, tail |-> Null, size |-> 0]
Freed == [Fresh EXCEPT !.live = FALSE]

Init == list = [l \in Lists |-> Fresh] /\ heap = << >> /\ ret = "CS_SUCCESS"

Usable(l) == list[l].live

Becomes(l, q, h) == list' = [list EXCEPT ![l] = q] /\ heap' = h /\ ret' = "CS_SUCCESS"
Refuse(code)     == ret' = code /\ UNCHANGED << list, heap >>

NewNode(n, e, head) ==
  [m \in DOMAIN heap \cup {n} |-> IF m = n THEN [next |-> head, data |-> e] ELSE heap[m]]
Without(h, ns) == [n \in DOMAIN h \ ns |-> h[n]]

\* The nodes from n on, by their next pointers.
Chain(h, n) ==
  LET next == [m \in DOMAIN h \cup {Null} |-> IF m = Null THEN Null ELSE h[m].next]
      at[i \in 0 .. Cardinality(DOMAIN h)] == IF i = 0 THEN n ELSE next[at[i - 1]]
  IN  [i \in 1 .. Cardinality({k \in 0 .. Cardinality(DOMAIN h) - 1 : at[k] # Null}) |-> at[i - 1]]

\* The nodes in the order of s, joined to a chain.
Joined(h, s) ==
  [n \in DOMAIN h |->
     IF n \notin ToSet(s) THEN h[n]
     ELSE LET i == CHOOSE j \in DOMAIN s : s[j] = n IN
          [h[n] EXCEPT !.next = IF i = Len(s) THEN Null ELSE s[i + 1]]]

-----------------------------------------------------------------------------
(* The operations. *)

PushFront(l, e) ==
  LET q == list[l] IN
  /\ Usable(l)
  /\ \/ \E n \in Nodes \ DOMAIN heap :
          Becomes(l, [q EXCEPT !.head = n, !.tail = IF q.size = 0 THEN n ELSE @, !.size = @ + 1],
                  NewNode(n, e, q.head))
     \/ MallocFails /\ Refuse("CS_MEM")

\* Mutant of PopFront: the tail of an emptied list is not reset.
PopFrontKeepsTail(l) ==
  LET q == list[l] IN
  /\ Usable(l)
  /\ IF q.size = 0 THEN Refuse("CS_EMPTY")
     ELSE Becomes(l, [q EXCEPT !.size = @ - 1, !.head = heap[q.head].next], Without(heap, {q.head}))

PopFront(l) ==
  LET q == list[l] IN
  /\ Usable(l)
  /\ IF q.size = 0 THEN Refuse("CS_EMPTY")
     ELSE Becomes(l, IF q.size = 1 THEN Fresh
                     ELSE [q EXCEPT !.size = @ - 1, !.head = heap[q.head].next],
                  Without(heap, {q.head}))

Sort(l) ==
  LET q == list[l]
      key == [n \in DOMAIN heap |-> Key(heap[n].data)]
      s == ForwardSorted(Chain(heap, q.head), key)
  IN  /\ Usable(l)
      /\ IF q.size < 2 THEN Refuse("CS_SUCCESS")
         ELSE Becomes(l, [q EXCEPT !.head = s[1], !.tail = Last(s)], Joined(heap, s))

\* The size of the first list waits in an int.
Swap(l, m) ==
  /\ Usable(l) /\ Usable(m) /\ l # m
  /\ list' = [list EXCEPT ![l] = list[m], ![m] = [list[l] EXCEPT !.size = ThroughInt(@)]]
  /\ ret' = "CS_SUCCESS" /\ UNCHANGED heap

Clear(l) == Usable(l) /\ Becomes(l, Fresh, Without(heap, ToSet(Chain(heap, list[l].head))))
Free(l)  == Usable(l) /\ Becomes(l, Freed, Without(heap, ToSet(Chain(heap, list[l].head))))

Start(l) == ~list[l].live /\ (Becomes(l, Fresh, heap) \/ (MallocFails /\ Refuse("CS_MEM")))

Next ==
  \/ \E l \in Lists : \/ PopFront(l) \/ Sort(l) \/ Clear(l) \/ Free(l) \/ Start(l)
                      \/ \E e \in Elems : PushFront(l, e)
  \/ \E l, m \in Lists : Swap(l, m)

Spec == Init /\ [][Next]_vars

-----------------------------------------------------------------------------
(* Correctness. *)

TypeOK ==
  /\ ret \in {"CS_SUCCESS", "CS_MEM", "CS_EMPTY"}
  /\ \A l \in Lists : /\ list[l].live \in BOOLEAN /\ list[l].size \in 0 .. Cardinality(Nodes)
                      /\ {list[l].head, list[l].tail} \subseteq Nodes \cup {Null}
  /\ DOMAIN heap \subseteq Nodes /\ heap \in [DOMAIN heap -> [next : Nodes \cup {Null}, data : Elems]]

(* The nodes of a list form a chain of as many nodes as its size tells, from
   head to a tail with no successor; no node is in two lists, and none is
   allocated outside of all of them. *)
ChainIntact ==
  LET chain == [l \in Lists |-> Chain(heap, list[l].head)] IN
  /\ \A l \in Lists : LET s == chain[l] IN
       /\ Len(s) = list[l].size /\ IsInjective(s)
       /\ list[l].tail = IF s = << >> THEN Null ELSE Last(s)
       /\ s # << >> => heap[Last(s)].next = Null
  /\ DOMAIN heap = UNION {ToSet(chain[l]) : l \in Lists}
  /\ \A l, m \in Lists : l # m => ToSet(chain[l]) \cap ToSet(chain[m]) = {}

Place(e, by) == Key(e)

Data(h, s) == [i \in DOMAIN s |-> h[s[i]].data]

Abs == INSTANCE SequenceSpec WITH
  Objects <- Lists, Orders <- {"comp"}, Key <- Place, Stable <- FALSE, Skips <- FALSE,
  MayBreak <- FALSE, EmptyCode <- "CS_EMPTY", PosCode <- "CS_POS",
  live <- {l \in Lists : list[l].live},
  order <- [l \in Lists |-> "comp"],
  content <- [l \in Lists |-> Data(heap, Chain(heap, list[l].head))]

(* The lists implement sequences of elements that are pushed and popped at the
   front; a sort puts them in order, but not those with the same key.  The
   header names no code for a pop of an empty list: this one is the code's. *)
ForwardListImplements == Abs!Spec

=============================================================================
