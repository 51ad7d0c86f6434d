-------------------------------- MODULE List --------------------------------
(***************************************************************************)
(* list.h and list.c: a ring of nodes that a list enters at front, and     *)
(* whose last node is front->prev.  The nodes of all lists are on one      *)
(* heap; malloc may return any of them that is free, and an access to one  *)
(* that is not allocated has no value.                                     *)
(***************************************************************************)
EXTENDS Integers, Sequences, FiniteSets, MergeSort

CONSTANTS
  Lists,   (* the lists of the program                                     *)
  Nodes,   (* the addresses of nodes: they bound the elements of all lists *)
  Elems,   (* the elements                                                 *)
  Key(_),  (* attr.comp, or memcmp, compares the keys of elements          *)
  Null,    (* NULL                                                         *)
  MallocFails (* whether malloc may fail                                   *)

VARIABLES
  list,  (* list[l]: the structure                                         *)
  heap,  (* heap[n]: the node at address n, for those allocated            *)
  ret    (* what the last call returned, "crash" after a NULL dereference  *)

vars == << list, heap, ret >>

Fresh == [live |-> TRUE, front |-> Null, size |-> 0]
Freed == [Fresh EXCEPT !.live = FALSE]

Init == list = [l \in Lists |-> Fresh] /\ heap = << >> /\ ret = "CS_SUCCESS"

Usable(l) == ret # "crash" /\ list[l].live

Becomes(l, q, h) == list' = [list EXCEPT ![l] = q] /\ heap' = h /\ ret' = "CS_SUCCESS"
Refuse(code)     == ret' = code /\ UNCHANGED << list, heap >>

-----------------------------------------------------------------------------
(* The ring. *)

NewNode(n, e) ==
  [m \in DOMAIN heap \cup {n} |-> IF m = n THEN [next |-> n, prev |-> n, data |-> e] ELSE heap[m]]
Without(h, ns) == [n \in DOMAIN h \ ns |-> h[n]]

\* Mutant of Linked: prev of the front is not set.
LinkedOneWay(h, n, front) ==
  [h EXCEPT ![n].prev = h[front].prev, ![h[front].prev].next = n, ![n].next = front]

\* n goes between the last node and the front.
Linked(h, n, front) ==
  [h EXCEPT ![n].prev = h[front].prev, ![h[front].prev].next = n,
            ![front].prev = n, ![n].next = front]

\* n is taken out and freed.
Unlinked(h, n) ==
  Without([h EXCEPT ![h[n].prev].next = h[n].next, ![h[n].next].prev = h[n].prev], {n})

\* The node `steps` behind n.
Ahead(h, n, steps) == LET at[i \in 0 .. steps] == IF i = 0 THEN n ELSE h[at[i - 1]].next
                      IN  at[steps]

\* The nodes of a list by their next pointers, as far as its size tells.
Ring(h, q) == [i \in 1 .. q.size |-> Ahead(h, q.front, i - 1)]

\* The nodes in the order of s, joined to a ring.
Joined(h, s) ==
  LET place == [n \in ToSet(s) |-> CHOOSE i \in DOMAIN s : s[i] = n] IN
  [n \in DOMAIN h |-> IF n \notin ToSet(s) THEN h[n] ELSE
     [h[n] EXCEPT !.next = s[(place[n] % Len(s)) + 1],
                  !.prev = s[IF place[n] = 1 THEN Len(s) ELSE place[n] - 1]]]

-----------------------------------------------------------------------------
(* The operations. *)

Push(l, e, first) ==
  LET q == list[l] IN
  /\ Usable(l)
  /\ \/ \E n \in Nodes \ DOMAIN heap :
          Becomes(l, [q EXCEPT !.size = @ + 1, !.front = IF first \/ q.size = 0 THEN n ELSE @],
                  IF q.size > 0 THEN Linked(NewNode(n, e), n, q.front) ELSE NewNode(n, e))
     \/ MallocFails /\ Refuse("CS_MEM")

PushFront(l, e) == Push(l, e, TRUE)
PushBack(l, e)  == Push(l, e, FALSE)

PopFirst(l) ==
  LET q == list[l] IN
  IF q.size = 1 THEN Becomes(l, Fresh, Without(heap, {q.front}))
  ELSE Becomes(l, [q EXCEPT !.size = @ - 1, !.front = heap[q.front].next], Unlinked(heap, q.front))

PopLast(l) ==
  LET q == list[l] IN
  IF q.size = 1 THEN Becomes(l, Fresh, Without(heap, {q.front}))
  ELSE Becomes(l, [q EXCEPT !.size = @ - 1], Unlinked(heap, heap[q.front].prev))

PopFront(l) == Usable(l) /\ IF list[l].size = 0 THEN Refuse("CS_EMPTY") ELSE PopFirst(l)

PopBack(l) == Usable(l) /\ IF list[l].size = 0 THEN Refuse("CS_EMPTY") ELSE PopLast(l)

Erase(l, pos) ==
  LET q == list[l] IN
  /\ Usable(l)
  /\ CASE q.size = 0 -> Refuse("CS_EMPTY")
       [] q.size > 0 /\ pos \notin 0 .. q.size - 1 -> Refuse("CS_POS")
       [] q.size > 0 /\ pos = 0 -> PopFirst(l)
       [] pos > 0 /\ pos = q.size - 1 -> PopLast(l)
       [] pos > 0 /\ pos < q.size - 1 ->
            Becomes(l, [q EXCEPT !.size = @ - 1], Unlinked(heap, Ahead(heap, q.front, pos)))

Sort(l) ==
  LET q == list[l]
      key == [n \in DOMAIN heap |-> Key(heap[n].data)]
      s == Sorted(Ring(heap, q), key)
  IN  /\ Usable(l)
      /\ IF q.size < 2 THEN Refuse("CS_SUCCESS")
         ELSE Becomes(l, [q EXCEPT !.front = s[1]], Joined(heap, s))

Swap(l, m) ==
  /\ Usable(l) /\ Usable(m) /\ l # m
  /\ list' = [list EXCEPT ![l] = list[m], ![m] = list[l]]
  /\ ret' = "CS_SUCCESS" /\ UNCHANGED heap

\* clear reads the front of the list without asking whether there is one.
Clear(l) ==
  /\ Usable(l)
  /\ IF list[l].front = Null THEN Refuse("crash")
     ELSE Becomes(l, Fresh, Without(heap, ToSet(Ring(heap, list[l]))))

Free(l) == Usable(l) /\ Becomes(l, Freed, Without(heap, ToSet(Ring(heap, list[l]))))

Start(l) ==
  /\ ret # "crash" /\ ~list[l].live
  /\ Becomes(l, Fresh, heap) \/ (MallocFails /\ Refuse("CS_MEM"))

Next ==
  \/ \E l \in Lists :
       \/ PopFront(l) \/ PopBack(l) \/ Sort(l) \/ Clear(l) \/ Free(l) \/ Start(l)
       \/ \E e \in Elems : PushFront(l, e) \/ PushBack(l, e)
       \/ \E pos \in -1 .. list[l].size : Erase(l, pos)
  \/ \E l, m \in Lists : Swap(l, m)

Spec == Init /\ [][Next]_vars

-----------------------------------------------------------------------------
(* Correctness. *)

TypeOK ==
  /\ ret \in {"CS_SUCCESS", "CS_MEM", "CS_EMPTY", "CS_POS", "crash"}
  /\ \A l \in Lists : /\ list[l].live \in BOOLEAN /\ list[l].front \in Nodes \cup {Null}
                      /\ list[l].size \in 0 .. Cardinality(Nodes)
  /\ DOMAIN heap \subseteq Nodes /\ heap \in [DOMAIN heap -> [next : Nodes, prev : Nodes, data : Elems]]

(* The nodes of a list form one ring, in both directions, of as many nodes as
   its size tells; no node is in two lists, and none is allocated outside of
   all of them: no operation leaks a node or keeps a freed one. *)
RingIntact ==
  LET ring == [l \in Lists |-> Ring(heap, list[l])] IN
  /\ \A l \in Lists : LET s == ring[l] IN
       /\ (s = << >>) <=> (list[l].front = Null)
       /\ IsInjective(s)
       /\ \A i \in DOMAIN s : /\ s[i] \in DOMAIN heap
                              /\ heap[s[i]].next = s[(i % Len(s)) + 1]
                              /\ heap[s[(i % Len(s)) + 1]].prev = s[i]
  /\ DOMAIN heap = UNION {ToSet(ring[l]) : l \in Lists}
  /\ \A l, m \in Lists : l # m => ToSet(ring[l]) \cap ToSet(ring[m]) = {}

Place(e, by) == Key(e)

Data(h, s) == [i \in DOMAIN s |-> h[s[i]].data]

\* The code that list.h:93, :123 and :151 announce for a call on an empty list or
\* an index outside of it, CS_SIZE; the code has others at list.h:98 and :128 and
\* at list.c:78-79.
Announced(code) ==
  CASE code = "crash" -> "undefined"
    [] code \in {"CS_EMPTY", "CS_POS"} -> "CS_SIZE"
    [] OTHER -> code

Abs == INSTANCE SequenceSpec WITH
  Objects <- Lists, Orders <- {"comp"}, Key <- Place, Stable <- TRUE, Skips <- FALSE,
  MayBreak <- TRUE, EmptyCode <- "CS_SIZE", PosCode <- "CS_SIZE",
  live <- {l \in Lists : list[l].live},
  order <- [l \in Lists |-> "comp"],
  content <- [l \in Lists |-> Data(heap, Ring(heap, list[l]))],
  ret <- Announced(ret)

(* The lists implement sequences of elements, and the sort is stable; nothing
   is promised after a clear of an empty list.  A pop or an erase that finds no
   element is refused and has no effect, but not with the code that list.h and
   list/README.md:100-102 announce, CS_SIZE: its answer, CS_EMPTY or CS_POS, is read
   as CS_SIZE here, and that the codes differ is a flaw that this property
   leaves out. *)
ListImplements == Abs!Spec

=============================================================================
