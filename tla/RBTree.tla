------------------------------- MODULE RBTree -------------------------------
(***************************************************************************)
(* rbt.h, the red-black tree behind set, map, multiset and multimap.  A    *)
(* node is named by the key it holds: delete relinks nodes and never moves *)
(* data between them.  Every turn of a loop is a step, so that the tree is *)
(* visible between the turns of a rebalancing; the two mirrored copies of  *)
(* the rotations and of the fixups are one definition with a side.         *)
(***************************************************************************)
EXTENDS Integers, FiniteSets

CONSTANTS
  Keys,       (* The keys.                                                 *)
  Nil,        (* NULL.                                                     *)
  MallocFails,(* Whether the malloc of a node may fail.                    *)
  Calls(_)    (* The calls << op, k >> made on a tree with these nodes.    *)

ASSUME KeysAssumption == /\ Keys \subseteq Int /\ IsFiniteSet(Keys)
                         /\ Nil \notin Keys /\ MallocFails \in BOOLEAN

VARIABLES
  t,     (* the tree: root, child[side], father, red                       *)
  nodes, (* the nodes allocated and not freed                              *)
  size,  (* t->size                                                        *)
  pc,    (* the call in progress and the loop it is in, "idle" if none     *)
  key,   (* the argument of the call                                       *)
  cur,   (* node or x, the node the loop is at                             *)
  prev,  (* prev or x_father, the father of cur even if cur is NULL        *)
  ret    (* what the last call returned                                    *)

vars == << t, nodes, size, pc, key, cur, prev, ret >>

Side     == {"left", "right"}
Other(s) == IF s = "left" THEN "right" ELSE "left"

EmptyTree == [root   |-> Nil,
              child  |-> [s \in Side |-> [k \in Keys |-> Nil]],
              father |-> [k \in Keys |-> Nil],
              red    |-> [k \in Keys |-> FALSE]]

Init ==
  /\ t = EmptyTree /\ nodes = {} /\ size = 0
  /\ pc = "idle" /\ key = Nil /\ cur = Nil /\ prev = Nil /\ ret = "none"

-----------------------------------------------------------------------------
(* Operators on trees. *)

Red(tr, k) == k # Nil /\ tr.red[k]

Painted(tr, black, red) ==
  [tr EXCEPT !.red = [k \in Keys |-> IF k \in black THEN FALSE ELSE k \in red \/ @[k]]]

WithFather(tr, k, f) == IF k = Nil THEN tr ELSE [tr EXCEPT !.father[k] = f]
\* Mutant of WithChild: the father pointer is not set.
WithChildOnly(tr, f, s, k) == [tr EXCEPT !.child[s][f] = k]

WithChild(tr, f, s, k) == WithFather([tr EXCEPT !.child[s][f] = k], k, f)

\* The side of its father that u is on; the code only asks about the left.
SideOf(tr, u) == IF u = tr.child["left"][tr.father[u]] THEN "left" ELSE "right"

Transplanted(tr, u, v) ==
  LET f == tr.father[u] IN
  IF f = Nil THEN WithFather([tr EXCEPT !.root = v], v, Nil)
  ELSE WithChild(tr, f, SideOf(tr, u), v)

\* x goes down to side s, and its child on the other side comes up.
Rotated(tr, x, s) ==
  LET y     == tr.child[Other(s)][x]
      above == Transplanted(tr, x, y)
  IN  WithChild(WithChild(above, x, Other(s), tr.child[s][y]), y, s, x)

\* The node at k and the n nodes that `next` leads to from there.
Steps(next, k, n) == LET at[i \in 0 .. n] == IF i = 0 THEN k ELSE next[at[i - 1]] IN at

Minimum(tr, k) ==
  LET next == [n \in Keys |-> IF tr.child["left"][n] = Nil THEN n ELSE tr.child["left"][n]]
  IN  Steps(next, k, Cardinality(Keys))[Cardinality(Keys)]

-----------------------------------------------------------------------------
(* Calls, and the search that insert, delete and find begin with. *)

Return(code) ==
  /\ pc' = "idle" /\ ret' = code
  /\ key' = Nil /\ cur' = Nil /\ prev' = Nil

Call(op, k) ==
  /\ pc = "idle" /\ << op, k >> \in Calls(nodes)
  /\ pc' = op /\ key' = k /\ cur' = t.root /\ prev' = Nil /\ ret' = "none"
  /\ UNCHANGED << t, nodes, size >>

\* Mutant of Toward: the arguments of the comparison are exchanged.
TowardOther == IF cur < key THEN "left" ELSE "right"

Toward == IF key < cur THEN "left" ELSE "right"

Descend ==
  /\ pc \in {"insert", "delete", "find"} /\ cur \notin {Nil, key}
  /\ cur' = t.child[Toward][cur] /\ prev' = cur
  /\ UNCHANGED << t, nodes, size, pc, key, ret >>

InsertFound ==
  /\ pc = "insert" /\ cur = key
  /\ Return("CS_ELEM") /\ UNCHANGED << t, nodes, size >>

Found ==
  /\ pc = "find" /\ cur = key
  /\ Return("found") /\ UNCHANGED << t, nodes, size >>

Absent ==
  /\ pc \in {"find", "delete"} /\ cur = Nil
  /\ Return(IF pc = "find" THEN "NULL" ELSE "CS_ELEM")
  /\ UNCHANGED << t, nodes, size >>

-----------------------------------------------------------------------------
(* Insertion. *)

InsertNoMemory ==
  /\ MallocFails /\ pc = "insert" /\ cur = Nil
  /\ Return("CS_MEM") /\ UNCHANGED << t, nodes, size >>

InsertNode ==
  /\ pc = "insert" /\ cur = Nil
  /\ LET new == Painted(t, {}, {key}) IN
     t' = IF prev = Nil THEN [new EXCEPT !.root = key]
          ELSE WithChild(new, prev, IF key < prev THEN "left" ELSE "right", key)
  /\ nodes' = nodes \cup {key}
  /\ pc' = "insertFixup" /\ cur' = key /\ prev' = Nil
  /\ UNCHANGED << size, key, ret >>

\* A turn of the loop: recolour below the grandfather and go on from there,
\* or rotate the red pair straight and then over the grandfather.
InsertFixup ==
  LET f     == t.father[cur]
      g     == t.father[f]
      s     == SideOf(t, f)
      uncle == t.child[Other(s)][g]
      bent  == cur = t.child[Other(s)][f]
      low   == IF bent THEN f ELSE cur
      tr    == IF bent THEN Rotated(t, f, s) ELSE t
      mid   == tr.father[low]
      top   == tr.father[mid]
  IN
  /\ pc = "insertFixup" /\ Red(t, f)
  /\ IF Red(t, uncle)
       THEN /\ t' = Painted(t, {f, uncle}, {g}) /\ cur' = g
       ELSE /\ t' = Rotated(Painted(tr, {mid}, {top}), top, Other(s)) /\ cur' = low
  /\ UNCHANGED << nodes, size, pc, key, prev, ret >>

InsertDone ==
  /\ pc = "insertFixup" /\ ~Red(t, t.father[cur])
  /\ t' = Painted(t, {t.root}, {})
  /\ size' = size + 1
  /\ Return("CS_SUCCESS") /\ UNCHANGED nodes

-----------------------------------------------------------------------------
(* Deletion. *)

\* The tree without d, whose place its successor y takes if d has two children.
WithSuccessor(d, y) ==
  LET out == WithChild(Transplanted(t, y, t.child["right"][y]), y, "right", t.child["right"][d])
      up  == Transplanted(IF t.father[y] = d THEN t ELSE out, d, y)
      new == WithChild(up, y, "left", t.child["left"][d])
  IN  IF t.red[d] THEN Painted(new, {}, {y}) ELSE Painted(new, {y}, {})

\* Mutant of Unbalanced: the colour of the deleted node, not of its successor.
UnbalancedByDeleted(d, y) == ~t.red[d]

\* A black node has gone from the way to the place of y.
Unbalanced(d, y) == ~t.red[y]

DeleteUnlink ==
  LET d      == cur
      only   == IF t.child["left"][d] = Nil THEN "right" ELSE "left"
      simple == \E s \in Side : t.child[s][d] = Nil
      y      == IF simple THEN d ELSE Minimum(t, t.child["right"][d])
  IN
  /\ pc = "delete" /\ cur = key
  /\ t' = IF simple THEN Transplanted(t, d, t.child[only][d]) ELSE WithSuccessor(d, y)
  /\ cur' = IF simple THEN t.child[only][d] ELSE t.child["right"][y]
  /\ prev' = IF ~simple /\ t.father[y] = d THEN y ELSE t.father[y]
  /\ pc' = IF Unbalanced(d, y) THEN "deleteFixup" ELSE "deleteFree"
  /\ UNCHANGED << nodes, size, key, ret >>

\* A turn of the loop, with x = cur one black node short.  Without a sibling w
\* the code would rotate NULL up.
DeleteFixup ==
  LET s    == IF cur = t.child["left"][prev] THEN "left" ELSE "right"
      o    == Other(s)
      redW == Red(t, t.child[o][prev])
      t1   == IF redW THEN Rotated(Painted(t, {t.child[o][prev]}, {prev}), prev, s) ELSE t
      w1   == t1.child[o][prev]
      far  == Red(t1, t1.child[o][w1])
      near == Red(t1, t1.child[s][w1])
      t2   == IF far THEN t1 ELSE Rotated(Painted(t1, {t1.child[s][w1]}, {w1}), w1, o)
      w2   == t2.child[o][prev]
      t3   == Painted(t2, {prev, t2.child[o][w2]} \cup (IF t2.red[prev] THEN {} ELSE {w2}),
                          IF t2.red[prev] THEN {w2} ELSE {})
  IN
  /\ pc = "deleteFixup" /\ cur # t.root /\ ~Red(t, cur)
  /\ CASE w1 = Nil -> pc' = "crashed" /\ UNCHANGED << t, cur, prev >>
       [] w1 # Nil /\ ~far /\ ~near ->
            /\ t' = Painted(t1, {}, {w1})
            /\ cur' = prev /\ prev' = t1.father[prev] /\ UNCHANGED pc
       [] OTHER ->
            /\ t' = Rotated(t3, prev, s)
            /\ cur' = t'.root /\ UNCHANGED << pc, prev >>
  /\ UNCHANGED << nodes, size, key, ret >>

DeleteFixed ==
  /\ pc = "deleteFixup" /\ (cur = t.root \/ Red(t, cur))
  /\ t' = Painted(t, {cur}, {})
  /\ pc' = "deleteFree"
  /\ UNCHANGED << nodes, size, key, cur, prev, ret >>

\* The links of a freed node are forgotten.
Forgotten(tr, k) ==
  [tr EXCEPT !.child = [s \in Side |-> [@[s] EXCEPT ![k] = Nil]],
             !.father[k] = Nil, !.red[k] = FALSE]

DeleteFree ==
  /\ pc = "deleteFree"
  /\ t' = Forgotten(t, key)
  /\ nodes' = nodes \ {key} /\ size' = size - 1
  /\ Return("CS_SUCCESS")

-----------------------------------------------------------------------------
(* clear and free: a walk that frees each leaf it reaches. *)

EmptyCall(op) ==
  /\ pc = "idle"
  /\ pc' = op /\ cur' = t.root /\ prev' = Nil /\ ret' = "void"
  /\ UNCHANGED << t, nodes, size, key >>

\* The first of the children that is there, left before right.
ClearDescend ==
  /\ pc \in {"clear", "free"} /\ cur # Nil
  /\ \E s \in Side :
       /\ t.child[s][cur] # Nil /\ (s = "right" => t.child["left"][cur] = Nil)
       /\ cur' = t.child[s][cur]
  /\ UNCHANGED << t, nodes, size, pc, key, prev, ret >>

\* Mutant of ClearLeaf: the right child is not looked at.
ClearLeafLeftOnly ==
  LET f == t.father[cur] IN
  /\ pc \in {"clear", "free"} /\ cur # Nil /\ t.child["left"][cur] = Nil
  /\ nodes' = nodes \ {cur}
  /\ t' = Forgotten(IF f = Nil THEN t ELSE [t EXCEPT !.child[SideOf(t, cur)][f] = Nil], cur)
  /\ cur' = f
  /\ UNCHANGED << size, pc, key, prev, ret >>

\* Mutant of ClearLeaf: the walk does not go back to the father.
ClearLeafStays ==
  LET f == t.father[cur] IN
  /\ pc \in {"clear", "free"} /\ cur # Nil
  /\ \A s \in Side : t.child[s][cur] = Nil
  /\ nodes' = nodes \ {cur}
  /\ t' = Forgotten(IF f = Nil THEN t ELSE [t EXCEPT !.child[SideOf(t, cur)][f] = Nil], cur)
  /\ UNCHANGED << size, pc, key, cur, prev, ret >>

ClearLeaf ==
  LET f == t.father[cur] IN
  /\ pc \in {"clear", "free"} /\ cur # Nil
  /\ \A s \in Side : t.child[s][cur] = Nil
  /\ nodes' = nodes \ {cur}
  /\ t' = Forgotten(IF f = Nil THEN t ELSE [t EXCEPT !.child[SideOf(t, cur)][f] = Nil], cur)
  /\ cur' = f
  /\ UNCHANGED << size, pc, key, prev, ret >>

ClearDone ==
  /\ pc \in {"clear", "free"} /\ cur = Nil
  /\ t' = [t EXCEPT !.root = Nil] /\ size' = 0
  /\ pc' = IF pc = "clear" THEN "idle" ELSE "freed"
  /\ UNCHANGED << nodes, key, cur, prev, ret >>

\* __rbt_init of a new tree by the same program.
Start ==
  /\ pc = "freed" /\ pc' = "idle"
  /\ t' = EmptyTree /\ size' = 0
  /\ UNCHANGED << nodes, key, cur, prev, ret >>

-----------------------------------------------------------------------------

Insert == InsertFound \/ InsertNoMemory \/ InsertNode \/ InsertFixup \/ InsertDone
Delete == DeleteUnlink \/ DeleteFixup \/ DeleteFixed \/ DeleteFree
Clear  == ClearDescend \/ ClearLeaf \/ ClearDone
Run    == Descend \/ Found \/ Absent \/ Insert \/ Delete \/ Clear

Next ==
  \/ \E k \in Keys, op \in {"insert", "delete", "find"} : Call(op, k)
  \/ \E op \in {"clear", "free"} : EmptyCall(op)
  \/ Run \/ Start

Spec == Init /\ [][Next]_vars

\* The library has one thread: a call that has begun runs on.
FairSpec == Spec /\ WF_vars(Run)

-----------------------------------------------------------------------------
(* Correctness. *)

Trees == [root   : Keys \cup {Nil},
          child  : [Side -> [Keys -> Keys \cup {Nil}]],
          father : [Keys -> Keys \cup {Nil}],
          red    : [Keys -> BOOLEAN]]

TypeOK ==
  /\ t \in Trees
  /\ nodes \subseteq Keys /\ size \in Nat
  /\ {key, cur, prev} \subseteq Keys \cup {Nil}
  /\ pc \in {"idle", "insert", "delete", "find", "insertFixup", "deleteFixup",
             "deleteFree", "clear", "free", "freed", "crashed"}

\* k and the nodes above it, as the father pointers tell.
Line(k) ==
  LET above == [n \in Keys \cup {Nil} |-> IF n = Nil THEN Nil ELSE t.father[n]]
      up    == Steps(above, k, Cardinality(nodes))
  IN  {up[n] : n \in 0 .. Cardinality(nodes)} \ {Nil}

\* The nodes in the tree: a delete has taken the one it frees out already.
Linked == IF pc \in {"deleteFixup", "deleteFree"} THEN nodes \ {key} ELSE nodes

Emptying == pc \in {"clear", "free", "freed"}

(* Father and child pointers agree, and lead from every node in the tree to
   the root: a rotation or a transplant has left no stale link behind, and no
   node is lost, between any two turns of the loops that relink the tree. *)
LinksAgree ==
  /\ t.root # Nil /\ ~Emptying => t.root \in Linked /\ t.father[t.root] = Nil
  /\ \A k \in Linked :
       /\ \A s \in Side : t.child[s][k] # Nil =>
            t.child[s][k] \in Linked /\ t.father[t.child[s][k]] = k
       /\ t.father[k] # Nil =>
            t.father[k] \in Linked /\ \E s \in Side : t.child[s][t.father[k]] = k
       /\ ~Emptying => t.root \in Line(k)

(* Every node left of a node is smaller and every node right of it larger,
   at every step: a search begun at any time would not miss a key. *)
Ordered ==
  LET line == [k \in Linked |-> Line(k)] IN
  \A k \in Linked : \A a \in line[k] \ {k} :
    /\ t.child["left"][a] \in line[k] => k < a
    /\ t.child["right"][a] \in line[k] => k > a

(* No red node has a red father, except the node that insert_fixup is at. *)
NoRedRed ==
  ~Emptying => \A k \in Linked :
    t.red[k] /\ Red(t, t.father[k]) =>
      \/ pc = "insertFixup" /\ k = cur
      \/ pc = "deleteFixup" /\ cur \in {k, t.father[k]}

\* The black nodes on the way to the empty place on side s of k; the one that
\* delete_fixup owes counts if the way leads through x.
BlackAbove(k) == Cardinality({a \in Line(k) : ~t.red[a]})
Owed(k, s) ==
  IF pc = "deleteFixup" /\ (IF cur = Nil THEN k = prev /\ t.child[s][k] = Nil
                                          ELSE cur \in Line(k)) THEN 1 ELSE 0

(* All ways from the root to an empty place have the same number of black
   nodes, counting the one owed at x while a deletion is being repaired. *)
SameBlackHeight ==
  LET ends == {e \in Linked \X Side : t.child[e[2]][e[1]] = Nil}
      heights == {BlackAbove(e[1]) + Owed(e[1], e[2]) : e \in ends}
  IN  ~Emptying => Cardinality(heights) <= 1

(* The tree is balanced, at every turn of the fixups: as many blacks on every
   way down and no two reds in a row, but at the place the turn is about. *)
Balanced == NoRedRed /\ SameBlackHeight

(* delete_fixup finds a sibling whenever it looks for one: its NULL checks on
   w are idle, and none of its rotations lifts a NULL child. *)
SiblingExists == pc # "crashed"

(* The tree implements a set: every call answers, and leaves behind, what the
   abstract set does.  clear takes effect when it is called, and a node that its
   walk, or that of free, does not free would be an element of the set again. *)
Op == CASE pc \in {"insert", "insertFixup"} -> "add"
        [] pc \in {"delete", "deleteFixup", "deleteFree"} -> "remove"
        [] pc = "find" -> "get"
        [] OTHER -> "idle"

Abs == INSTANCE UnorderedSetSpec WITH
  NoKey <- Nil, CallocFails <- FALSE, op <- Op, arg <- key,
  elems <- IF Emptying THEN {} ELSE IF pc = "insertFixup" THEN nodes \ {key} ELSE nodes,
  size <- IF Emptying THEN 0 ELSE size

ImplementsSet == Abs!Spec

(* Every call returns: the fixup loops climb, and the walk of clear ends. *)
CallsReturn == pc \notin {"idle", "freed"} ~> pc \in {"idle", "freed"}

=============================================================================
