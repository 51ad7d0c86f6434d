---------------------------- MODULE RBTreeProofs ----------------------------
(***************************************************************************)
(* Proofs about RBTree, for every finite set of keys and any history of    *)
(* calls.  The recursive facts about a tree (who is above whom, what lies  *)
(* in a subtree, how many blacks are on a way) are stated locally: a pair  *)
(* of bounds and a black height for each node, related to those of its     *)
(* father.  A rotation or a transplant then changes only what a few nodes  *)
(* say.  IInv says which one node may be out of order in the middle of a   *)
(* fixup, and what follows from it is what the runs check: the links, the  *)
(* order, the balance, and that the tree implements a set.                 *)
(***************************************************************************)
EXTENDS RBTree, FiniteSetTheorems, WellFoundedInduction, TLAPS

-----------------------------------------------------------------------------
\* Induction, stated with sets, and functions defined by it.

(* A set of natural numbers that is not empty has a least element. *)
LEMMA LeastNat ==
  ASSUME NEW S \in SUBSET Nat, S # {}
  PROVE  \E n \in S : \A m \in S : n <= m
<1>1. PICK n \in S : \A m \in S : ~ (<< m, n >> \in OpToRel(<, Nat))
  BY NatLessThanWellFounded, WFMin, Zenon
<1>2. \A m \in S : ~ (m < n)
  BY <1>1 DEF OpToRel
<1>3. n \in Nat /\ \A m \in S : m \in Nat
  OBVIOUS
<1>4. QED
  BY <1>2, <1>3

(* Induction up to a bound: S has 0, and with a number below N also the next. *)
LEMMA Induction ==
  ASSUME NEW N \in Nat, NEW S, 0 \in S, \A n \in 0 .. N - 1 : n \in S => n + 1 \in S
  PROVE  \A n \in 0 .. N : n \in S
<1> SUFFICES ASSUME (0 .. N) \ S # {} PROVE FALSE
  OBVIOUS
<1>1. (0 .. N) \ S \in SUBSET Nat
  OBVIOUS
<1>2. PICK n \in (0 .. N) \ S : \A m \in (0 .. N) \ S : n <= m
  BY <1>1, LeastNat
<1>3. n \in 1 .. N /\ n - 1 \in 0 .. N - 1 /\ n - 1 \in S
  BY <1>2
<1>4. n \in S
  BY <1>3
<1>5. QED
  BY <1>2, <1>4

\* f is the walk of n steps from k.
Walks(f, next, k, n, X) ==
  /\ f \in [0 .. n -> X] /\ f[0] = k
  /\ \A i \in 1 .. n : f[i] = next[f[i - 1]]

(* A walk exists for every number of steps. *)
LEMMA WalkExists ==
  ASSUME NEW N \in Nat, NEW X, NEW next \in [X -> X], NEW k \in X
  PROVE  \E f : Walks(f, next, k, N, X)
<1> DEFINE S == {n \in 0 .. N : \E f : Walks(f, next, k, n, X)}
<1>1. 0 \in S
  <2>1. Walks([i \in 0 .. 0 |-> k], next, k, 0, X)
    BY DEF Walks
  <2>2. QED
    BY <2>1
<1>2. ASSUME NEW n \in 0 .. N - 1, n \in S PROVE n + 1 \in S
  <2>1. PICK f : Walks(f, next, k, n, X)
    BY <1>2
  <2> DEFINE g == [i \in 0 .. n + 1 |-> IF i = n + 1 THEN next[f[n]] ELSE f[i]]
  <2>2. g \in [0 .. n + 1 -> X]
    BY <2>1 DEF Walks
  <2>3. g[0] = k
    BY <2>1 DEF Walks
  <2>4. \A i \in 1 .. n + 1 : g[i] = next[g[i - 1]]
    BY <2>1 DEF Walks
  <2>5. Walks(g, next, k, n + 1, X)
    BY <2>2, <2>3, <2>4 DEF Walks
  <2>6. QED
    BY <2>5
<1>3. N \in S
  <2> HIDE DEF S
  <2>1. \A n \in 0 .. N : n \in S
    BY <1>1, <1>2, Induction
  <2>2. QED
    BY <2>1
<1>4. QED
  BY <1>3

(* The recursive definition of Steps is that of a walk. *)
LEMMA StepsFacts ==
  ASSUME NEW N \in Nat, NEW X, NEW next \in [X -> X], NEW k \in X
  PROVE  Walks(Steps(next, k, N), next, k, N, X)
<1>1. PICK f : Walks(f, next, k, N, X)
  BY WalkExists
<1> DEFINE R(g) == g = [i \in 0 .. N |-> IF i = 0 THEN k ELSE next[g[i - 1]]]
<1>2. R(f)
  BY <1>1 DEF Walks
<1>3. R(Steps(next, k, N))
  <2>1. Steps(next, k, N) = CHOOSE g : R(g)
    BY DEF Steps
  <2>2. \E g : R(g)
    BY <1>2
  <2> HIDE DEF R
  <2>3. R(CHOOSE g : R(g))
    BY <2>2, Zenon
  <2>4. QED
    BY <2>1, <2>3, Zenon
<1> DEFINE s == Steps(next, k, N)
<1>4. /\ s = [i \in 0 .. N |-> s[i]] /\ s[0] = k
      /\ \A i \in 1 .. N : s[i] = next[s[i - 1]]
  BY <1>3
<1>5. \A i \in 0 .. N : s[i] \in X
  <2> DEFINE T == {i \in 0 .. N : s[i] \in X}
  <2> HIDE DEF s
  <2>1. 0 \in T
    BY <1>4
  <2>2. ASSUME NEW i \in 0 .. N - 1, i \in T PROVE i + 1 \in T
    <3>1. i + 1 \in 1 .. N /\ (i + 1) - 1 = i /\ i + 1 \in 0 .. N
      OBVIOUS
    <3>2. s[i + 1] = next[s[i]] /\ s[i] \in X
      BY <1>4, <2>2, <3>1
    <3>3. QED
      BY <3>1, <3>2
  <2> HIDE DEF T
  <2>3. \A i \in 0 .. N : i \in T
    BY <2>1, <2>2, Induction
  <2>4. QED
    BY <2>3 DEF T
<1>6. QED
  <2> HIDE DEF s
  <2>1. s \in [0 .. N -> X]
    BY <1>4, <1>5
  <2>2. QED
    BY <1>4, <2>1 DEF Walks, s

-----------------------------------------------------------------------------
\* The shape of a tree, said of each node and its neighbours.

Ptrs == Keys \cup {Nil}

\* Father and child pointers agree; only the root has no father.
Joined(tr, N) ==
  /\ \A k \in N, s \in Side :
       tr.child[s][k] # Nil => tr.child[s][k] \in N /\ tr.father[tr.child[s][k]] = k
  /\ \A k \in N :
       IF tr.father[k] = Nil THEN k = tr.root
       ELSE tr.father[k] \in N /\ \E s \in Side : tr.child[s][tr.father[k]] = k

\* Every set of nodes has one whose father is not in it.
Acyclic(tr, N) == \A S \in SUBSET N : S # {} => \E k \in S : tr.father[k] \notin S

\* k is between the bounds l and h, of which Nil is none.
Between(k, l, h) == (l # Nil => l < k) /\ (h # Nil => k < h)

\* Each node is between the bounds that the nodes above it set.
Bounded(tr, N, lo, hi) ==
  \A k \in N :
    /\ Between(k, lo[k], hi[k])
    /\ tr.father[k] = Nil => lo[k] = Nil /\ hi[k] = Nil
    /\ tr.child["left"][k] # Nil =>
         lo[tr.child["left"][k]] = lo[k] /\ hi[tr.child["left"][k]] = k
    /\ tr.child["right"][k] # Nil =>
         lo[tr.child["right"][k]] = k /\ hi[tr.child["right"][k]] = hi[k]

Shape(tr, N, lo, hi) ==
  /\ tr \in Trees /\ N \subseteq Keys /\ lo \in [Keys -> Ptrs] /\ hi \in [Keys -> Ptrs]
  /\ Joined(tr, N) /\ Acyclic(tr, N) /\ Bounded(tr, N, lo, hi)

Rooted(tr, N) == tr.root # Nil => tr.root \in N /\ tr.father[tr.root] = Nil

\* The side on which a node that is not f would be below f.
SideFor(k, f) == IF k < f THEN "left" ELSE "right"

(* What Trees says of each field, in the form that the provers use. *)
LEMMA TreeTypes ==
  ASSUME NEW tr \in Trees
  PROVE  /\ tr.root \in Ptrs
         /\ \A k \in Keys : /\ tr.father[k] \in Ptrs /\ tr.red[k] \in BOOLEAN
                            /\ \A s \in Side : tr.child[s][k] \in Ptrs
BY DEF Trees, Ptrs

(* Children lie on their sides of the father, and are no one else's. *)
LEMMA Neighbours ==
  ASSUME NEW tr, NEW N, NEW lo, NEW hi, Shape(tr, N, lo, hi), NEW k \in N
  PROVE  /\ tr.father[k] # k
         /\ \A s \in Side : tr.child[s][k] # Nil =>
              /\ tr.child[s][k] \in N /\ tr.father[tr.child[s][k]] = k
              /\ tr.child[s][k] # k /\ tr.child[s][k] # tr.father[k]
              /\ s = SideFor(tr.child[s][k], k)
              /\ tr.child[Other(s)][k] # tr.child[s][k]
<1>1. k \in Int /\ Nil \notin Keys /\ N \subseteq Keys /\ Keys \subseteq Int
  BY KeysAssumption DEF Shape
<1>2. tr.father[k] # k
  <2>1. {k} \in SUBSET N
    OBVIOUS
  <2>2. QED
    BY <2>1 DEF Shape, Acyclic
<1>3. ASSUME NEW s \in Side, tr.child[s][k] # Nil
      PROVE  /\ tr.child[s][k] \in N /\ tr.father[tr.child[s][k]] = k
             /\ s = SideFor(tr.child[s][k], k) /\ tr.child[s][k] # k
  <2>1. tr.child[s][k] \in N /\ tr.father[tr.child[s][k]] = k
    BY <1>3 DEF Shape, Joined
  <2>2. tr.child[s][k] \in Int
    BY <1>1, <2>1
  <2>3. IF s = "left" THEN hi[tr.child[s][k]] = k ELSE lo[tr.child[s][k]] = k
    BY <1>3 DEF Shape, Bounded, Side
  <2>4. IF s = "left" THEN tr.child[s][k] < k ELSE k < tr.child[s][k]
    BY <1>1, <2>1, <2>3 DEF Shape, Bounded, Between
  <2>5. QED
    BY <1>1, <2>1, <2>2, <2>4 DEF SideFor, Side
<1>4. ASSUME NEW s \in Side, tr.child[s][k] # Nil PROVE tr.child[s][k] # tr.father[k]
  <2> SUFFICES ASSUME tr.child[s][k] = tr.father[k] PROVE FALSE
    OBVIOUS
  <2>1. {k, tr.child[s][k]} \in SUBSET N
    BY <1>3, <1>4
  <2>2. PICK n \in {k, tr.child[s][k]} : tr.father[n] \notin {k, tr.child[s][k]}
    BY <2>1 DEF Shape, Acyclic
  <2>3. QED
    BY <1>3, <1>4, <2>2
<1>5. ASSUME NEW s \in Side, tr.child[s][k] # Nil PROVE tr.child[Other(s)][k] # tr.child[s][k]
  <2>1. Other(s) \in Side /\ Other(s) # s
    BY DEF Side, Other
  <2>2. QED
    BY <1>3, <1>5, <2>1
<1>6. QED
  BY <1>2, <1>3, <1>4, <1>5

(* What is inside the bounds of a node is inside those of its father, and is
   on the side of the father that the node is on. *)
LEMMA Nested ==
  ASSUME NEW tr, NEW N, NEW lo, NEW hi, Shape(tr, N, lo, hi),
         NEW n \in N, tr.father[n] # Nil,
         NEW k \in Keys, Between(k, lo[n], hi[n])
  PROVE  /\ tr.father[n] \in N /\ k # tr.father[n]
         /\ Between(k, lo[tr.father[n]], hi[tr.father[n]])
         /\ n = tr.child[SideFor(k, tr.father[n])][tr.father[n]]
<1> DEFINE f == tr.father[n]
<1>1. f \in N /\ \E s \in Side : tr.child[s][f] = n
  BY DEF Shape, Joined
<1>2. PICK s \in Side : tr.child[s][f] = n
  BY <1>1
<1>3. n # Nil /\ f # Nil /\ f \in Int /\ k \in Int
  BY <1>1, KeysAssumption DEF Shape
<1>4. Between(f, lo[f], hi[f]) /\ lo[f] \in Ptrs /\ hi[f] \in Ptrs
  BY <1>1 DEF Shape, Bounded
<1>5. /\ lo[f] # Nil => lo[f] \in Int /\ lo[f] < f
      /\ hi[f] # Nil => hi[f] \in Int /\ f < hi[f]
  BY <1>4, KeysAssumption DEF Between, Ptrs
<1>6. CASE s = "left"
  <2>1. lo[n] = lo[f] /\ hi[n] = f
    BY <1>1, <1>2, <1>3, <1>6 DEF Shape, Bounded
  <2>2. k < f /\ (lo[f] # Nil => lo[f] < k)
    BY <1>3, <2>1 DEF Between
  <2>3. Between(k, lo[f], hi[f])
    BY <1>3, <1>5, <2>2 DEF Between
  <2>4. QED
    BY <1>1, <1>2, <1>3, <1>6, <2>2, <2>3 DEF SideFor
<1>7. CASE s = "right"
  <2>1. lo[n] = f /\ hi[n] = hi[f]
    BY <1>1, <1>2, <1>3, <1>7 DEF Shape, Bounded
  <2>2. f < k /\ (hi[f] # Nil => k < hi[f])
    BY <1>3, <2>1 DEF Between
  <2>3. Between(k, lo[f], hi[f])
    BY <1>3, <1>5, <2>2 DEF Between
  <2>4. QED
    BY <1>1, <1>2, <1>3, <1>7, <2>2, <2>3 DEF SideFor
<1>8. QED
  BY <1>6, <1>7 DEF Side

(* A key inside the bounds of a node that is not that node's is inside the
   bounds of the child on its side. *)
LEMMA Narrowed ==
  ASSUME NEW tr, NEW N, NEW lo, NEW hi, Shape(tr, N, lo, hi),
         NEW f \in N, NEW k \in Keys, k # f, Between(k, lo[f], hi[f]),
         tr.child[SideFor(k, f)][f] # Nil
  PROVE  Between(k, lo[tr.child[SideFor(k, f)][f]], hi[tr.child[SideFor(k, f)][f]])
<1>1. k \in Int /\ f \in Int /\ f \in Keys
  BY KeysAssumption DEF Shape
<1>2. CASE k < f
  BY <1>1, <1>2 DEF SideFor, Shape, Bounded, Between
<1>3. CASE ~ (k < f)
  BY <1>1, <1>3 DEF SideFor, Shape, Bounded, Between
<1>4. QED
  BY <1>2, <1>3

-----------------------------------------------------------------------------
\* The nodes above a node are those whose bounds it is inside.

\* S has with a node also its father.
Upward(tr, S) == \A n \in S : tr.father[n] # Nil => tr.father[n] \in S

\* The least such set with the node a.
Up(tr, N, a) == {n \in N : \A S \in SUBSET N : a \in S /\ Upward(tr, S) => n \in S}

\* The nodes whose bounds k is inside.
Around(N, lo, hi, k) == {n \in N : Between(k, lo[n], hi[n])}

(* A set that has the fathers of its nodes has the root. *)
LEMMA UpwardHasRoot ==
  ASSUME NEW tr, NEW N, NEW lo, NEW hi, Shape(tr, N, lo, hi),
         NEW S \in SUBSET N, S # {}, Upward(tr, S)
  PROVE  tr.root \in S
<1>1. PICK k \in S : tr.father[k] \notin S
  BY DEF Shape, Acyclic
<1>2. tr.father[k] = Nil
  BY <1>1 DEF Upward
<1>3. QED
  BY <1>1, <1>2 DEF Shape, Joined

(* Up(a) is the least set that has a and the fathers of its members. *)
LEMMA UpFacts ==
  ASSUME NEW tr, NEW N, NEW lo, NEW hi, Shape(tr, N, lo, hi), NEW a \in N
  PROVE  /\ Up(tr, N, a) \in SUBSET N /\ a \in Up(tr, N, a) /\ Upward(tr, Up(tr, N, a))
         /\ \A S \in SUBSET N : a \in S /\ Upward(tr, S) => Up(tr, N, a) \subseteq S
<1>1. Up(tr, N, a) \in SUBSET N /\ a \in Up(tr, N, a)
  BY DEF Up
<1>2. ASSUME NEW n \in Up(tr, N, a), tr.father[n] # Nil PROVE tr.father[n] \in Up(tr, N, a)
  <2>1. n \in N /\ tr.father[n] \in N
    BY <1>2 DEF Up, Shape, Joined
  <2>2. ASSUME NEW S \in SUBSET N, a \in S, Upward(tr, S) PROVE tr.father[n] \in S
    BY <1>2, <2>2 DEF Up, Upward
  <2>3. QED
    BY <2>1, <2>2 DEF Up
<1>3. QED
  BY <1>1, <1>2 DEF Up, Upward

(* Around(k) has the fathers of its members, and k itself if it is a node. *)
LEMMA AroundFacts ==
  ASSUME NEW tr, NEW N, NEW lo, NEW hi, Shape(tr, N, lo, hi), NEW k \in Keys
  PROVE  /\ Around(N, lo, hi, k) \in SUBSET N /\ Upward(tr, Around(N, lo, hi, k))
         /\ k \in N => k \in Around(N, lo, hi, k)
<1>1. Upward(tr, Around(N, lo, hi, k))
  BY Nested DEF Around, Upward
<1>2. k \in N => Between(k, lo[k], hi[k])
  BY DEF Shape, Bounded
<1>3. QED
  BY <1>1, <1>2 DEF Around

\* Every node of a least upward set but the first has a child in the set.
LEMMA UpComesFromBelow ==
  ASSUME NEW tr, NEW N, NEW lo, NEW hi, Shape(tr, N, lo, hi), NEW a \in N,
         NEW f \in Up(tr, N, a), f # a
  PROVE  \E n \in Up(tr, N, a) : tr.father[n] = f
<1> DEFINE V == Up(tr, N, a)
           W == {m \in V : m = a \/ \E n \in V : tr.father[n] = m}
<1>1. V \in SUBSET N /\ a \in V /\ Upward(tr, V)
  BY UpFacts
<1>2. W \in SUBSET N /\ a \in W
  BY <1>1
<1>3. Upward(tr, W)
  BY <1>1 DEF Upward
<1>4. V \subseteq W
  <2> HIDE DEF W
  <2>1. QED
    BY <1>2, <1>3, UpFacts
<1>5. QED
  BY <1>4

(* The way from the root to a node k is the only one into its bounds: a node a
   whose bounds k is inside is on it, and so has a child towards k. *)
LEMMA Descends ==
  ASSUME NEW tr, NEW N, NEW lo, NEW hi, Shape(tr, N, lo, hi),
         NEW a \in N, NEW k \in N, k # a, Between(k, lo[a], hi[a])
  PROVE  tr.child[SideFor(k, a)][a] # Nil
<1> SUFFICES ASSUME tr.child[SideFor(k, a)][a] = Nil PROVE FALSE
  OBVIOUS
<1> DEFINE V == Up(tr, N, a)
           U == Around(N, lo, hi, k)
<1>1. V \in SUBSET N /\ a \in V /\ Upward(tr, V)
  BY UpFacts
<1>2. U \in SUBSET N /\ Upward(tr, U) /\ a \in U /\ k \in U
  <2>1. k \in Keys
    BY DEF Shape
  <2>2. QED
    BY <2>1, AroundFacts DEF Around
<1>3. V \subseteq U
  BY <1>2, UpFacts
<1>4. \A n \in U : tr.father[n] # Nil =>
         /\ tr.father[n] \in N /\ k # tr.father[n]
         /\ n = tr.child[SideFor(k, tr.father[n])][tr.father[n]]
  <2>1. k \in Keys
    BY DEF Shape
  <2>2. QED
    BY <2>1, Nested DEF Around
<1>5. k \notin V
  <2> SUFFICES ASSUME k \in V PROVE FALSE
    OBVIOUS
  <2>1. PICK n \in V : tr.father[n] = k
    BY UpComesFromBelow
  <2>2. k # Nil
    BY KeysAssumption DEF Shape
  <2>3. QED
    BY <1>3, <1>4, <2>1, <2>2
<1>6. PICK n \in U \ V : tr.father[n] \notin U \ V
  <2>1. U \ V \in SUBSET N /\ U \ V # {}
    BY <1>2, <1>5
  <2>2. QED
    BY <2>1 DEF Shape, Acyclic
<1>7. tr.father[n] # Nil
  <2>1. tr.root \in V
    BY <1>1, UpwardHasRoot
  <2>2. QED
    BY <1>2, <1>6, <2>1 DEF Shape, Joined
<1> DEFINE f == tr.father[n]
<1>8. f \in V
  BY <1>2, <1>6, <1>7 DEF Upward
<1>9. f # a
  <2>1. n # Nil
    BY <1>2, KeysAssumption DEF Shape
  <2>2. QED
    BY <1>4, <1>6, <1>7, <2>1
<1>10. PICK g \in V : tr.father[g] = f
  BY <1>8, <1>9, UpComesFromBelow
<1>11. g = n
  BY <1>3, <1>4, <1>6, <1>7, <1>10
<1>12. QED
  BY <1>6, <1>11

(* So the nodes around a node are those above it. *)
LEMMA AroundIsUp ==
  ASSUME NEW tr, NEW N, NEW lo, NEW hi, Shape(tr, N, lo, hi), NEW k \in N
  PROVE  Around(N, lo, hi, k) = Up(tr, N, k)
<1> DEFINE U == Around(N, lo, hi, k)
           V == Up(tr, N, k)
<1>1. k \in Keys /\ k # Nil
  BY KeysAssumption DEF Shape
<1>2. U \in SUBSET N /\ Upward(tr, U) /\ k \in U
  BY <1>1, AroundFacts
<1>3. V \in SUBSET N /\ k \in V /\ Upward(tr, V) /\ V \subseteq U
  BY <1>2, UpFacts
<1>4. \A n \in U : tr.father[n] # Nil =>
         /\ tr.father[n] \in N /\ k # tr.father[n]
         /\ n = tr.child[SideFor(k, tr.father[n])][tr.father[n]]
  BY <1>1, Nested DEF Around
<1>5. ASSUME U \ V # {} PROVE FALSE
  <2>1. PICK n \in U \ V : tr.father[n] \notin U \ V
    <3>1. U \ V \in SUBSET N
      BY <1>2
    <3>2. QED
      BY <1>5, <3>1 DEF Shape, Acyclic
  <2>2. tr.father[n] # Nil
    <3>1. tr.root \in V
      BY <1>3, UpwardHasRoot
    <3>2. QED
      BY <1>2, <2>1, <3>1 DEF Shape, Joined
  <2>3. tr.father[n] \in V /\ tr.father[n] # k
    BY <1>2, <1>4, <2>1, <2>2 DEF Upward
  <2>4. PICK g \in V : tr.father[g] = tr.father[n]
    BY <2>3, UpComesFromBelow
  <2>5. g = n
    BY <1>3, <1>4, <2>1, <2>2, <2>4
  <2>6. QED
    BY <2>1, <2>5
<1>6. QED
  BY <1>3, <1>5

(* What lies inside no bounds of a node, and is not it, is not in the tree. *)
LEMMA SearchMisses ==
  ASSUME NEW tr, NEW N, NEW lo, NEW hi, Shape(tr, N, lo, hi), Rooted(tr, N), NEW k \in Keys,
         NEW p \in Ptrs,
         IF p = Nil THEN tr.root = Nil
         ELSE /\ p \in N /\ k # p /\ Between(k, lo[p], hi[p])
              /\ tr.child[SideFor(k, p)][p] = Nil
  PROVE  k \notin N
<1> SUFFICES ASSUME k \in N PROVE FALSE
  OBVIOUS
<1>1. CASE p = Nil
  <2>1. {n \in N : TRUE} # {} /\ N \in SUBSET N /\ N # {} /\ Upward(tr, N)
    BY DEF Shape, Joined, Upward
  <2>2. tr.root \in N
    BY <2>1, UpwardHasRoot
  <2>3. QED
    BY <1>1, <2>2, KeysAssumption DEF Shape
<1>2. CASE p # Nil
  BY <1>2, Descends
<1>3. QED
  BY <1>1, <1>2

-----------------------------------------------------------------------------
\* What the operators on trees do to each field.

\* r has the colours of tr, with those of some nodes set.
HasColours(tr, black, red, r) ==
  \A k \in Keys : r.red[k] <=> k \notin black /\ (k \in red \/ tr.red[k])

\* r is tr with the colours of some nodes set.
IsPainted(tr, black, red, r) ==
  /\ r \in Trees /\ r.root = tr.root /\ r.child = tr.child /\ r.father = tr.father
  /\ HasColours(tr, black, red, r)

\* r is tr with the father of k set.
HasFather(tr, k, f, r) ==
  /\ r \in Trees /\ r.root = tr.root /\ r.child = tr.child /\ r.red = tr.red
  /\ \A n \in Keys : r.father[n] = IF n = k THEN f ELSE tr.father[n]

\* r is tr with k as the child of f on side s.
HasChild(tr, f, s, k, r) ==
  /\ r \in Trees /\ r.root = tr.root /\ r.red = tr.red
  /\ \A n \in Keys : r.father[n] = IF n = k THEN f ELSE tr.father[n]
  /\ \A n \in Keys, z \in Side :
       r.child[z][n] = IF z = s /\ n = f THEN k ELSE tr.child[z][n]

\* r is tr with v in the place of u.
HasReplaced(tr, u, v, r) ==
  /\ r \in Trees /\ r.red = tr.red
  /\ r.root = IF tr.father[u] = Nil THEN v ELSE tr.root
  /\ \A n \in Keys : r.father[n] = IF n = v THEN tr.father[u] ELSE tr.father[n]
  /\ \A n \in Keys, z \in Side :
       r.child[z][n] = IF n = tr.father[u] /\ z = SideOf(tr, u) THEN v ELSE tr.child[z][n]

\* r is tr with x below y, its child on the other side, whose child b it gets.
HasTurned(tr, x, s, y, b, r) ==
  /\ r \in Trees
  /\ r.root = IF tr.father[x] = Nil THEN y ELSE tr.root
  /\ \A n \in Keys : r.father[n] = IF n = x THEN y ELSE IF n = y THEN tr.father[x]
                                   ELSE IF n = b THEN x ELSE tr.father[n]
  /\ \A n \in Keys, z \in Side :
       r.child[z][n] = IF n = x /\ z = Other(s) THEN b ELSE IF n = y /\ z = s THEN x
                       ELSE IF n = tr.father[x] /\ z = SideOf(tr, x) THEN y
                       ELSE tr.child[z][n]

(* The record update does what IsPainted says of its fields. *)
LEMMA PaintedFacts ==
  ASSUME NEW tr \in Trees, NEW black, NEW red
  PROVE  IsPainted(tr, black, red, Painted(tr, black, red))
<1> DEFINE c == [k \in Keys |-> IF k \in black THEN FALSE ELSE k \in red \/ tr.red[k]]
<1>1. c \in [Keys -> BOOLEAN]
  BY TreeTypes
<1>2. Painted(tr, black, red) = [tr EXCEPT !.red = c]
  BY DEF Painted, Trees
<1> HIDE DEF c
<1>3. /\ [tr EXCEPT !.red = c].root = tr.root /\ [tr EXCEPT !.red = c].child = tr.child
      /\ [tr EXCEPT !.red = c].father = tr.father /\ [tr EXCEPT !.red = c].red = c
      /\ [tr EXCEPT !.red = c] \in Trees
  BY <1>1 DEF Trees
<1>4. QED
  BY <1>2, <1>3 DEF c, IsPainted, HasColours

(* The record update does what HasFather says; of NULL there is nothing to set. *)
LEMMA WithFatherFacts ==
  ASSUME NEW tr \in Trees, NEW k \in Ptrs, NEW f \in Ptrs
  PROVE  HasFather(tr, k, f, WithFather(tr, k, f))
<1>1. CASE k = Nil
  BY <1>1, KeysAssumption DEF WithFather, HasFather
<1>2. CASE k # Nil
  <2> DEFINE m == [tr EXCEPT !.father[k] = f]
  <2>1. k \in Keys
    BY <1>2 DEF Ptrs
  <2>2. /\ m \in Trees /\ m.root = tr.root /\ m.child = tr.child
        /\ m.red = tr.red /\ m.father = [tr.father EXCEPT ![k] = f]
    BY <2>1 DEF Trees, Ptrs
  <2>3. \A n \in Keys : [tr.father EXCEPT ![k] = f][n] = IF n = k THEN f ELSE tr.father[n]
    BY <2>1 DEF Trees
  <2>4. HasFather(tr, k, f, m)
    BY <2>2, <2>3 DEF HasFather
  <2>5. QED
    BY <1>2, <2>4 DEF WithFather
<1>3. QED
  BY <1>1, <1>2

(* The record update does what HasChild says. *)
LEMMA WithChildFacts ==
  ASSUME NEW tr \in Trees, NEW f \in Keys, NEW s \in Side, NEW k \in Ptrs
  PROVE  HasChild(tr, f, s, k, WithChild(tr, f, s, k))
<1> DEFINE m == [tr EXCEPT !.child[s][f] = k]
<1>1. /\ m \in Trees /\ m.root = tr.root /\ m.red = tr.red /\ m.father = tr.father
      /\ m.child = [tr.child EXCEPT ![s] = [tr.child[s] EXCEPT ![f] = k]]
  BY DEF Trees, Ptrs
<1>2. \A n \in Keys, z \in Side :
        m.child[z][n] = IF z = s /\ n = f THEN k ELSE tr.child[z][n]
  <2>1. tr.child \in [Side -> [Keys -> Ptrs]]
    BY DEF Trees, Ptrs
  <2>2. QED
    BY <1>1, <2>1
<1> HIDE DEF m
<1>3. HasFather(m, k, f, WithFather(m, k, f))
  BY <1>1, WithFatherFacts DEF Ptrs
<1>4. HasChild(tr, f, s, k, WithFather(m, k, f))
  BY <1>1, <1>2, <1>3 DEF HasFather, HasChild
<1>5. QED
  BY <1>4 DEF WithChild, m

(* A node is on one side of its father; a root counts as a right child. *)
LEMMA SideOfFacts == \A tr, u : SideOf(tr, u) \in Side
BY DEF SideOf, Side

(* Transplanted does what HasReplaced says, field by field. *)
LEMMA TransplantedFacts ==
  ASSUME NEW tr \in Trees, NEW u \in Keys, NEW v \in Ptrs
  PROVE  HasReplaced(tr, u, v, Transplanted(tr, u, v))
<1> DEFINE f == tr.father[u]
<1>1. f \in Ptrs
  BY TreeTypes
<1>2. CASE f = Nil
  <2> DEFINE m == [tr EXCEPT !.root = v]
  <2>1. /\ m \in Trees /\ m.root = v /\ m.red = tr.red /\ m.child = tr.child /\ m.father = tr.father
    BY DEF Trees, Ptrs
  <2>2. HasFather(m, v, Nil, WithFather(m, v, Nil))
    <3>1. Nil \in Ptrs
      BY DEF Ptrs
    <3> HIDE DEF m
    <3>2. QED
      BY <2>1, <3>1, WithFatherFacts
  <2>3. HasReplaced(tr, u, v, WithFather(m, v, Nil))
    <3> HIDE DEF m
    <3>1. QED
      BY <1>2, <2>1, <2>2, KeysAssumption DEF HasFather, HasReplaced
  <2>4. QED
    BY <1>2, <2>3 DEF Transplanted
<1>3. CASE f # Nil
  <2>1. f \in Keys /\ SideOf(tr, u) \in Side
    BY <1>1, <1>3, SideOfFacts DEF Ptrs
  <2>2. HasChild(tr, f, SideOf(tr, u), v, WithChild(tr, f, SideOf(tr, u), v))
    BY <2>1, WithChildFacts
  <2>3. HasReplaced(tr, u, v, WithChild(tr, f, SideOf(tr, u), v))
    BY <1>3, <2>2 DEF HasChild, HasReplaced
  <2>4. QED
    BY <1>3, <2>3 DEF Transplanted
<1>4. QED
  BY <1>2, <1>3

\* A node x, the child y that comes up, the child b of y that x gets, and the
\* father of x are different nodes.
Apart(tr, x, y, b) ==
  /\ y # Nil /\ y # x /\ tr.father[x] \notin {x, y}
  /\ b # Nil => b \notin {x, y, tr.father[x]}

(* Rotated does what HasTurned says, field by field, and paints nothing. *)
LEMMA RotatedFacts ==
  ASSUME NEW tr \in Trees, NEW x \in Keys, NEW s \in Side, NEW y, NEW b,
         y = tr.child[Other(s)][x], b = tr.child[s][y], Apart(tr, x, y, b)
  PROVE  HasTurned(tr, x, s, y, b, Rotated(tr, x, s)) /\ Rotated(tr, x, s).red = tr.red
<1> DEFINE o == Other(s)
           above == Transplanted(tr, x, y)
           mid   == WithChild(above, x, o, b)
           r     == WithChild(mid, y, s, x)
<1>1. o \in Side /\ o # s
  BY DEF Side, Other
<1>2. /\ y \in Keys /\ y \in Ptrs /\ b \in Ptrs /\ tr.father[x] \in Ptrs
      /\ x # Nil /\ x \in Ptrs
  <2>1. y \in Ptrs /\ y # Nil
    BY <1>1, TreeTypes DEF Apart
  <2>2. y \in Keys
    BY <2>1 DEF Ptrs
  <2>3. QED
    BY <2>1, <2>2, TreeTypes, KeysAssumption DEF Ptrs
<1>3. y # x /\ tr.father[x] \notin {x, y} /\ b \notin {x, y}
  BY <1>2, KeysAssumption DEF Apart
<1>4. HasReplaced(tr, x, y, above)
  BY <1>2, TransplantedFacts
<1>5. above \in Trees
  BY <1>4 DEF HasReplaced
<1>6. HasChild(above, x, o, b, mid)
  <2> HIDE DEF above, o
  <2>1. QED
    BY <1>1, <1>2, <1>5, WithChildFacts
<1>7. mid \in Trees
  BY <1>6 DEF HasChild
<1>8. HasChild(mid, y, s, x, r)
  <2> HIDE DEF mid
  <2>1. QED
    BY <1>2, <1>7, WithChildFacts
<1>9. r = Rotated(tr, x, s)
  BY DEF Rotated
<1> HIDE DEF o, above, mid, r
<1>10. /\ r \in Trees /\ r.red = tr.red
       /\ r.root = IF tr.father[x] = Nil THEN y ELSE tr.root
  BY <1>4, <1>6, <1>8 DEF HasReplaced, HasChild
<1>11. \A n \in Keys : r.father[n] = IF n = x THEN y ELSE IF n = y THEN tr.father[x]
                                    ELSE IF n = b THEN x ELSE tr.father[n]
  BY <1>2, <1>3, <1>4, <1>6, <1>8 DEF HasReplaced, HasChild
<1>12. \A n \in Keys, z \in Side :
        r.child[z][n] = IF n = x /\ z = o THEN b ELSE IF n = y /\ z = s THEN x
                        ELSE IF n = tr.father[x] /\ z = SideOf(tr, x) THEN y
                        ELSE tr.child[z][n]
  BY <1>1, <1>2, <1>3, <1>4, <1>6, <1>8 DEF HasReplaced, HasChild
<1>13. QED
  BY <1>9, <1>10, <1>11, <1>12 DEF HasTurned, o

-----------------------------------------------------------------------------
\* Painting and rotating keep the shape.

(* Colours are no part of the shape. *)
LEMMA PaintedShape ==
  ASSUME NEW tr, NEW N, NEW lo, NEW hi, NEW black, NEW red, NEW r,
         Shape(tr, N, lo, hi), IsPainted(tr, black, red, r)
  PROVE  /\ Shape(r, N, lo, hi)
         /\ Rooted(tr, N) => Rooted(r, N)
BY DEF IsPainted, Shape, Joined, Acyclic, Bounded, Rooted

\* The place of x below its father.
LEMMA BelowFather ==
  ASSUME NEW tr, NEW N, NEW lo, NEW hi, Shape(tr, N, lo, hi), NEW x \in N
  PROVE  LET f == tr.father[x] IN
         /\ f = Nil => x = tr.root
         /\ f # Nil => /\ f \in N /\ f # x /\ SideOf(tr, x) \in Side
                       /\ tr.child[SideOf(tr, x)][f] = x
                       /\ \A z \in Side : tr.child[z][f] = x => z = SideOf(tr, x)
<1> DEFINE f == tr.father[x]
<1>1. f = Nil => x = tr.root
  BY DEF Shape, Joined
<1>2. ASSUME f # Nil PROVE f \in N /\ \E z \in Side : tr.child[z][f] = x
  BY <1>2 DEF Shape, Joined
<1>3. f # x /\ x # Nil
  <2>1. x \in Keys /\ f # x
    BY Neighbours DEF Shape
  <2>2. QED
    BY <2>1, KeysAssumption
<1>4. ASSUME f # Nil PROVE tr.child[SideOf(tr, x)][f] = x
  BY <1>2, <1>4 DEF SideOf, Side
<1>5. ASSUME f # Nil, NEW z \in Side, tr.child[z][f] = x PROVE z = SideOf(tr, x)
  BY <1>2, <1>3, <1>4, <1>5, Neighbours, SideOfFacts
<1>6. QED
  BY <1>1, <1>2, <1>3, <1>4, <1>5, SideOfFacts

(* The three nodes that a rotation moves are different nodes, each the father of the next. *)
LEMMA TurnApart ==
  ASSUME NEW tr, NEW N, NEW lo, NEW hi, Shape(tr, N, lo, hi), NEW x \in N, NEW s \in Side,
         NEW y, NEW b, y = tr.child[Other(s)][x], y # Nil, b = tr.child[s][y]
  PROVE  /\ Apart(tr, x, y, b) /\ y \in N /\ b \in N \cup {Nil}
         /\ tr.father[y] = x /\ (b # Nil => tr.father[b] = y)
         /\ tr.child[s][x] # y /\ (b # Nil => tr.child[Other(s)][y] # b)
<1>1. Other(s) \in Side /\ Other(Other(s)) = s
  BY DEF Side, Other
<1>2. /\ y \in N /\ tr.father[y] = x /\ y # x /\ tr.father[x] \notin {x, y}
      /\ tr.child[s][x] # y
  BY <1>1, Neighbours
<1>3. b # Nil => b \in N /\ tr.father[b] = y /\ b \notin {x, y} /\ tr.child[Other(s)][y] # b
  BY <1>1, <1>2, Neighbours
<1>4. b # Nil => b # tr.father[x]
  <2> SUFFICES ASSUME b # Nil, b = tr.father[x] PROVE FALSE
    OBVIOUS
  <2>1. {x, y, b} \in SUBSET N
    BY <1>2, <1>3
  <2>2. PICK n \in {x, y, b} : tr.father[n] \notin {x, y, b}
    BY <2>1 DEF Shape, Acyclic
  <2>3. QED
    BY <1>2, <1>3, <2>2
<1>5. QED
  BY <1>1, <1>2, <1>3, <1>4 DEF Apart

(* After a rotation children and fathers still agree. *)
LEMMA TurnJoined ==
  ASSUME NEW tr, NEW N, NEW lo, NEW hi, Shape(tr, N, lo, hi), NEW x \in N, NEW s \in Side,
         NEW y, NEW b, y = tr.child[Other(s)][x], y # Nil, b = tr.child[s][y],
         NEW r, HasTurned(tr, x, s, y, b, r)
  PROVE  Joined(r, N)
<1> DEFINE o == Other(s)
           f == tr.father[x]
           p == SideOf(tr, x)
<1>1. /\ o \in Side /\ o # s /\ x \in Keys /\ Nil \notin N /\ N \subseteq Keys
      /\ \A z \in Side : z = o \/ z = s
  BY KeysAssumption DEF Side, Other, Shape
<1>2. /\ Apart(tr, x, y, b) /\ y \in N /\ b \in N \cup {Nil}
      /\ tr.father[y] = x /\ (b # Nil => tr.father[b] = y)
      /\ tr.child[s][x] # y /\ (b # Nil => tr.child[o][y] # b)
  BY TurnApart
<1>3. /\ f = Nil => x = tr.root
      /\ f # Nil => /\ f \in N /\ f # x /\ p \in Side /\ tr.child[p][f] = x
                    /\ \A z \in Side : tr.child[z][f] = x => z = p
  BY BelowFather
<1>4. /\ y # Nil /\ y # x /\ f \notin {x, y} /\ (b # Nil => b \notin {x, y, f})
  BY <1>2 DEF Apart
<1>5. /\ r.root = IF f = Nil THEN y ELSE tr.root
      /\ \A n \in N : r.father[n] = IF n = x THEN y ELSE IF n = y THEN f
                                    ELSE IF n = b THEN x ELSE tr.father[n]
      /\ \A n \in N, z \in Side :
           r.child[z][n] = IF n = x /\ z = o THEN b ELSE IF n = y /\ z = s THEN x
                           ELSE IF n = f /\ z = p THEN y ELSE tr.child[z][n]
  BY <1>1 DEF HasTurned
<1>6. \A n \in N, z \in Side :
         tr.child[z][n] # Nil => tr.child[z][n] \in N /\ tr.father[tr.child[z][n]] = n
  BY DEF Shape, Joined
<1>7. \A n \in N : IF tr.father[n] = Nil THEN n = tr.root
                   ELSE tr.father[n] \in N /\ \E z \in Side : tr.child[z][tr.father[n]] = n
  BY DEF Shape, Joined
<1> HIDE DEF o, f, p
<1>8. ASSUME NEW n \in N, NEW z \in Side, r.child[z][n] # Nil
      PROVE  r.child[z][n] \in N /\ r.father[r.child[z][n]] = n
  <2>1. CASE n = x /\ z = o
    BY <1>2, <1>4, <1>5, <1>8, <2>1
  <2>2. CASE n = y /\ z = s
    BY <1>4, <1>5, <1>8, <2>2
  <2>3. CASE n = f /\ z = p
    BY <1>2, <1>4, <1>5, <1>8, <2>3
  <2>4. CASE ~ (n = x /\ z = o) /\ ~ (n = y /\ z = s) /\ ~ (n = f /\ z = p)
    <3> DEFINE c == tr.child[z][n]
    <3>1. r.child[z][n] = c
      BY <1>5, <2>4
    <3>2. c \in N /\ tr.father[c] = n
      BY <1>6, <1>8, <3>1
    <3>3. c # x
      BY <1>1, <1>3, <2>4, <3>2 DEF f
    <3>4. c # y /\ c # b
      BY <1>1, <1>2, <2>4, <3>2
    <3>5. r.father[c] = n
      BY <1>5, <3>2, <3>3, <3>4
    <3>6. QED
      BY <3>1, <3>2, <3>5
  <2>5. QED
    BY <2>1, <2>2, <2>3, <2>4
<1>9. ASSUME NEW n \in N
      PROVE  IF r.father[n] = Nil THEN n = r.root
             ELSE r.father[n] \in N /\ \E z \in Side : r.child[z][r.father[n]] = n
  <2>1. CASE n = x
    <3>1. r.father[n] = y /\ r.child[s][y] = x
      BY <1>1, <1>2, <1>4, <1>5, <2>1
    <3>2. QED
      BY <1>2, <1>4, <2>1, <3>1
  <2>2. CASE n = y
    <3>1. r.father[n] = f /\ (f # Nil => r.child[p][f] = y)
      BY <1>1, <1>2, <1>3, <1>4, <1>5, <2>2
    <3>2. QED
      BY <1>3, <1>5, <2>2, <3>1
  <2>3. CASE n = b
    <3>1. r.father[n] = x /\ r.child[o][x] = b /\ x # Nil
      BY <1>1, <1>2, <1>4, <1>5, <2>3
    <3>2. QED
      BY <1>1, <2>3, <3>1
  <2>4. CASE n \notin {x, y, b}
    <3>1. r.father[n] = tr.father[n]
      BY <1>5, <2>4
    <3>2. CASE tr.father[n] = Nil
      BY <1>3, <1>5, <1>7, <2>4, <3>1, <3>2
    <3>3. CASE tr.father[n] # Nil
      <4>1. PICK z \in Side : tr.father[n] \in N /\ tr.child[z][tr.father[n]] = n
        BY <1>7, <3>3
      <4> DEFINE q == tr.father[n]
      <4>2. ~ (q = x /\ z = o) /\ ~ (q = y /\ z = s) /\ ~ (q = f /\ z = p)
        <5>1. ~ (q = x /\ z = o)
          BY <2>4, <4>1 DEF o
        <5>2. ~ (q = y /\ z = s)
          BY <2>4, <4>1
        <5>3. ~ (q = f /\ z = p)
          BY <1>3, <2>4, <4>1, <3>3
        <5>4. QED
          BY <5>1, <5>2, <5>3
      <4>3. r.child[z][q] = n
        BY <1>5, <4>1, <4>2
      <4>4. QED
        BY <1>1, <3>1, <4>1, <4>3
    <3>4. QED
      BY <3>2, <3>3
  <2>5. QED
    BY <2>1, <2>2, <2>3, <2>4
<1>10. QED
  BY <1>8, <1>9 DEF Joined

(* After a rotation the father pointers still lead to the root. *)
LEMMA TurnAcyclic ==
  ASSUME NEW tr, NEW N, NEW lo, NEW hi, Shape(tr, N, lo, hi), NEW x \in N, NEW s \in Side,
         NEW y, NEW b, y = tr.child[Other(s)][x], y # Nil, b = tr.child[s][y],
         NEW r, HasTurned(tr, x, s, y, b, r)
  PROVE  Acyclic(r, N)
<1> SUFFICES ASSUME NEW S \in SUBSET N, S # {}, \A k \in S : r.father[k] \in S PROVE FALSE
  BY DEF Acyclic
<1>1. /\ y \in N /\ y # x /\ tr.father[x] \notin {x, y} /\ tr.father[y] = x
      /\ b # Nil => b \in N /\ tr.father[b] = y /\ b \notin {x, y}
  BY TurnApart DEF Apart
<1>2. \A n \in N : r.father[n] = IF n = x THEN y ELSE IF n = y THEN tr.father[x]
                                 ELSE IF n = b THEN x ELSE tr.father[n]
  BY DEF HasTurned, Shape
<1>3. Nil \notin N
  BY KeysAssumption DEF Shape
<1>4. CASE x \in S \/ y \in S
  <2>1. tr.father[x] \in S
    BY <1>1, <1>2, <1>4
  <2>2. \A n \in S \cup {x, y} : tr.father[n] \in S \cup {x, y}
    BY <1>1, <1>2, <1>3, <2>1
  <2>3. S \cup {x, y} \in SUBSET N
    BY <1>1
  <2>4. QED
    BY <2>2, <2>3 DEF Shape, Acyclic
<1>5. CASE x \notin S /\ y \notin S
  <2>1. \A n \in S : tr.father[n] \in S
    BY <1>2, <1>5
  <2>2. QED
    BY <2>1 DEF Shape, Acyclic
<1>6. QED
  BY <1>4, <1>5

(* A rotation keeps the nodes in order: only the bounds of the two nodes that
   it exchanges change. *)
LEMMA TurnShape ==
  ASSUME NEW tr, NEW N, NEW lo, NEW hi, Shape(tr, N, lo, hi), NEW x \in N, NEW s \in Side,
         NEW y, NEW b, y = tr.child[Other(s)][x], y # Nil, b = tr.child[s][y],
         NEW r, HasTurned(tr, x, s, y, b, r)
  PROVE  /\ \E l, h : Shape(r, N, l, h)
         /\ Rooted(tr, N) => Rooted(r, N)
<1> DEFINE o == Other(s)
           f == tr.father[x]
           p == SideOf(tr, x)
<1>1. /\ o \in Side /\ o # s /\ x \in Keys /\ Nil \notin N /\ N \subseteq Keys /\ N \subseteq Int
      /\ \A z \in Side : z = o \/ z = s
  BY KeysAssumption DEF Side, Other, Shape
<1>2. /\ Apart(tr, x, y, b) /\ y \in N /\ b \in N \cup {Nil}
      /\ tr.father[y] = x /\ (b # Nil => tr.father[b] = y)
  BY TurnApart
<1>3. /\ f = Nil => x = tr.root
      /\ f # Nil => /\ f \in N /\ f # x /\ p \in Side /\ tr.child[p][f] = x
                    /\ \A z \in Side : tr.child[z][f] = x => z = p
  BY BelowFather
<1>4. /\ y # Nil /\ y # x /\ f \notin {x, y} /\ (b # Nil => b \notin {x, y, f})
  BY <1>2 DEF Apart
<1>5. /\ r.root = IF f = Nil THEN y ELSE tr.root
      /\ \A n \in N : r.father[n] = IF n = x THEN y ELSE IF n = y THEN f
                                    ELSE IF n = b THEN x ELSE tr.father[n]
      /\ \A n \in N, z \in Side :
           r.child[z][n] = IF n = x /\ z = o THEN b ELSE IF n = y /\ z = s THEN x
                           ELSE IF n = f /\ z = p THEN y ELSE tr.child[z][n]
  BY <1>1 DEF HasTurned
<1>6. /\ lo \in [Keys -> Ptrs] /\ hi \in [Keys -> Ptrs] /\ tr \in Trees
      /\ Joined(tr, N) /\ Bounded(tr, N, lo, hi)
  BY DEF Shape
<1>7. r \in Trees /\ Joined(r, N) /\ Acyclic(r, N)
  BY TurnJoined, TurnAcyclic DEF HasTurned
<1>8. Rooted(tr, N) => Rooted(r, N)
  <2>1. r.root \in {y, tr.root}
    BY <1>5
  <2>2. CASE f = Nil
    BY <1>2, <1>4, <1>5, <2>2 DEF Rooted
  <2>3. CASE f # Nil
    <3> SUFFICES ASSUME Rooted(tr, N), tr.root # Nil
                 PROVE  tr.root \in N /\ r.father[tr.root] = Nil
      BY <1>5, <2>3 DEF Rooted
    <3>1. tr.root \in N /\ tr.father[tr.root] = Nil
      BY DEF Rooted
    <3>2. tr.root \notin {x, y, b}
      BY <1>1, <1>2, <1>4, <2>3, <3>1
    <3>3. QED
      BY <1>5, <3>1, <3>2
  <2>4. QED
    BY <2>2, <2>3
<1> DEFINE l == IF s = "left" THEN [lo EXCEPT ![y] = lo[x]] ELSE [lo EXCEPT ![x] = y]
           h == IF s = "left" THEN [hi EXCEPT ![x] = y] ELSE [hi EXCEPT ![y] = hi[x]]
<1>9. l \in [Keys -> Ptrs] /\ h \in [Keys -> Ptrs]
  BY <1>1, <1>2, <1>6 DEF Ptrs
<1>10. Bounded(r, N, l, h)
  <2>1. \A n \in N : /\ l[n] = IF s = "left" /\ n = y THEN lo[x]
                               ELSE IF s # "left" /\ n = x THEN y ELSE lo[n]
                     /\ h[n] = IF s = "left" /\ n = x THEN y
                               ELSE IF s # "left" /\ n = y THEN hi[x] ELSE hi[n]
    BY <1>1, <1>2, <1>6
  <2>2. \A n \in N : n \in Int /\ lo[n] \in Int \cup {Nil} /\ hi[n] \in Int \cup {Nil}
    BY <1>1, <1>6, KeysAssumption DEF Ptrs
  <2>3. \A n \in N : /\ lo[n] # Nil => lo[n] < n
                     /\ hi[n] # Nil => n < hi[n]
                     /\ tr.father[n] = Nil => lo[n] = Nil /\ hi[n] = Nil
    BY <1>6 DEF Bounded, Between
  <2>4. \A n \in N : /\ tr.child["left"][n] # Nil =>
                          lo[tr.child["left"][n]] = lo[n] /\ hi[tr.child["left"][n]] = n
                     /\ tr.child["right"][n] # Nil =>
                          lo[tr.child["right"][n]] = n /\ hi[tr.child["right"][n]] = hi[n]
    BY <1>6 DEF Bounded
  <2>5. IF s = "left" THEN lo[y] = x /\ hi[y] = hi[x] ELSE lo[y] = lo[x] /\ hi[y] = x
    BY <1>1, <1>4, <2>4 DEF Other, Side
  <2>6. IF s = "left" THEN x < y ELSE y < x
    BY <1>1, <1>2, <2>3, <2>5
  <2>7. b # Nil => IF s = "left" THEN lo[b] = x /\ hi[b] = y ELSE lo[b] = y /\ hi[b] = x
    BY <1>1, <1>2, <2>4, <2>5 DEF Side
  <2> HIDE DEF l, h, o, f, p
  <2>8. ASSUME NEW n \in N PROVE Between(n, l[n], h[n])
    BY <1>1, <1>2, <1>4, <2>1, <2>2, <2>3, <2>5, <2>6 DEF Between
  <2>9. ASSUME NEW n \in N, r.father[n] = Nil PROVE l[n] = Nil /\ h[n] = Nil
    <3>1. n # x /\ n # b
      BY <1>1, <1>4, <1>5, <2>9
    <3>2. CASE n = y
      BY <1>1, <1>4, <1>5, <2>1, <2>3, <2>5, <2>9, <3>2 DEF f
    <3>3. CASE n # y
      BY <1>5, <2>1, <2>3, <2>9, <3>1, <3>3
    <3>4. QED
      BY <3>2, <3>3
  <2>10. ASSUME NEW n \in N, NEW z \in Side, r.child[z][n] # Nil
         PROVE  /\ z = "left" => l[r.child[z][n]] = l[n] /\ h[r.child[z][n]] = n
                /\ z = "right" => l[r.child[z][n]] = n /\ h[r.child[z][n]] = h[n]
    <3>1. CASE n = x /\ z = o
      <4>1. r.child[z][n] = b /\ b # Nil
        BY <1>5, <2>10, <3>1
      <4>2. l[b] = lo[b] /\ h[b] = hi[b]
        BY <1>2, <1>4, <2>1, <4>1
      <4>3. IF s = "left" THEN h[x] = y ELSE l[x] = y
        BY <1>4, <2>1
      <4>4. IF s = "left" THEN z = "right" ELSE z = "left"
        BY <3>1 DEF o, Other
      <4>5. QED
        BY <2>7, <3>1, <4>1, <4>2, <4>3, <4>4
    <3>2. CASE n = y /\ z = s
      <4>1. r.child[z][n] = x
        BY <1>2, <1>4, <1>5, <3>2
      <4>2. /\ s = "left" => l[x] = lo[x] /\ l[y] = lo[x] /\ h[x] = y
            /\ s # "left" => l[x] = y /\ h[x] = hi[x] /\ h[y] = hi[x]
        BY <1>2, <1>4, <2>1
      <4>3. QED
        BY <3>2, <4>1, <4>2
    <3>3. CASE n = f /\ z = p
      <4>1. r.child[z][n] = y
        BY <1>2, <1>4, <1>5, <3>3
      <4>2. /\ z = "left" => lo[x] = lo[n] /\ hi[x] = n
            /\ z = "right" => lo[x] = n /\ hi[x] = hi[n]
        BY <1>1, <1>3, <2>4, <3>3
      <4>3. n \notin {x, y}
        BY <1>4, <3>3
      <4>4. QED
        BY <1>2, <1>4, <2>1, <2>5, <4>1, <4>2, <4>3
    <3>4. CASE ~ (n = x /\ z = o) /\ ~ (n = y /\ z = s) /\ ~ (n = f /\ z = p)
      <4> DEFINE c == tr.child[z][n]
      <4>1. r.child[z][n] = c
        BY <1>5, <3>4
      <4>2. c \in N /\ tr.father[c] = n
        BY <1>6, <2>10, <4>1 DEF Joined
      <4>3. /\ z = "left" => lo[c] = lo[n] /\ hi[c] = n
            /\ z = "right" => lo[c] = n /\ hi[c] = hi[n]
        BY <2>4, <2>10, <4>1
      <4>4. c # x
        <5>1. ASSUME c = x PROVE FALSE
          <6>1. n = f /\ tr.child[z][f] = x
            BY <4>2, <5>1 DEF f
          <6>2. QED
            BY <1>1, <1>3, <3>4, <6>1
        <5>2. QED
          BY <5>1
      <4>5. c # y
        <5>1. ASSUME c = y PROVE FALSE
          <6>1. n = x /\ z = s
            BY <1>1, <1>2, <3>4, <4>2, <5>1
          <6>2. tr.child[s][x] = y
            BY <5>1, <6>1
          <6>3. QED
            BY <6>2, TurnApart
        <5>2. QED
          BY <5>1
      <4>6. l[c] = lo[c] /\ h[c] = hi[c]
        BY <2>1, <4>2, <4>4, <4>5
      <4>7. n = x => z = s
        BY <1>1, <3>4
      <4>8. n = y => z = o
        BY <1>1, <3>4
      <4>9. /\ z = "left" => l[n] = lo[n]
            /\ z = "right" => h[n] = hi[n]
        <5> HIDE DEF c
        <5>1. n = x => IF s = "left" THEN l[n] = lo[n] ELSE h[n] = hi[n]
          BY <1>4, <2>1
        <5>2. n = y => IF s = "left" THEN h[n] = hi[n] ELSE l[n] = lo[n]
          BY <1>4, <2>1
        <5>3. n \notin {x, y} => l[n] = lo[n] /\ h[n] = hi[n]
          BY <2>1
        <5>4. QED
          BY <4>7, <4>8, <5>1, <5>2, <5>3 DEF o, Other, Side
      <4>10. QED
        BY <4>1, <4>3, <4>6, <4>9
    <3>5. QED
      BY <3>1, <3>2, <3>3, <3>4
  <2>11. QED
    BY <2>8, <2>9, <2>10 DEF Bounded, Side
<1>11. Shape(r, N, l, h)
  BY <1>1, <1>7, <1>9, <1>10 DEF Shape
<1>12. QED
  BY <1>8, <1>11

-----------------------------------------------------------------------------
\* Rotations of painted trees, and the black height.

(* A rotation of a tree some of whose nodes have been painted. *)
LEMMA Turning ==
  ASSUME NEW tr, NEW N, NEW lo, NEW hi, Shape(tr, N, lo, hi), NEW x \in N, NEW s \in Side,
         NEW y, y = tr.child[Other(s)][x], y # Nil,
         NEW black, NEW red, NEW p, IsPainted(tr, black, red, p)
  PROVE  LET r == Rotated(p, x, s) IN
         /\ HasTurned(tr, x, s, y, tr.child[s][y], r)
         /\ \E l, h : Shape(r, N, l, h)
         /\ Rooted(tr, N) => Rooted(r, N)
         /\ HasColours(tr, black, red, r)
<1> DEFINE b == tr.child[s][y]
           r == Rotated(p, x, s)
<1>1. Shape(p, N, lo, hi)
  BY PaintedShape
<1>2. p \in Trees /\ p.root = tr.root /\ p.child = tr.child /\ p.father = tr.father /\ x \in Keys
  BY DEF IsPainted, Shape
<1>3. y = p.child[Other(s)][x] /\ b = p.child[s][y]
  BY <1>2
<1>4. Apart(p, x, y, b)
  BY <1>1, <1>3, TurnApart
<1>5. HasTurned(p, x, s, y, b, r) /\ r.red = p.red
  BY <1>2, <1>3, <1>4, RotatedFacts
<1> HIDE DEF r, b
<1>6. HasTurned(tr, x, s, y, b, r)
  BY <1>2, <1>5 DEF HasTurned, SideOf
<1>7. (\E l, h : Shape(r, N, l, h)) /\ (Rooted(tr, N) => Rooted(r, N))
  BY <1>6, TurnShape DEF b
<1>8. HasColours(tr, black, red, r)
  BY <1>5 DEF IsPainted, HasColours
<1>9. QED
  BY <1>6, <1>7, <1>8 DEF r, b

\* The black nodes on every way down from c, itself included, if bh has those
\* below each node.
Hgt(tr, bh, c) == IF c = Nil THEN 0 ELSE bh[c] + (IF tr.red[c] THEN 0 ELSE 1)

\* bh has the black nodes on every way down from each node; a way that leads
\* through the child of p on side q is one short.
Heights(tr, N, bh, p, q) ==
  /\ bh \in [Keys -> Nat]
  /\ \A k \in N, s \in Side :
       bh[k] = Hgt(tr, bh, tr.child[s][k]) + (IF k = p /\ s = q THEN 1 ELSE 0)

(* A rotation that exchanges the colours of a red child and its father keeps
   the black height of every node. *)
LEMMA TurnHeights ==
  ASSUME NEW tr, NEW N, NEW lo, NEW hi, Shape(tr, N, lo, hi), NEW x \in N, NEW s \in Side,
         NEW y, NEW b, y = tr.child[Other(s)][x], y # Nil, b = tr.child[s][y],
         NEW r, HasTurned(tr, x, s, y, b, r),
         tr.red[y], r.red[x], r.red[y] <=> tr.red[x],
         \A k \in N \ {x, y} : r.red[k] <=> tr.red[k],
         NEW bh, NEW u, NEW q, Heights(tr, N, bh, u, q),
         ~ (u = x /\ q = Other(s)), ~ (u = y /\ q = s)
  PROVE  Heights(r, N, bh, u, q)
<1> DEFINE o == Other(s)
           f == tr.father[x]
           p == SideOf(tr, x)
<1>1. /\ o \in Side /\ o # s /\ Nil \notin N /\ N \subseteq Keys
      /\ \A z \in Side : z = o \/ z = s
  BY KeysAssumption DEF Side, Other, Shape
<1>2. /\ Apart(tr, x, y, b) /\ y \in N /\ b \in N \cup {Nil}
      /\ tr.father[y] = x /\ (b # Nil => tr.father[b] = y)
      /\ tr.child[s][x] # y /\ (b # Nil => tr.child[o][y] # b)
  BY TurnApart
<1>3. f # Nil => /\ f \in N /\ f # x /\ p \in Side /\ tr.child[p][f] = x
                 /\ \A z \in Side : tr.child[z][f] = x => z = p
  BY BelowFather
<1>4. /\ y # Nil /\ y # x /\ f \notin {x, y} /\ (b # Nil => b \notin {x, y, f})
  BY <1>2 DEF Apart
<1>5. \A n \in N, z \in Side :
        r.child[z][n] = IF n = x /\ z = o THEN b ELSE IF n = y /\ z = s THEN x
                        ELSE IF n = f /\ z = p THEN y ELSE tr.child[z][n]
  BY <1>1 DEF HasTurned
<1>6. \A n \in N, z \in Side :
         tr.child[z][n] # Nil => tr.child[z][n] \in N /\ tr.father[tr.child[z][n]] = n
  BY DEF Shape, Joined
<1>7. bh \in [Keys -> Nat] /\ \A n \in N : bh[n] \in Nat
  BY <1>1 DEF Heights
<1>8. \A n \in N, z \in Side :
        bh[n] = Hgt(tr, bh, tr.child[z][n]) + (IF n = u /\ z = q THEN 1 ELSE 0)
  BY DEF Heights
<1>9. \A c \in (N \cup {Nil}) \ {x, y} : Hgt(r, bh, c) = Hgt(tr, bh, c)
  BY DEF Hgt
<1>10. /\ Hgt(tr, bh, y) = bh[y] /\ Hgt(r, bh, x) = bh[x]
       /\ Hgt(r, bh, y) = bh[y] + (IF tr.red[x] THEN 0 ELSE 1)
       /\ Hgt(tr, bh, x) = bh[x] + (IF tr.red[x] THEN 0 ELSE 1)
  BY <1>1, <1>2, <1>7 DEF Hgt
<1> HIDE DEF o, f, p
<1>11. bh[x] = bh[y] /\ bh[y] = Hgt(tr, bh, b)
  <2>1. bh[x] = Hgt(tr, bh, y) + 0
    BY <1>1, <1>8 DEF o
  <2>2. bh[y] = Hgt(tr, bh, b) + 0
    BY <1>2, <1>8
  <2>3. bh[x] \in Nat /\ bh[y] \in Nat
    BY <1>2, <1>7
  <2>4. Hgt(tr, bh, b) \in Nat
    BY <1>2, <1>7 DEF Hgt
  <2>5. QED
    BY <1>10, <2>1, <2>2, <2>3, <2>4
<1>12. ASSUME NEW n \in N, NEW z \in Side
       PROVE  bh[n] = Hgt(r, bh, r.child[z][n]) + (IF n = u /\ z = q THEN 1 ELSE 0)
  <2>1. CASE n = x /\ z = o
    <3>1. r.child[z][n] = b /\ b \notin {x, y} /\ b \in N \cup {Nil}
      BY <1>1, <1>2, <1>4, <1>5, <2>1
    <3>2. ~ (n = u /\ z = q)
      BY <2>1 DEF o
    <3>3. bh[n] \in Nat /\ Hgt(r, bh, b) = bh[n]
      BY <1>7, <1>9, <1>11, <2>1, <3>1
    <3>4. QED
      BY <3>1, <3>2, <3>3
  <2>2. CASE n = y /\ z = s
    <3>1. r.child[z][n] = x
      BY <1>2, <1>4, <1>5, <2>2
    <3>2. ~ (n = u /\ z = q)
      BY <2>2
    <3>3. bh[n] \in Nat /\ Hgt(r, bh, x) = bh[n]
      BY <1>7, <1>10, <1>11, <2>2
    <3>4. QED
      BY <3>1, <3>2, <3>3
  <2>3. CASE n = f /\ z = p
    <3>1. r.child[z][n] = y
      BY <1>2, <1>4, <1>5, <2>3
    <3>2. tr.child[z][n] = x
      BY <1>1, <1>3, <2>3
    <3>3. QED
      BY <1>8, <1>10, <1>11, <3>1, <3>2
  <2>4. CASE ~ (n = x /\ z = o) /\ ~ (n = y /\ z = s) /\ ~ (n = f /\ z = p)
    <3> DEFINE c == tr.child[z][n]
    <3>1. r.child[z][n] = c
      BY <1>5, <2>4
    <3>2. c \in N \cup {Nil} /\ (c # Nil => tr.father[c] = n)
      BY <1>6
    <3>3. c # x
      <4>1. ASSUME c = x PROVE FALSE
        <5>1. n = f /\ tr.child[z][f] = x
          BY <1>1, <3>2, <4>1 DEF f
        <5>2. QED
          BY <1>1, <1>3, <2>4, <5>1
      <4>2. QED
        BY <4>1
    <3>4. c # y
      <4>1. ASSUME c = y PROVE FALSE
        <5>1. n = x /\ z = s
          BY <1>1, <1>2, <2>4, <3>2, <4>1
        <5>2. QED
          BY <1>2, <4>1, <5>1
      <4>2. QED
        BY <4>1
    <3>5. Hgt(r, bh, c) = Hgt(tr, bh, c)
      BY <1>9, <3>2, <3>3, <3>4
    <3>6. QED
      BY <1>8, <3>1, <3>5
  <2>5. QED
    BY <2>1, <2>2, <2>3, <2>4
<1>13. QED
  BY <1>7, <1>12 DEF Heights

-----------------------------------------------------------------------------
\* Colours, and the turns of insert_fixup.

\* Red nodes have black fathers, but for those in V; the root is black, or c.
Colours(tr, N, V, c) ==
  /\ \A k \in N : tr.red[k] /\ Red(tr, tr.father[k]) => k \in V
  /\ Red(tr, tr.root) => tr.root = c

(* The red node c, its red father f and its black grandfather g. *)
LEMMA Family ==
  ASSUME NEW tr, NEW N, NEW lo, NEW hi, Shape(tr, N, lo, hi), Rooted(tr, N), NEW c \in N,
         Colours(tr, N, {c}, c), tr.red[c], Red(tr, tr.father[c]),
         NEW f, f = tr.father[c], NEW g, g = tr.father[f], NEW s, s = SideOf(tr, f)
  PROVE  /\ f \in N /\ g \in N /\ f # c /\ g \notin {f, c} /\ s \in Side
         /\ tr.red[f] /\ ~ tr.red[g] /\ tr.child[s][g] = f
         /\ tr.child[Other(s)][g] # f
         /\ \E z \in Side : tr.child[z][f] = c
<1>1. Nil \notin N /\ N \subseteq Keys
  BY KeysAssumption DEF Shape
<1>2. f # Nil /\ tr.red[f]
  BY DEF Red
<1>3. f \in N /\ \E z \in Side : tr.child[z][f] = c
  BY <1>2 DEF Shape, Joined
<1>4. f # c
  BY Neighbours
<1>5. g # Nil
  <2>1. g = Nil => f = tr.root
    BY <1>3 DEF Shape, Joined
  <2>2. QED
    BY <1>2, <1>4, <2>1 DEF Colours, Red
<1>6. g \in N /\ g # f /\ s \in Side /\ tr.child[s][g] = f
  BY <1>3, <1>5, BelowFather
<1>7. g # c
  BY <1>1, <1>3, Neighbours
<1>8. ~ tr.red[g]
  BY <1>2, <1>3, <1>4, <1>5 DEF Colours, Red
<1>9. tr.child[Other(s)][g] # f
  BY <1>1, <1>3, <1>6, Neighbours
<1>10. QED
  BY <1>2, <1>3, <1>4, <1>6, <1>7, <1>8, <1>9

(* The turn that recolours: the two reds move up to the grandfather. *)
LEMMA InsertRecolours ==
  ASSUME NEW tr, NEW N, NEW lo, NEW hi, Shape(tr, N, lo, hi), Rooted(tr, N), NEW c \in N,
         Colours(tr, N, {c}, c), tr.red[c], Red(tr, tr.father[c]),
         NEW f, f = tr.father[c], NEW g, g = tr.father[f], NEW s, s = SideOf(tr, f),
         NEW u, tr.child[Other(s)][g] = u, Red(tr, u),
         NEW bh, Heights(tr, N, bh, Nil, "left"),
         NEW r, IsPainted(tr, {f, u}, {g}, r)
  PROVE  /\ g \in N /\ r.red[g] /\ Shape(r, N, lo, hi) /\ Rooted(r, N)
         /\ Colours(r, N, {g}, g)
         /\ \E h : Heights(r, N, h, Nil, "left")
<1>1. Nil \notin N /\ N \subseteq Keys
  BY KeysAssumption DEF Shape
<1>2. /\ f \in N /\ g \in N /\ f # c /\ g \notin {f, c} /\ s \in Side
      /\ tr.red[f] /\ ~ tr.red[g] /\ tr.child[s][g] = f /\ u # f
  BY Family
<1>3. Other(s) \in Side /\ \A z \in Side : z = s \/ z = Other(s)
  BY <1>2 DEF Side, Other
<1>4. u \in N /\ tr.father[u] = g /\ u # g /\ tr.red[u]
  BY <1>2, <1>3, Neighbours DEF Red
<1>5. Shape(r, N, lo, hi) /\ Rooted(r, N)
  BY PaintedShape
<1>6. \A k \in N : /\ r.red[k] <=> IF k \in {f, u} THEN FALSE ELSE k = g \/ tr.red[k]
                   /\ r.father[k] = tr.father[k]
                   /\ tr.father[k] \in N \cup {Nil}
  BY <1>1 DEF IsPainted, HasColours, Shape, Joined
<1>7. r.root = tr.root /\ r.child = tr.child
  BY DEF IsPainted, HasColours
<1>8. r.red[g]
  BY <1>2, <1>4, <1>6
<1>13. ~ r.red[f] /\ ~ r.red[u] /\ \A k \in N \ {f, u, g} : r.red[k] <=> tr.red[k]
  BY <1>2, <1>4, <1>6
<1>9. \A k \in N : k # c /\ tr.red[k] => ~ Red(tr, tr.father[k])
  BY DEF Colours
<1>10. Colours(r, N, {g}, g)
  <2>1. ASSUME NEW k \in N, r.red[k], Red(r, r.father[k]), k # g PROVE FALSE
    <3> DEFINE q == tr.father[k]
    <3>1. k \notin {f, u} /\ tr.red[k] /\ q \in N /\ r.red[q] /\ q \notin {f, u} /\ k # c
      BY <1>1, <1>6, <2>1 DEF Red
    <3>2. ~ tr.red[q]
      BY <1>1, <1>9, <3>1 DEF Red
    <3>3. q = g
      BY <1>6, <3>1, <3>2
    <3>4. \E z \in Side : tr.child[z][g] = k
      BY <1>1, <3>1, <3>3 DEF Shape, Joined
    <3>5. QED
      BY <1>2, <1>3, <3>1, <3>4
  <2>2. ASSUME Red(r, r.root) PROVE r.root = g
    <3>1. tr.root # Nil /\ r.red[tr.root] /\ tr.root \in Keys
      BY <1>7, <2>2, TreeTypes DEF Red, Shape, Ptrs
    <3>2. tr.root \notin {f, u} /\ (tr.root = g \/ tr.red[tr.root])
      BY <3>1, <2>2 DEF IsPainted, HasColours
    <3>3. tr.red[tr.root] => tr.root = c
      BY <3>1 DEF Colours, Red
    <3>4. tr.root # c
      BY <3>1 DEF Rooted, Red
    <3>5. QED
      BY <1>7, <3>2, <3>3, <3>4
  <2>3. QED
    BY <2>1, <2>2 DEF Colours
<1>11. \E h : Heights(r, N, h, Nil, "left")
  <2>1. bh \in [Keys -> Nat] /\ g \in Keys /\ \A k \in N : bh[k] \in Nat
    BY <1>1, <1>2 DEF Heights
  <2> DEFINE h == [bh EXCEPT ![g] = bh[g] + 1]
  <2>2. h \in [Keys -> Nat] /\ \A k \in N : h[k] = IF k = g THEN bh[g] + 1 ELSE bh[k]
    BY <1>1, <2>1
  <2>3. \A k \in N, z \in Side : bh[k] = Hgt(tr, bh, tr.child[z][k]) + 0
    BY <1>1 DEF Heights
  <2>4. \A k \in N, z \in Side : tr.child[z][k] \in N \cup {Nil}
    BY DEF Shape, Joined
  <2> HIDE DEF h
  <2>5. \A k \in (N \cup {Nil}) \ {f, u} : Hgt(r, h, k) = Hgt(tr, bh, k)
    <3> SUFFICES ASSUME NEW k \in N \ {f, u} PROVE Hgt(r, h, k) = Hgt(tr, bh, k)
      BY DEF Hgt
    <3>1. CASE k = g
      BY <1>1, <1>2, <1>8, <2>1, <2>2, <3>1 DEF Hgt
    <3>2. CASE k # g
      BY <1>1, <1>13, <2>2, <3>2 DEF Hgt
    <3>3. QED
      BY <3>1, <3>2
  <2>6. \A k \in {f, u} : Hgt(r, h, k) = Hgt(tr, bh, k) + 1
    BY <1>1, <1>2, <1>4, <1>13, <2>1, <2>2 DEF Hgt
  <2>7. \A k \in N, z \in Side : Hgt(tr, bh, tr.child[z][k]) \in Nat
    BY <2>1, <2>4 DEF Hgt
  <2>8. ASSUME NEW k \in N, NEW z \in Side PROVE h[k] = Hgt(r, h, tr.child[z][k])
    <3>1. CASE k = g
      <4>1. tr.child[z][k] \in {f, u}
        BY <1>2, <1>3, <3>1
      <4>2. QED
        BY <2>2, <2>3, <2>6, <2>7, <3>1, <4>1
    <3>2. CASE k # g
      <4>1. tr.father[f] = g /\ tr.father[u] = g /\ Nil \notin {f, u}
        BY <1>1, <1>2, <1>4
      <4>3. tr.child[z][k] \in {f, u} => tr.father[tr.child[z][k]] = k
        BY <4>1 DEF Shape, Joined
      <4>4. tr.child[z][k] \in (N \cup {Nil}) \ {f, u}
        BY <2>4, <3>2, <4>1, <4>3
      <4>2. QED
        BY <2>2, <2>3, <2>5, <2>7, <3>2, <4>4
    <3>3. QED
      BY <3>1, <3>2
  <2>9. \A k \in N, z \in Side : h[k] = Hgt(r, h, tr.child[z][k]) + 0
    BY <1>1, <2>1, <2>2, <2>8
  <2>10. QED
    BY <1>1, <1>7, <2>2, <2>9 DEF Heights
<1>12. QED
  BY <1>2, <1>5, <1>8, <1>10, <1>11

(* The turn that makes a bent red pair straight. *)
LEMMA InsertStraightens ==
  ASSUME NEW tr, NEW N, NEW lo, NEW hi, Shape(tr, N, lo, hi), Rooted(tr, N), NEW c \in N,
         Colours(tr, N, {c}, c), tr.red[c], Red(tr, tr.father[c]),
         NEW f, f = tr.father[c], NEW g, g = tr.father[f], NEW s, s = SideOf(tr, f),
         tr.child[Other(s)][f] = c,
         NEW bh, Heights(tr, N, bh, Nil, "left"),
         NEW r, r = Rotated(tr, f, s)
  PROVE  /\ \E l, h : Shape(r, N, l, h)
         /\ Rooted(r, N)
         /\ f \in N /\ r.red[f] /\ Red(r, r.father[f]) /\ Colours(r, N, {f}, f)
         /\ Heights(r, N, bh, Nil, "left")
         /\ r.father[f] = c /\ r.father[c] = g /\ SideOf(r, c) = s /\ r.child[s][c] = f
         /\ r.child[Other(s)][g] = tr.child[Other(s)][g] /\ r.red = tr.red
<1>1. Nil \notin N /\ N \subseteq Keys
  BY KeysAssumption DEF Shape
<1>2. /\ f \in N /\ g \in N /\ f # c /\ g \notin {f, c} /\ s \in Side
      /\ tr.red[f] /\ ~ tr.red[g] /\ tr.child[s][g] = f /\ tr.child[Other(s)][g] # f
  BY Family
<1> DEFINE b == tr.child[s][c]
<1>3. /\ Apart(tr, f, c, b) /\ b \in N \cup {Nil} /\ (b # Nil => tr.father[b] = c)
  BY <1>1, <1>2, TurnApart
<1>4. HasTurned(tr, f, s, c, b, r) /\ r.red = tr.red
  <2>1. tr \in Trees /\ f \in Keys
    BY <1>1, <1>2 DEF Shape
  <2>2. QED
    BY <1>2, <1>3, <2>1, RotatedFacts
<1> HIDE DEF b
<1>5. (\E l, h : Shape(r, N, l, h)) /\ Rooted(r, N)
  BY <1>1, <1>2, <1>4, TurnShape DEF b
<1>6. /\ r.root = tr.root
      /\ \A n \in N : r.father[n] = IF n = f THEN c ELSE IF n = c THEN g
                                    ELSE IF n = b THEN f ELSE tr.father[n]
      /\ \A n \in N, z \in Side :
           r.child[z][n] = IF n = f /\ z = Other(s) THEN b ELSE IF n = c /\ z = s THEN f
                           ELSE IF n = g /\ z = s THEN c
                           ELSE tr.child[z][n]
  BY <1>1, <1>2, <1>4 DEF HasTurned
<1>7. Other(s) \in Side /\ Other(s) # s
  BY DEF Side, Other
<1>8. /\ r.father[f] = c /\ r.father[c] = g /\ r.child[s][c] = f /\ r.child[s][g] = c
      /\ r.child[Other(s)][g] = tr.child[Other(s)][g]
  BY <1>2, <1>6, <1>7
<1>9. SideOf(r, c) = s
  <2>1. PICK l, h : Shape(r, N, l, h)
    BY <1>5
  <2>2. QED
    BY <1>1, <1>2, <1>8, <2>1, BelowFather
<1>10. Heights(r, N, bh, Nil, "left")
  BY <1>1, <1>2, <1>4, TurnHeights DEF b
<1>11. Colours(r, N, {f}, f)
  <2>1. ASSUME NEW k \in N, r.red[k], Red(r, r.father[k]), k # f PROVE FALSE
    <3>1. tr.red[k] /\ r.father[k] # Nil /\ tr.red[r.father[k]]
      BY <1>4, <2>1 DEF Red
    <3>2. k # c
      BY <1>2, <1>6, <3>1
    <3>3. k # b
      BY <1>3, <2>1, <3>1, <3>2, <1>1, <1>2 DEF Colours, Red
    <3>4. r.father[k] = tr.father[k]
      BY <1>6, <2>1, <3>2, <3>3
    <3>5. QED
      BY <3>1, <3>2, <3>4 DEF Colours, Red
  <2>2. ASSUME Red(r, r.root) PROVE r.root = f
    <3>1. Red(tr, tr.root)
      BY <1>4, <1>6, <2>2 DEF Red
    <3>2. tr.root = c
      BY <3>1 DEF Colours
    <3>3. c \in N /\ tr.father[c] = Nil
      BY <3>1, <3>2 DEF Rooted, Red
    <3>4. QED
      BY <1>1, <1>2, <3>3
  <2>3. QED
    BY <2>1, <2>2 DEF Colours
<1>12. QED
  BY <1>1, <1>2, <1>4, <1>5, <1>8, <1>9, <1>10, <1>11 DEF Red

(* The turn that rotates a straight red pair over the grandfather: no red has
   a red father any more. *)
LEMMA InsertRotates ==
  ASSUME NEW tr, NEW N, NEW lo, NEW hi, Shape(tr, N, lo, hi), Rooted(tr, N), NEW c \in N,
         Colours(tr, N, {c}, c), tr.red[c], Red(tr, tr.father[c]),
         NEW f, f = tr.father[c], NEW g, g = tr.father[f], NEW s, s = SideOf(tr, f),
         tr.child[s][f] = c, ~ Red(tr, tr.child[Other(s)][g]),
         NEW bh, Heights(tr, N, bh, Nil, "left"),
         NEW pt, IsPainted(tr, {f}, {g}, pt), NEW r, Rotated(pt, g, Other(s)) = r
  PROVE  /\ \E l, h : Shape(r, N, l, h)
         /\ Rooted(r, N) /\ r.red[c] /\ Colours(r, N, {}, Nil)
         /\ Heights(r, N, bh, Nil, "left")
<1>1. Nil \notin N /\ N \subseteq Keys
  BY KeysAssumption DEF Shape
<1>2. /\ f \in N /\ g \in N /\ f # c /\ g \notin {f, c} /\ s \in Side
      /\ tr.red[f] /\ ~ tr.red[g] /\ tr.child[s][g] = f /\ tr.child[Other(s)][g] # f
  BY Family
<1> DEFINE o == Other(s)
           b == tr.child[o][f]
           e == tr.father[g]
           p == SideOf(tr, g)
<1>3. o \in Side /\ o # s /\ Other(o) = s /\ \A z \in Side : z = s \/ z = o
  BY <1>2 DEF Side, Other
<1>4. /\ Apart(tr, g, f, b) /\ b \in N \cup {Nil} /\ (b # Nil => tr.father[b] = f)
      /\ (b # Nil => b # c)
  BY <1>1, <1>2, <1>3, TurnApart
<1>6. /\ HasTurned(tr, g, o, f, b, r)
      /\ \E l, h : Shape(r, N, l, h)
      /\ Rooted(r, N)
      /\ HasColours(tr, {f}, {g}, r)
  <2>1. f = tr.child[Other(o)][g] /\ f # Nil
    BY <1>1, <1>2, <1>3
  <2> DEFINE m == Rotated(pt, g, o)
  <2> HIDE DEF o
  <2>2. /\ HasTurned(tr, g, o, f, tr.child[o][f], m)
        /\ \E l, h : Shape(m, N, l, h)
        /\ Rooted(tr, N) => Rooted(m, N)
        /\ HasColours(tr, {f}, {g}, m)
    BY <1>2, <1>3, <2>1, Turning
  <2>3. m = r
    BY DEF o
  <2> HIDE DEF m
  <2>4. QED
    BY <2>2, <2>3
<1>7. /\ ~ r.red[f] /\ r.red[g] /\ \A k \in N \ {f, g} : r.red[k] <=> tr.red[k]
  BY <1>1, <1>2, <1>6 DEF HasColours
<1> HIDE DEF b, o, e, p
<1>8. Heights(r, N, bh, Nil, "left")
  <2>1. f = tr.child[Other(o)][g] /\ f # Nil /\ b = tr.child[o][f] /\ f # g
    BY <1>1, <1>2, <1>3 DEF b
  <2>2. /\ tr.red[f] /\ r.red[g] /\ (r.red[f] <=> tr.red[g])
        /\ \A k \in N \ {g, f} : r.red[k] <=> tr.red[k]
    BY <1>2, <1>7
  <2>3. ~ (Nil = g /\ "left" = Other(o)) /\ ~ (Nil = f /\ "left" = o)
    BY <1>1, <1>2
  <2>4. QED
    BY <1>2, <1>3, <1>6, <2>1, <2>2, <2>3, TurnHeights
<1>9. /\ r.root = IF e = Nil THEN f ELSE tr.root
      /\ \A n \in N : r.father[n] = IF n = g THEN f ELSE IF n = f THEN e
                                    ELSE IF n = b THEN g ELSE tr.father[n]
  BY <1>1, <1>6 DEF HasTurned, e
<1>10. \A k \in N : k # c /\ tr.red[k] => ~ Red(tr, tr.father[k])
  BY DEF Colours
<1>11. ASSUME NEW k \in N, r.red[k], Red(r, r.father[k]) PROVE FALSE
  <2> DEFINE q == r.father[k]
  <2>1. q # Nil /\ r.red[q] /\ q # f /\ k # f /\ k # g
    <3>1. q # Nil /\ r.red[q] /\ q # f
      BY <1>7, <1>11 DEF Red
    <3>2. k # f
      BY <1>7, <1>11
    <3>3. k # g
      BY <1>2, <1>9, <3>1
    <3>4. QED
      BY <3>1, <3>2, <3>3
  <2>2. k # b
    <3> SUFFICES ASSUME k = b PROVE FALSE
      OBVIOUS
    <3>1. tr.red[b] /\ tr.father[b] = f /\ b # c
      BY <1>1, <1>4, <1>7, <2>1, <1>11
    <3>2. QED
      BY <1>1, <1>2, <1>10, <1>11, <3>1 DEF Red
  <2>3. q = tr.father[k] /\ tr.red[k] /\ k # c
    <3>1. q = tr.father[k] /\ tr.red[k]
      BY <1>7, <1>9, <1>11, <2>1, <2>2
    <3>2. QED
      BY <2>1, <3>1
  <2>4. q \in N
    BY <2>1, <2>3 DEF Shape, Joined
  <2>5. ~ tr.red[q]
    BY <1>10, <2>1, <2>3 DEF Red
  <2>6. q = g
    BY <1>7, <2>1, <2>4, <2>5
  <2>7. PICK z \in Side : tr.child[z][g] = k
    <3>1. tr.father[k] = g /\ g # Nil
      BY <2>1, <2>3, <2>6
    <3>2. QED
      BY <3>1 DEF Shape, Joined
  <2>8. z = o
    BY <1>2, <1>3, <2>1, <2>7
  <2>9. QED
    BY <1>1, <2>3, <2>7, <2>8 DEF Red, o
<1>12. ~ Red(r, r.root)
  <2> SUFFICES ASSUME Red(r, r.root) PROVE FALSE
    OBVIOUS
  <2>1. r.root # f
    BY <1>7 DEF Red
  <2>2. r.root = tr.root /\ e # Nil /\ tr.root # Nil /\ r.red[tr.root]
    BY <1>9, <2>1 DEF Red
  <2>3. tr.root \in N /\ tr.father[tr.root] = Nil
    BY <2>2 DEF Rooted
  <2>4. tr.root # g /\ tr.root # c
    BY <1>1, <1>2, <2>2, <2>3 DEF e
  <2>5. tr.red[tr.root]
    BY <1>7, <2>1, <2>2, <2>3, <2>4
  <2>6. QED
    BY <2>2, <2>4, <2>5 DEF Colours, Red
<1>13. Colours(r, N, {}, Nil)
  BY <1>11, <1>12 DEF Colours
<1>14. QED
  BY <1>2, <1>6, <1>7, <1>8, <1>13

-----------------------------------------------------------------------------
\* A new leaf.

\* r is tr with the node c below p, or as the root.
HasLeaf(tr, c, p, r) ==
  /\ r \in Trees /\ r.root = IF p = Nil THEN c ELSE tr.root
  /\ \A n \in Keys : r.father[n] = IF n = c THEN p ELSE tr.father[n]
  /\ \A n \in Keys, z \in Side :
       r.child[z][n] = IF n = p /\ z = SideFor(c, p) THEN c ELSE tr.child[z][n]

(* A key that is not in the tree becomes a leaf where the search for it ended. *)
LEMMA LeafShape ==
  ASSUME NEW tr, NEW N, NEW lo, NEW hi, Shape(tr, N, lo, hi), Rooted(tr, N),
         NEW c \in Keys \ N, tr.father[c] = Nil, \A s \in Side : tr.child[s][c] = Nil,
         NEW p \in Ptrs,
         IF p = Nil THEN tr.root = Nil
         ELSE /\ p \in N /\ c # p /\ Between(c, lo[p], hi[p])
              /\ tr.child[SideFor(c, p)][p] = Nil,
         NEW r, HasLeaf(tr, c, p, r)
  PROVE  /\ \E l, h : Shape(r, N \cup {c}, l, h)
         /\ Rooted(r, N \cup {c})
<1> DEFINE M == N \cup {c}
           s == SideFor(c, p)
<1>1. /\ Nil \notin M /\ N \subseteq Keys /\ M \subseteq Keys /\ Keys \subseteq Int /\ s \in Side
  BY KeysAssumption DEF Shape, SideFor, Side
<1>2. p = Nil => N = {}
  <2> SUFFICES ASSUME p = Nil, N # {} PROVE FALSE
    OBVIOUS
  <2>1. N \in SUBSET N /\ Upward(tr, N)
    BY DEF Shape, Joined, Upward
  <2>2. tr.root \in N
    BY <2>1, UpwardHasRoot
  <2>3. QED
    BY <1>1, <2>2
<1>3. \A n \in N, z \in Side :
        tr.child[z][n] # Nil => tr.child[z][n] \in N /\ tr.father[tr.child[z][n]] = n
  BY DEF Shape, Joined
<1>4. \A n \in N : IF tr.father[n] = Nil THEN n = tr.root
                   ELSE tr.father[n] \in N /\ \E z \in Side : tr.child[z][tr.father[n]] = n
  BY DEF Shape, Joined
<1>5. p # Nil => p \in N /\ p # c /\ tr.child[s][p] = Nil
  OBVIOUS
<1> HIDE DEF s
<1>6. \A n \in M, z \in Side :
         r.child[z][n] = IF n = p /\ z = s THEN c ELSE tr.child[z][n]
  BY <1>1 DEF s, HasLeaf
<1>7. \A n \in M : r.father[n] = IF n = c THEN p ELSE tr.father[n]
  BY <1>1 DEF HasLeaf
<1>14. r.root = (IF p = Nil THEN c ELSE tr.root) /\ r \in Trees
  BY DEF HasLeaf
<1>8. Joined(r, M)
  <2>1. ASSUME NEW n \in M, NEW z \in Side, r.child[z][n] # Nil
        PROVE  r.child[z][n] \in M /\ r.father[r.child[z][n]] = n
    <3>1. CASE n = p /\ z = s
      BY <1>6, <1>7, <3>1
    <3>2. CASE ~ (n = p /\ z = s)
      <4>1. r.child[z][n] = tr.child[z][n] /\ n # c
        BY <1>6, <2>1, <3>2
      <4>2. QED
        BY <1>3, <1>7, <2>1, <4>1
    <3>3. QED
      BY <3>1, <3>2
  <2>2. ASSUME NEW n \in M
        PROVE  IF r.father[n] = Nil THEN n = r.root
               ELSE r.father[n] \in M /\ \E z \in Side : r.child[z][r.father[n]] = n
    <3>1. CASE n = c
      BY <1>1, <1>5, <1>6, <1>7, <1>14, <3>1
    <3>2. CASE n # c /\ tr.father[n] = Nil
      BY <1>2, <1>4, <1>7, <1>14, <3>2
    <3>3. CASE n # c /\ tr.father[n] # Nil
      <4>1. PICK z \in Side : tr.father[n] \in N /\ tr.child[z][tr.father[n]] = n
        BY <1>4, <3>3
      <4>2. ~ (tr.father[n] = p /\ z = s)
        BY <1>1, <1>5, <4>1
      <4>3. r.child[z][tr.father[n]] = n /\ r.father[n] = tr.father[n]
        BY <1>6, <1>7, <3>3, <4>1, <4>2
      <4>4. QED
        BY <1>1, <4>1, <4>3
    <3>4. QED
      BY <3>1, <3>2, <3>3
  <2>3. QED
    BY <2>1, <2>2 DEF Joined
<1>9. Acyclic(r, M)
  <2> SUFFICES ASSUME NEW S \in SUBSET M, S # {}, \A n \in S : r.father[n] \in S PROVE FALSE
    BY DEF Acyclic
  <2>1. S \ {c} \in SUBSET N /\ \A n \in S \ {c} : tr.father[n] \in S
    BY <1>7
  <2>2. \A n \in S \ {c} : tr.father[n] # c
    BY <1>1, <1>4
  <2>3. S \ {c} # {}
    BY <1>1, <1>5, <1>7
  <2>4. QED
    BY <2>1, <2>2, <2>3 DEF Shape, Acyclic
<1> DEFINE l == [lo EXCEPT ![c] = IF p = Nil THEN Nil ELSE IF s = "left" THEN lo[p] ELSE p]
           h == [hi EXCEPT ![c] = IF p = Nil THEN Nil ELSE IF s = "left" THEN p ELSE hi[p]]
<1>10. l \in [Keys -> Ptrs] /\ h \in [Keys -> Ptrs]
  BY DEF Shape, Ptrs
<1>11. Bounded(r, M, l, h)
  <2>1. \A n \in N : l[n] = lo[n] /\ h[n] = hi[n]
    BY <1>1 DEF Shape
  <2>2. /\ l[c] = IF p = Nil THEN Nil ELSE IF s = "left" THEN lo[p] ELSE p
        /\ h[c] = IF p = Nil THEN Nil ELSE IF s = "left" THEN p ELSE hi[p]
    BY DEF Shape
  <2> HIDE DEF l, h
  <2>3. \A n \in N : /\ Between(n, lo[n], hi[n])
                     /\ tr.father[n] = Nil => lo[n] = Nil /\ hi[n] = Nil
                     /\ tr.child["left"][n] # Nil =>
                          lo[tr.child["left"][n]] = lo[n] /\ hi[tr.child["left"][n]] = n
                     /\ tr.child["right"][n] # Nil =>
                          lo[tr.child["right"][n]] = n /\ hi[tr.child["right"][n]] = hi[n]
    BY DEF Shape, Bounded
  <2>4. Between(c, l[c], h[c])
    <3>1. CASE p = Nil
      BY <2>2, <3>1 DEF Between
    <3>2. CASE p # Nil
      <4>1. Between(c, lo[p], hi[p]) /\ p \in Int /\ c \in Int /\ c # p
        BY <1>1, <3>2
      <4>2. s = "left" <=> c < p
        BY DEF s, SideFor
      <4>3. QED
        BY <2>2, <3>2, <4>1, <4>2 DEF Between
    <3>3. QED
      BY <3>1, <3>2
  <2>5. \A n \in M : Between(n, l[n], h[n]) /\ (r.father[n] = Nil => l[n] = Nil /\ h[n] = Nil)
    BY <1>7, <2>1, <2>2, <2>3, <2>4
  <2>6. ASSUME NEW n \in M, NEW z \in Side, r.child[z][n] # Nil
        PROVE  /\ z = "left" => l[r.child[z][n]] = l[n] /\ h[r.child[z][n]] = n
               /\ z = "right" => l[r.child[z][n]] = n /\ h[r.child[z][n]] = h[n]
    <3>1. CASE n = p /\ z = s
      BY <1>1, <1>5, <1>6, <2>1, <2>2, <2>6, <3>1 DEF Side
    <3>2. CASE ~ (n = p /\ z = s)
      <4>1. r.child[z][n] = tr.child[z][n] /\ n \in N
        BY <1>6, <2>6, <3>2
      <4>2. tr.child[z][n] \in N
        BY <1>3, <2>6, <4>1
      <4>3. QED
        BY <2>1, <2>3, <2>6, <4>1, <4>2
    <3>3. QED
      BY <3>1, <3>2
  <2>7. QED
    BY <2>5, <2>6 DEF Bounded, Side
<1>12. Shape(r, M, l, h)
  BY <1>1, <1>8, <1>9, <1>10, <1>11, <1>14 DEF Shape
<1>13. Rooted(r, M)
  BY <1>1, <1>7, <1>5, <1>14 DEF Rooted
<1>15. QED
  BY <1>12, <1>13

(* The leaf is red, and so leaves the black heights as they are. *)
LEMMA LeafColours ==
  ASSUME NEW tr, NEW N, NEW lo, NEW hi, Shape(tr, N, lo, hi),
         NEW c \in Keys \ N, \A s \in Side : tr.child[s][c] = Nil,
         NEW p \in Ptrs,
         IF p = Nil THEN tr.root = Nil ELSE p \in N /\ tr.child[SideFor(c, p)][p] = Nil,
         NEW r, HasLeaf(tr, c, p, r), HasColours(tr, {}, {c}, r),
         Colours(tr, N, {}, Nil), NEW bh, Heights(tr, N, bh, Nil, "left")
  PROVE  /\ r.red[c] /\ Colours(r, N \cup {c}, {c}, c)
         /\ \E h : Heights(r, N \cup {c}, h, Nil, "left")
<1>1. /\ Nil \notin N \cup {c} /\ N \subseteq Keys /\ SideFor(c, p) \in Side
  BY KeysAssumption DEF Shape, SideFor, Side
<1>2. /\ \A n \in N \cup {c} : r.father[n] = IF n = c THEN p ELSE tr.father[n]
      /\ \A n \in N \cup {c}, z \in Side :
           r.child[z][n] = IF n = p /\ z = SideFor(c, p) THEN c ELSE tr.child[z][n]
      /\ r.root = IF p = Nil THEN c ELSE tr.root
  BY <1>1 DEF HasLeaf
<1>3. r.red[c] /\ \A n \in Keys \ {c} : r.red[n] <=> tr.red[n]
  BY DEF HasColours
<1>4. \A n \in N, z \in Side : tr.child[z][n] \in N \cup {Nil}
  BY DEF Shape, Joined
<1>5. \A n \in N : tr.father[n] \in N \cup {Nil}
  BY DEF Shape, Joined
<1>6. Colours(r, N \cup {c}, {c}, c)
  <2>1. ASSUME NEW k \in N, r.red[k], Red(r, r.father[k]) PROVE FALSE
    <3>1. r.father[k] = tr.father[k] /\ tr.father[k] \in N /\ tr.red[k]
      BY <1>1, <1>2, <1>3, <1>5, <2>1 DEF Red
    <3>2. r.red[tr.father[k]]
      BY <2>1, <3>1 DEF Red
    <3>3. tr.red[tr.father[k]]
      BY <1>1, <1>3, <3>1, <3>2
    <3>4. QED
      BY <1>1, <3>1, <3>3 DEF Colours, Red
  <2>2. ASSUME Red(r, r.root) PROVE r.root = c
    <3> SUFFICES ASSUME r.root # c PROVE FALSE
      OBVIOUS
    <3>1. r.root = tr.root /\ tr.root # Nil /\ tr.root \in Keys /\ r.red[tr.root]
      BY <1>2, <2>2, TreeTypes DEF Red, Shape, Ptrs
    <3>2. Red(tr, tr.root)
      BY <1>3, <3>1 DEF Red
    <3>3. QED
      BY <3>1, <3>2 DEF Colours
  <2>3. QED
    BY <2>1, <2>2 DEF Colours
<1>7. \E h : Heights(r, N \cup {c}, h, Nil, "left")
  <2> DEFINE h == [bh EXCEPT ![c] = 0]
  <2>1. bh \in [Keys -> Nat] /\ \A n \in N : bh[n] \in Nat
    BY <1>1 DEF Heights
  <2>2. h \in [Keys -> Nat] /\ h[c] = 0 /\ \A n \in N : h[n] = bh[n]
    BY <1>1, <2>1
  <2>3. \A n \in N, z \in Side : bh[n] = Hgt(tr, bh, tr.child[z][n])
    <3>1. \A n \in N, z \in Side : bh[n] = Hgt(tr, bh, tr.child[z][n]) + 0
      BY <1>1 DEF Heights
    <3>2. \A n \in N, z \in Side : Hgt(tr, bh, tr.child[z][n]) \in Nat
      BY <1>4, <2>1 DEF Hgt
    <3>3. QED
      BY <3>1, <3>2
  <2> HIDE DEF h
  <2>4. \A n \in N \cup {Nil} : Hgt(r, h, n) = Hgt(tr, bh, n)
    BY <1>1, <1>3, <2>2 DEF Hgt
  <2>5. Hgt(r, h, c) = 0 /\ Hgt(r, h, Nil) = 0 /\ Hgt(tr, bh, Nil) = 0
    BY <1>1, <1>3, <2>2 DEF Hgt
  <2>6. ASSUME NEW n \in N \cup {c}, NEW z \in Side PROVE h[n] = Hgt(r, h, r.child[z][n]) + 0
    <3>1. CASE n = c
      <4>1. r.child[z][n] = Nil
        BY <1>1, <1>2, <3>1
      <4>2. QED
        BY <2>2, <2>5, <3>1, <4>1
    <3>2. CASE n # c /\ n = p /\ z = SideFor(c, p)
      <4>1. r.child[z][n] = c /\ tr.child[z][n] = Nil /\ n \in N
        BY <1>1, <1>2, <3>2
      <4>2. QED
        BY <2>2, <2>3, <2>5, <4>1
    <3>3. CASE n # c /\ ~ (n = p /\ z = SideFor(c, p))
      <4>1. r.child[z][n] = tr.child[z][n] /\ n \in N
        BY <1>2, <3>3
      <4>2. h[n] = Hgt(r, h, r.child[z][n]) /\ h[n] \in Nat
        BY <1>4, <2>1, <2>2, <2>3, <2>4, <4>1
      <4>3. QED
        BY <4>2
    <3>4. QED
      BY <3>1, <3>2, <3>3
  <2>7. QED
    BY <1>1, <2>2, <2>6 DEF Heights
<1>8. QED
  BY <1>3, <1>6, <1>7

-----------------------------------------------------------------------------
\* Taking out a node that has a child on one side at most.

\* The bounds of a tree that d has left: those that d set go up to its own.
Lifted(b, d) == [n \in Keys |-> IF b[n] = d THEN b[d] ELSE b[n]]

(* A node with one child at most can be replaced by that child: the links agree. *)
LEMMA SpliceJoined ==
  ASSUME NEW tr, NEW N, NEW lo, NEW hi, Shape(tr, N, lo, hi), NEW d \in N,
         NEW o \in Side, tr.child[o][d] = Nil, NEW c, c = tr.child[Other(o)][d],
         NEW r, HasReplaced(tr, d, c, r)
  PROVE  Joined(r, N \ {d}) /\ Acyclic(r, N \ {d}) /\ (Rooted(tr, N) => Rooted(r, N \ {d}))
<1> DEFINE f == tr.father[d]
           p == SideOf(tr, d)
           M == N \ {d}
<1>1. /\ Other(o) \in Side /\ Nil \notin N /\ N \subseteq Keys
      /\ \A z \in Side : z = o \/ z = Other(o)
  BY KeysAssumption DEF Side, Other, Shape
<1>2. /\ f = Nil => d = tr.root
      /\ f # Nil => /\ f \in N /\ f # d /\ p \in Side /\ tr.child[p][f] = d
                    /\ \A z \in Side : tr.child[z][f] = d => z = p
  BY BelowFather
<1>3. c # Nil => c \in N /\ tr.father[c] = d /\ c # d /\ c # f
  BY <1>1, Neighbours
<1>4. \A n \in N, z \in Side :
         tr.child[z][n] # Nil => tr.child[z][n] \in N /\ tr.father[tr.child[z][n]] = n
  BY DEF Shape, Joined
<1>5. \A n \in N : IF tr.father[n] = Nil THEN n = tr.root
                   ELSE tr.father[n] \in N /\ \E z \in Side : tr.child[z][tr.father[n]] = n
  BY DEF Shape, Joined
<1>6. \A n \in N : tr.father[n] = d => n = c
  BY <1>1, <1>5
<1> HIDE DEF f, p
<1>7. /\ r.root = IF f = Nil THEN c ELSE tr.root
      /\ \A n \in N : r.father[n] = IF n = c THEN f ELSE tr.father[n]
      /\ \A n \in N, z \in Side :
           r.child[z][n] = IF n = f /\ z = p THEN c ELSE tr.child[z][n]
  BY <1>1 DEF HasReplaced, f, p
<1>8. Joined(r, M)
  <2>1. ASSUME NEW n \in M, NEW z \in Side, r.child[z][n] # Nil
        PROVE  r.child[z][n] \in M /\ r.father[r.child[z][n]] = n
    <3>1. CASE n = f /\ z = p
      BY <1>3, <1>7, <2>1, <3>1
    <3>2. CASE ~ (n = f /\ z = p)
      <4> DEFINE k == tr.child[z][n]
      <4>1. r.child[z][n] = k /\ k \in N /\ tr.father[k] = n
        BY <1>4, <1>7, <2>1, <3>2
      <4>2. k # d
        <5> SUFFICES ASSUME k = d PROVE FALSE
          OBVIOUS
        <5>1. n = f
          BY <4>1 DEF f
        <5>2. QED
          BY <1>1, <1>2, <3>2, <5>1
      <4>3. k # c
        BY <1>1, <1>3, <4>1
      <4>4. QED
        BY <1>7, <4>1, <4>2, <4>3
    <3>3. QED
      BY <3>1, <3>2
  <2>2. ASSUME NEW n \in M
        PROVE  IF r.father[n] = Nil THEN n = r.root
               ELSE r.father[n] \in M /\ \E z \in Side : r.child[z][r.father[n]] = n
    <3>1. CASE n = c
      BY <1>1, <1>2, <1>7, <3>1
    <3>2. CASE n # c /\ tr.father[n] = Nil
      BY <1>2, <1>5, <1>7, <3>2
    <3>3. CASE n # c /\ tr.father[n] # Nil
      <4>1. PICK z \in Side : tr.father[n] \in N /\ tr.child[z][tr.father[n]] = n
        BY <1>5, <3>3
      <4>2. ~ (tr.father[n] = f /\ z = p)
        BY <1>1, <1>2, <4>1
      <4>3. r.child[z][tr.father[n]] = n /\ r.father[n] = tr.father[n] /\ tr.father[n] # d
        BY <1>6, <1>7, <3>3, <4>1, <4>2
      <4>4. QED
        BY <1>1, <4>1, <4>3
    <3>4. QED
      BY <3>1, <3>2, <3>3
  <2>3. QED
    BY <2>1, <2>2 DEF Joined
<1>9. Acyclic(r, M)
  <2> SUFFICES ASSUME NEW S \in SUBSET M, S # {}, \A n \in S : r.father[n] \in S PROVE FALSE
    BY DEF Acyclic
  <2>1. CASE c \in S
    <3>1. f \in S
      BY <1>7, <2>1
    <3>2. \A n \in S \cup {d} : tr.father[n] \in S \cup {d}
      BY <1>1, <1>3, <1>7, <2>1, <3>1 DEF f
    <3>3. S \cup {d} \in SUBSET N
      OBVIOUS
    <3>4. QED
      BY <3>2, <3>3 DEF Shape, Acyclic
  <2>2. CASE c \notin S
    BY <1>7, <2>2 DEF Shape, Acyclic
  <2>3. QED
    BY <2>1, <2>2
<1>10. ASSUME Rooted(tr, N) PROVE Rooted(r, M)
  <2>1. CASE f = Nil
    BY <1>3, <1>7, <2>1 DEF Rooted
  <2>2. CASE f # Nil
    <3> SUFFICES ASSUME tr.root # Nil PROVE tr.root \in M /\ r.father[tr.root] = Nil
      BY <1>7, <2>2 DEF Rooted
    <3>1. tr.root \in N /\ tr.father[tr.root] = Nil
      BY <1>10 DEF Rooted
    <3>2. tr.root # d /\ tr.root # c
      BY <1>1, <1>3, <2>2, <3>1 DEF f
    <3>3. QED
      BY <1>7, <3>1, <3>2
  <2>3. QED
    BY <2>1, <2>2
<1>11. QED
  BY <1>8, <1>9, <1>10

(* The subtree of the child that comes up inherits the bounds of the node that goes. *)
LEMMA SpliceShape ==
  ASSUME NEW tr, NEW N, NEW lo, NEW hi, Shape(tr, N, lo, hi), NEW d \in N,
         NEW o \in Side, tr.child[o][d] = Nil, NEW c, c = tr.child[Other(o)][d],
         NEW r, HasReplaced(tr, d, c, r)
  PROVE  /\ IF o = "left" THEN Shape(r, N \ {d}, Lifted(lo, d), hi)
                          ELSE Shape(r, N \ {d}, lo, Lifted(hi, d))
         /\ Rooted(tr, N) => Rooted(r, N \ {d})
<1> DEFINE f == tr.father[d]
           p == SideOf(tr, d)
           M == N \ {d}
           l == IF o = "left" THEN Lifted(lo, d) ELSE lo
           h == IF o = "left" THEN hi ELSE Lifted(hi, d)
<1>1. /\ Other(o) = (IF o = "left" THEN "right" ELSE "left") /\ Nil \notin N /\ N \subseteq Keys
      /\ Keys \subseteq Int /\ Other(o) \in Side
  BY KeysAssumption DEF Side, Other, Shape
<1>2. f # Nil => /\ f \in N /\ f # d /\ p \in Side /\ tr.child[p][f] = d
                 /\ \A z \in Side : tr.child[z][f] = d => z = p
  BY BelowFather
<1>3. c # Nil => c \in N /\ tr.father[c] = d /\ c # d /\ c # f
  BY <1>1, Neighbours
<1>4. \A n \in N, z \in Side :
         tr.child[z][n] # Nil => tr.child[z][n] \in N /\ tr.father[tr.child[z][n]] = n
  BY DEF Shape, Joined
<1> HIDE DEF f, p
<1>5. /\ \A n \in N : r.father[n] = IF n = c THEN f ELSE tr.father[n]
      /\ \A n \in N, z \in Side :
           r.child[z][n] = IF n = f /\ z = p THEN c ELSE tr.child[z][n]
  BY <1>1 DEF HasReplaced, f, p
<1>6. /\ l \in [Keys -> Ptrs] /\ h \in [Keys -> Ptrs]
      /\ \A n \in Keys : l[n] = IF o = "left" /\ lo[n] = d THEN lo[d] ELSE lo[n]
      /\ \A n \in Keys : h[n] = IF o # "left" /\ hi[n] = d THEN hi[d] ELSE hi[n]
  BY <1>1 DEF Shape, Lifted
<1>7. \A n \in N : /\ n \in Int /\ lo[n] \in Int \cup {Nil} /\ hi[n] \in Int \cup {Nil}
                   /\ lo[n] # Nil => lo[n] < n
                   /\ hi[n] # Nil => n < hi[n]
                   /\ tr.father[n] = Nil => lo[n] = Nil /\ hi[n] = Nil
                   /\ tr.child["left"][n] # Nil =>
                        lo[tr.child["left"][n]] = lo[n] /\ hi[tr.child["left"][n]] = n
                   /\ tr.child["right"][n] # Nil =>
                        lo[tr.child["right"][n]] = n /\ hi[tr.child["right"][n]] = hi[n]
  BY <1>1 DEF Shape, Bounded, Between, Ptrs
<1>8. c # Nil => IF o = "left" THEN lo[c] = d /\ hi[c] = hi[d] ELSE lo[c] = lo[d] /\ hi[c] = d
  BY <1>1, <1>7
<1>9. f # Nil => IF p = "left" THEN lo[d] = lo[f] /\ hi[d] = f ELSE lo[d] = f /\ hi[d] = hi[f]
  <2> SUFFICES ASSUME f # Nil PROVE IF p = "left" THEN lo[d] = lo[f] /\ hi[d] = f
                                                  ELSE lo[d] = f /\ hi[d] = hi[f]
    OBVIOUS
  <2>1. f \in N /\ tr.child[p][f] = d /\ d # Nil /\ p \in {"left", "right"}
    BY <1>1, <1>2 DEF Side
  <2>2. CASE p = "left"
    BY <1>7, <2>1, <2>2
  <2>3. CASE p = "right"
    BY <1>7, <2>1, <2>3
  <2>4. QED
    BY <2>1, <2>2, <2>3
<1> HIDE DEF l, h
<1>10. ASSUME NEW n \in M PROVE Between(n, l[n], h[n])
  BY <1>1, <1>6, <1>7 DEF Between
<1>11. ASSUME NEW n \in M, r.father[n] = Nil PROVE l[n] = Nil /\ h[n] = Nil
  <2>1. CASE n = c
    <3>1. f = Nil /\ lo[d] = Nil /\ hi[d] = Nil
      BY <1>5, <1>7, <1>11, <2>1 DEF f
    <3>2. QED
      BY <1>1, <1>6, <1>8, <2>1, <3>1
  <2>2. CASE n # c
    BY <1>1, <1>5, <1>6, <1>7, <1>11, <2>2
  <2>3. QED
    BY <2>1, <2>2
<1>12. ASSUME NEW n \in M, NEW z \in Side, r.child[z][n] # Nil
       PROVE  /\ z = "left" => l[r.child[z][n]] = l[n] /\ h[r.child[z][n]] = n
              /\ z = "right" => l[r.child[z][n]] = n /\ h[r.child[z][n]] = h[n]
  <2>1. CASE n = f /\ z = p
    <3>1. r.child[z][n] = c /\ c # Nil /\ c \in N /\ f # Nil /\ f \in N /\ f # d /\ f \in Keys /\ c \in Keys
      BY <1>1, <1>2, <1>3, <1>5, <1>12, <2>1
    <3>2. lo[d] # d /\ hi[d] # d /\ lo[d] # Nil => lo[d] \in Int
      BY <1>1, <1>7
    <3>3. l[c] = lo[d] /\ h[c] = hi[d]
      BY <1>1, <1>6, <1>7, <1>8, <3>1
    <3>4. /\ p = "left" => l[f] = lo[f]
          /\ p = "right" => h[f] = hi[f]
      BY <1>1, <1>6, <1>7, <1>9, <3>1
    <3>5. QED
      BY <1>9, <2>1, <3>1, <3>3, <3>4
  <2>2. CASE ~ (n = f /\ z = p)
    <3> DEFINE k == tr.child[z][n]
    <3>1. r.child[z][n] = k /\ k # Nil /\ k \in N /\ k \in Keys /\ n \in Keys
      BY <1>1, <1>4, <1>5, <1>12, <2>2
    <3>2. QED
      BY <1>6, <1>7, <3>1
  <2>3. QED
    BY <2>1, <2>2
<1>13. Bounded(r, M, l, h)
  BY <1>10, <1>11, <1>12 DEF Bounded, Side
<1>14. Shape(r, M, l, h)
  <2>1. Joined(r, M) /\ Acyclic(r, M)
    BY SpliceJoined
  <2>2. QED
    BY <1>1, <1>6, <1>13, <2>1 DEF Shape, HasReplaced
<1>15. Rooted(tr, N) => Rooted(r, M)
  BY SpliceJoined
<1>16. QED
  BY <1>14, <1>15 DEF l, h

(* What goes with the node taken out: one black if it was black, and if it was
   red no red loses its black father. *)
LEMMA SpliceColours ==
  ASSUME NEW tr, NEW N, NEW lo, NEW hi, Shape(tr, N, lo, hi), Rooted(tr, N), NEW d \in N,
         NEW o \in Side, tr.child[o][d] = Nil, NEW c, c = tr.child[Other(o)][d],
         NEW r, HasReplaced(tr, d, c, r),
         Colours(tr, N, {}, Nil), NEW bh, Heights(tr, N, bh, Nil, "left")
  PROVE  /\ tr.red[d] => /\ Colours(r, N \ {d}, {}, Nil)
                         /\ Heights(r, N \ {d}, bh, Nil, "left")
         /\ ~ tr.red[d] => /\ Colours(r, N \ {d}, {c}, c)
                           /\ Heights(r, N \ {d}, bh, tr.father[d], SideOf(tr, d))
<1> DEFINE f == tr.father[d]
           p == SideOf(tr, d)
           M == N \ {d}
<1>1. /\ Other(o) \in Side /\ Nil \notin N /\ N \subseteq Keys /\ r.red = tr.red
      /\ \A z \in Side : z = o \/ z = Other(o)
  BY KeysAssumption DEF Side, Other, Shape, HasReplaced
<1>2. f # Nil => /\ f \in N /\ f # d /\ p \in Side /\ tr.child[p][f] = d
                 /\ \A z \in Side : tr.child[z][f] = d => z = p
  BY BelowFather
<1>3. c # Nil => c \in N /\ tr.father[c] = d /\ c # d /\ c # f
  BY <1>1, Neighbours
<1>4. \A n \in N, z \in Side :
         tr.child[z][n] # Nil => tr.child[z][n] \in N /\ tr.father[tr.child[z][n]] = n
  BY DEF Shape, Joined
<1>5. \A n \in N : tr.father[n] \in N \cup {Nil}
  BY DEF Shape, Joined
<1>6. /\ \A n \in N : r.father[n] = IF n = c THEN f ELSE tr.father[n]
      /\ \A n \in N, z \in Side :
           r.child[z][n] = IF n = f /\ z = p THEN c ELSE tr.child[z][n]
      /\ r.root = IF f = Nil THEN c ELSE tr.root
  BY <1>1 DEF HasReplaced
<1>7. \A k \in N : tr.red[k] => ~ Red(tr, tr.father[k])
  BY DEF Colours
<1> HIDE DEF f, p
<1>8. \A k \in M \ {c} : r.red[k] => ~ Red(r, r.father[k])
  BY <1>1, <1>6, <1>7 DEF Red
<1>9. Red(r, r.root) => r.root = c /\ ~ tr.red[d]
  <2> SUFFICES ASSUME Red(r, r.root) PROVE r.root = c /\ ~ tr.red[d]
    OBVIOUS
  <2>1. ~ Red(tr, tr.root)
    BY DEF Colours, Red
  <2>2. r.root # tr.root \/ f = Nil
    BY <1>1, <2>1 DEF Red
  <2>3. f = Nil /\ r.root = c
    BY <1>6, <2>2
  <2>4. d = tr.root /\ d # Nil
    BY <1>1, <2>3, BelowFather DEF f
  <2>5. QED
    BY <2>1, <2>3, <2>4 DEF Red
<1>10. Colours(r, M, {c}, c)
  BY <1>8, <1>9 DEF Colours
<1>11. ASSUME tr.red[d] PROVE Colours(r, M, {}, Nil)
  <2>1. c # Nil => ~ tr.red[c]
    BY <1>1, <1>3, <1>7, <1>11 DEF Red
  <2>2. \A k \in M : r.red[k] => ~ Red(r, r.father[k])
    BY <1>1, <1>8, <2>1
  <2>3. QED
    BY <1>9, <1>11, <2>2 DEF Colours
<1>12. bh \in [Keys -> Nat] /\ \A n \in N : bh[n] \in Nat
  BY <1>1 DEF Heights
<1>13. \A n \in N, z \in Side : bh[n] = Hgt(tr, bh, tr.child[z][n])
  <2>1. \A n \in N, z \in Side : bh[n] = Hgt(tr, bh, tr.child[z][n]) + 0
    BY <1>1 DEF Heights
  <2>2. \A n \in N, z \in Side : Hgt(tr, bh, tr.child[z][n]) \in Nat
    BY <1>4, <1>12 DEF Hgt
  <2>3. QED
    BY <2>1, <2>2
<1>14. \A k \in N \cup {Nil} : Hgt(r, bh, k) = Hgt(tr, bh, k) /\ Hgt(tr, bh, k) \in Nat
  BY <1>1, <1>12 DEF Hgt
<1>15. Hgt(tr, bh, c) = 0 /\ Hgt(tr, bh, d) = (IF tr.red[d] THEN 0 ELSE 1)
  <2>1. bh[d] = 0
    BY <1>13 DEF Hgt
  <2>2. QED
    BY <1>1, <1>13, <2>1 DEF Hgt
<1>16. ASSUME NEW n \in M, NEW z \in Side
       PROVE  bh[n] = Hgt(r, bh, r.child[z][n]) + (IF n = f /\ z = p /\ ~ tr.red[d] THEN 1 ELSE 0)
  <2>1. CASE n = f /\ z = p
    <3>1. r.child[z][n] = c /\ tr.child[z][n] = d /\ c \in N \cup {Nil}
      BY <1>1, <1>2, <1>3, <1>6, <2>1
    <3>2. bh[n] = Hgt(tr, bh, d) /\ Hgt(r, bh, c) = 0
      BY <1>13, <1>14, <1>15, <3>1
    <3>3. QED
      BY <1>15, <2>1, <3>1, <3>2
  <2>2. CASE ~ (n = f /\ z = p)
    <3>1. r.child[z][n] = tr.child[z][n] /\ tr.child[z][n] \in N \cup {Nil}
      BY <1>4, <1>6, <2>2
    <3>2. bh[n] = Hgt(r, bh, r.child[z][n]) /\ bh[n] \in Nat
      BY <1>12, <1>13, <1>14, <3>1
    <3>3. QED
      BY <2>2, <3>2
  <2>3. QED
    BY <2>1, <2>2
<1>17. ASSUME tr.red[d] PROVE Heights(r, M, bh, Nil, "left")
  <2>1. \A n \in M, z \in Side : bh[n] = Hgt(r, bh, r.child[z][n]) + (IF n = Nil /\ z = "left" THEN 1 ELSE 0)
    BY <1>1, <1>16, <1>17
  <2>2. QED
    BY <1>12, <2>1 DEF Heights
<1>18. ASSUME ~ tr.red[d] PROVE Heights(r, M, bh, f, p)
  <2>1. \A n \in M, z \in Side : bh[n] = Hgt(r, bh, r.child[z][n]) + (IF n = f /\ z = p THEN 1 ELSE 0)
    BY <1>16, <1>18
  <2>2. QED
    BY <1>12, <2>1 DEF Heights
<1>19. QED
  BY <1>10, <1>11, <1>17, <1>18 DEF f, p

-----------------------------------------------------------------------------
\* Putting a node in the place of another.

Renamed(d, y, k) == IF k = d THEN y ELSE k

\* r is tr with y for the node d of M.
IsRenamed(tr, M, d, y, r) ==
  /\ r \in Trees /\ r.root = Renamed(d, y, tr.root)
  /\ r.father[y] = tr.father[d] /\ \A z \in Side : r.child[z][y] = tr.child[z][d]
  /\ \A n \in M \ {d} : r.father[n] = Renamed(d, y, tr.father[n])
  /\ \A n \in M \ {d}, z \in Side : r.child[z][n] = Renamed(d, y, tr.child[z][n])

(* A key that is between the same nodes as d can take the place of d. *)
LEMMA RenamedShape ==
  ASSUME NEW tr, NEW M, NEW lo, NEW hi, Shape(tr, M, lo, hi), Rooted(tr, M), NEW d \in M,
         NEW y \in Keys \ M, Between(y, lo[d], hi[d]),
         \A n \in M \ {d} : (n < d => n < y) /\ (d < n => y < n),
         NEW r, IsRenamed(tr, M, d, y, r)
  PROVE  /\ \E l, h : Shape(r, (M \ {d}) \cup {y}, l, h)
         /\ Rooted(r, (M \ {d}) \cup {y})
<1> DEFINE W == (M \ {d}) \cup {y}
           Ren(k) == Renamed(d, y, k)
<1>1. Nil \notin M /\ M \subseteq Keys /\ y # Nil /\ d # Nil /\ y # d /\ Keys \subseteq Int
  BY KeysAssumption DEF Shape
<1>2. \A n \in M, z \in Side :
         tr.child[z][n] # Nil => /\ tr.child[z][n] \in M /\ tr.father[tr.child[z][n]] = n
                                 /\ tr.child[z][n] # n
  BY Neighbours
<1>3. \A n \in M : /\ tr.father[n] # n
                   /\ IF tr.father[n] = Nil THEN n = tr.root
                      ELSE tr.father[n] \in M /\ \E z \in Side : tr.child[z][tr.father[n]] = n
  BY Neighbours DEF Shape, Joined
<1>4. /\ r.root = Ren(tr.root)
      /\ r.father[y] = tr.father[d] /\ \A z \in Side : r.child[z][y] = tr.child[z][d]
      /\ \A n \in M \ {d} : r.father[n] = Ren(tr.father[n])
      /\ \A n \in M \ {d}, z \in Side : r.child[z][n] = Ren(tr.child[z][n])
  BY DEF IsRenamed
<1>5. /\ Ren(d) = y /\ \A k : k # d => Ren(k) = k
      /\ \A k \in M : Ren(k) \in W /\ Ren(k) # Nil
  BY <1>1 DEF Renamed
<1> HIDE DEF Ren
<1>6. \A n \in W : \E k \in M : n = Ren(k)
  BY <1>5
<1>7. \A k \in M : /\ r.father[Ren(k)] = Ren(tr.father[k])
                   /\ \A z \in Side : r.child[z][Ren(k)] = Ren(tr.child[z][k])
  BY <1>2, <1>3, <1>4, <1>5, <1>1
<1>8. Joined(r, W)
  <2>1. ASSUME NEW k \in M, NEW z \in Side, r.child[z][Ren(k)] # Nil
        PROVE  r.child[z][Ren(k)] \in W /\ r.father[r.child[z][Ren(k)]] = Ren(k)
    <3>1. tr.child[z][k] # Nil
      BY <1>1, <1>5, <1>7, <2>1
    <3>2. tr.child[z][k] \in M /\ tr.father[tr.child[z][k]] = k
      BY <1>2, <3>1
    <3>3. QED
      BY <1>5, <1>7, <3>2
  <2>2. ASSUME NEW k \in M
        PROVE  IF r.father[Ren(k)] = Nil THEN Ren(k) = r.root
               ELSE /\ r.father[Ren(k)] \in W
                    /\ \E z \in Side : r.child[z][r.father[Ren(k)]] = Ren(k)
    <3>1. CASE tr.father[k] = Nil
      BY <1>1, <1>3, <1>4, <1>5, <1>7, <3>1
    <3>2. CASE tr.father[k] # Nil
      <4>1. PICK z \in Side : tr.father[k] \in M /\ tr.child[z][tr.father[k]] = k
        BY <1>3, <3>2
      <4>2. r.child[z][r.father[Ren(k)]] = Ren(k) /\ r.father[Ren(k)] \in W /\ r.father[Ren(k)] # Nil
        BY <1>5, <1>7, <4>1
      <4>3. QED
        BY <4>2
    <3>3. QED
      BY <3>1, <3>2
  <2>3. QED
    BY <1>6, <2>1, <2>2 DEF Joined
<1>9. Acyclic(r, W)
  <2> SUFFICES ASSUME NEW S \in SUBSET W, S # {}, \A n \in S : r.father[n] \in S PROVE FALSE
    BY DEF Acyclic
  <2> DEFINE T == {k \in M : Ren(k) \in S}
  <2>1. T \in SUBSET M /\ T # {}
    BY <1>6
  <2>2. ASSUME NEW k \in T PROVE tr.father[k] \in T
    <3>1. Ren(tr.father[k]) \in S
      BY <1>7
    <3>2. tr.father[k] # Nil
      BY <1>1, <1>5, <3>1
    <3>3. QED
      BY <1>3, <3>1, <3>2
  <2>3. QED
    BY <2>1, <2>2 DEF Shape, Acyclic
<1> DEFINE l == [n \in Keys |-> IF n = y THEN lo[d] ELSE Ren(lo[n])]
           h == [n \in Keys |-> IF n = y THEN hi[d] ELSE Ren(hi[n])]
<1>10. l \in [Keys -> Ptrs] /\ h \in [Keys -> Ptrs]
  BY <1>1 DEF Shape, Ptrs, Ren, Renamed
<1>11. \A n \in M : /\ n \in Int /\ lo[n] \in Int \cup {Nil} /\ hi[n] \in Int \cup {Nil}
                    /\ lo[n] # Nil => lo[n] < n
                    /\ hi[n] # Nil => n < hi[n]
                    /\ tr.father[n] = Nil => lo[n] = Nil /\ hi[n] = Nil
                    /\ tr.child["left"][n] # Nil =>
                         lo[tr.child["left"][n]] = lo[n] /\ hi[tr.child["left"][n]] = n
                    /\ tr.child["right"][n] # Nil =>
                         lo[tr.child["right"][n]] = n /\ hi[tr.child["right"][n]] = hi[n]
  BY <1>1 DEF Shape, Bounded, Between, Ptrs
<1>12. lo[d] # d /\ hi[d] # d
  BY <1>1, <1>11
<1>13. \A k \in M : l[Ren(k)] = Ren(lo[k]) /\ h[Ren(k)] = Ren(hi[k])
  BY <1>1, <1>5, <1>12
<1> HIDE DEF l, h
<1>14. Bounded(r, W, l, h)
  <2>1. ASSUME NEW k \in M PROVE Between(Ren(k), Ren(lo[k]), Ren(hi[k]))
    <3>1. CASE k = d
      BY <1>5, <1>12, <3>1
    <3>2. CASE k # d
      BY <1>1, <1>5, <1>11, <3>2 DEF Between
    <3>3. QED
      BY <3>1, <3>2
  <2>2. \A k \in M : r.father[Ren(k)] = Nil => Ren(lo[k]) = Nil /\ Ren(hi[k]) = Nil
    BY <1>1, <1>5, <1>7, <1>11
  <2>3. ASSUME NEW k \in M, NEW z \in Side, r.child[z][Ren(k)] # Nil
        PROVE  /\ z = "left" => /\ l[r.child[z][Ren(k)]] = l[Ren(k)]
                                /\ h[r.child[z][Ren(k)]] = Ren(k)
               /\ z = "right" => /\ l[r.child[z][Ren(k)]] = Ren(k)
                                 /\ h[r.child[z][Ren(k)]] = h[Ren(k)]
    <3> DEFINE m == tr.child[z][k]
    <3>1. m # Nil /\ m \in M /\ r.child[z][Ren(k)] = Ren(m)
      BY <1>1, <1>2, <1>5, <1>7, <2>3
    <3>2. /\ z = "left" => lo[m] = lo[k] /\ hi[m] = k
          /\ z = "right" => lo[m] = k /\ hi[m] = hi[k]
      BY <1>11, <3>1
    <3> HIDE DEF m
    <3>3. QED
      BY <1>13, <3>1, <3>2
  <2>4. QED
    BY <1>6, <1>13, <2>1, <2>2, <2>3 DEF Bounded, Side
<1>15. Shape(r, W, l, h)
  BY <1>1, <1>8, <1>9, <1>10, <1>14 DEF Shape, IsRenamed
<1>16. Rooted(r, W)
  BY <1>1, <1>4, <1>5, <1>7 DEF Rooted
<1>17. QED
  BY <1>15, <1>16

(* It does so with the colour of d, and nothing else changes. *)
LEMMA RenamedColours ==
  ASSUME NEW tr, NEW M, NEW lo, NEW hi, Shape(tr, M, lo, hi), Rooted(tr, M), NEW d \in M,
         NEW y \in Keys \ M, NEW r, IsRenamed(tr, M, d, y, r),
         r.red[y] <=> tr.red[d], \A n \in M \ {d} : r.red[n] <=> tr.red[n],
         NEW V, d \notin V, NEW c, c # d, Colours(tr, M, V, c),
         NEW bh, NEW u \in M \cup {Nil}, NEW q, Heights(tr, M, bh, u, q)
  PROVE  /\ Colours(r, (M \ {d}) \cup {y}, V, c)
         /\ \E h : Heights(r, (M \ {d}) \cup {y}, h, Renamed(d, y, u), q)
<1> DEFINE W == (M \ {d}) \cup {y}
           Ren(k) == Renamed(d, y, k)
<1>1. Nil \notin M /\ M \subseteq Keys /\ y # Nil /\ d # Nil /\ y # d
  BY KeysAssumption DEF Shape
<1>2. \A n \in M, z \in Side : tr.child[z][n] \in M \cup {Nil} /\ tr.child[z][n] # n
  BY <1>1, Neighbours
<1>3. \A n \in M : tr.father[n] # n /\ tr.father[n] \in M \cup {Nil}
  BY Neighbours DEF Shape, Joined
<1>4. /\ r.root = Ren(tr.root)
      /\ r.father[y] = tr.father[d] /\ \A z \in Side : r.child[z][y] = tr.child[z][d]
      /\ \A n \in M \ {d} : r.father[n] = Ren(tr.father[n])
      /\ \A n \in M \ {d}, z \in Side : r.child[z][n] = Ren(tr.child[z][n])
  BY DEF IsRenamed
<1>5. /\ Ren(d) = y /\ \A k : k # d => Ren(k) = k
      /\ \A k \in M : Ren(k) \in W /\ Ren(k) # Nil
  BY <1>1 DEF Renamed
<1> HIDE DEF Ren
<1>6. \A n \in W : \E k \in M : n = Ren(k)
  BY <1>5
<1>7. \A k \in M : /\ r.father[Ren(k)] = Ren(tr.father[k])
                   /\ \A z \in Side : r.child[z][Ren(k)] = Ren(tr.child[z][k])
  BY <1>1, <1>2, <1>3, <1>4, <1>5
<1>8. \A k \in M : r.red[Ren(k)] <=> tr.red[k]
  BY <1>5
<1>9. \A k \in M \cup {Nil} : Red(r, Ren(k)) <=> Red(tr, k)
  BY <1>1, <1>5, <1>8 DEF Red
<1>10. Colours(r, W, V, c)
  <2>1. ASSUME NEW k \in M, r.red[Ren(k)], Red(r, r.father[Ren(k)]) PROVE Ren(k) \in V
    <3>1. tr.red[k] /\ Red(tr, tr.father[k])
      BY <1>3, <1>7, <1>8, <1>9, <2>1
    <3>2. k \in V
      BY <3>1 DEF Colours
    <3>3. QED
      BY <1>5, <3>2
  <2>2. ASSUME Red(r, r.root) PROVE r.root = c
    <3>1. tr.root \in M \cup {Nil}
      BY DEF Rooted
    <3>2. Red(tr, tr.root)
      BY <1>4, <1>9, <2>2, <3>1
    <3>3. tr.root = c
      BY <3>2 DEF Colours
    <3>4. QED
      BY <1>4, <1>5, <3>3
  <2>3. QED
    BY <1>6, <2>1, <2>2 DEF Colours
<1> DEFINE h == [bh EXCEPT ![y] = bh[d]]
<1>11. bh \in [Keys -> Nat] /\ \A n \in M : bh[n] \in Nat
  BY <1>1 DEF Heights
<1>12. h \in [Keys -> Nat] /\ \A k \in M : h[Ren(k)] = bh[k]
  BY <1>1, <1>5, <1>11
<1> HIDE DEF h
<1>13. \A k \in M \cup {Nil} : Hgt(r, h, Ren(k)) = Hgt(tr, bh, k)
  BY <1>1, <1>5, <1>8, <1>12 DEF Hgt
<1>14. \A k \in M, z \in Side :
         bh[k] = Hgt(tr, bh, tr.child[z][k]) + (IF k = u /\ z = q THEN 1 ELSE 0)
  BY DEF Heights
<1>15. ASSUME NEW k \in M, NEW z \in Side
       PROVE  h[Ren(k)] = Hgt(r, h, r.child[z][Ren(k)]) + (IF Ren(k) = Ren(u) /\ z = q THEN 1 ELSE 0)
  <2>1. Hgt(r, h, r.child[z][Ren(k)]) = Hgt(tr, bh, tr.child[z][k])
    BY <1>2, <1>7, <1>13
  <2>2. Ren(k) = Ren(u) <=> k = u
    BY <1>1, <1>5
  <2>3. QED
    BY <1>12, <1>14, <2>1, <2>2
<1>16. Heights(r, W, h, Ren(u), q)
  BY <1>6, <1>12, <1>15 DEF Heights
<1>17. QED
  BY <1>10, <1>16 DEF Ren

-----------------------------------------------------------------------------
\* The successor, and the deletion of a node with two children.

(* A walk of as many steps as T has elements is in no place of T only once. *)
LEMMA WalkRepeats ==
  ASSUME NEW T, IsFiniteSet(T), NEW f \in [0 .. Cardinality(T) -> T]
  PROVE  \E i, j \in 0 .. Cardinality(T) : i < j /\ f[i] = f[j]
<1>1. Cardinality(T) \in Nat
  BY FS_CardinalityType
<1>2. /\ IsFiniteSet(0 .. Cardinality(T))
      /\ Cardinality(0 .. Cardinality(T)) = Cardinality(T) + 1
  BY <1>1, FS_Interval
<1>3. Cardinality(T) < Cardinality(0 .. Cardinality(T))
  BY <1>1, <1>2
<1>4. PICK i, j \in 0 .. Cardinality(T) : i # j /\ f[i] = f[j]
  BY <1>2, <1>3, FS_PigeonHole
<1>5. QED
  BY <1>1, <1>4

\* What is true of every node that Minimum visits below the right child e of d.
Visited(tr, N, lo, hi, d, e, k) ==
  /\ k \in N /\ lo[k] = d /\ Between(k, lo[d], hi[d])
  /\ IF k = e THEN tr.father[k] = d
     ELSE /\ tr.father[k] # d /\ tr.father[k] \in N
          /\ tr.child["left"][tr.father[k]] = k

(* The search for the successor starts at the right child. *)
LEMMA VisitedFirst ==
  ASSUME NEW tr, NEW N, NEW lo, NEW hi, Shape(tr, N, lo, hi), NEW d \in N,
         NEW e, e = tr.child["right"][d], e # Nil
  PROVE  Visited(tr, N, lo, hi, d, e, e)
<1>1. e \in N /\ tr.father[e] = d
  BY DEF Shape, Joined, Side
<1>2. lo[e] = d /\ hi[e] = hi[d] /\ Between(e, lo[e], hi[e]) /\ Between(d, lo[d], hi[d])
  BY <1>1 DEF Shape, Bounded
<1>3. /\ e \in Int /\ d \in Int /\ d # Nil /\ lo[d] \in Int \cup {Nil} /\ hi[d] \in Int \cup {Nil}
  BY <1>1, KeysAssumption DEF Shape, Ptrs
<1>4. Between(e, lo[d], hi[d])
  BY <1>2, <1>3 DEF Between
<1>5. QED
  BY <1>1, <1>2, <1>4 DEF Visited

(* A left child is the next candidate, and is smaller. *)
LEMMA VisitedNext ==
  ASSUME NEW tr, NEW N, NEW lo, NEW hi, Shape(tr, N, lo, hi), NEW d \in N,
         NEW e, e = tr.child["right"][d], NEW k, Visited(tr, N, lo, hi, d, e, k),
         NEW m, m = tr.child["left"][k], m # Nil
  PROVE  Visited(tr, N, lo, hi, d, e, m) /\ m < k
<1>1. k \in N /\ lo[k] = d /\ Between(k, lo[d], hi[d])
  BY DEF Visited
<1>2. m \in N /\ tr.father[m] = k /\ m # k
  BY <1>1, Neighbours DEF Side
<1>3. lo[m] = d /\ hi[m] = k /\ Between(m, lo[m], hi[m]) /\ Between(d, lo[d], hi[d]) /\ Between(k, lo[k], hi[k])
  BY <1>1, <1>2 DEF Shape, Bounded
<1>4. /\ m \in Int /\ d \in Int /\ k \in Int /\ d # Nil /\ k # Nil
      /\ lo[d] \in Int \cup {Nil} /\ hi[d] \in Int \cup {Nil}
  BY <1>1, <1>2, KeysAssumption DEF Shape, Ptrs
<1>5. d < m /\ m < k
  BY <1>3, <1>4 DEF Between
<1>6. Between(m, lo[d], hi[d])
  BY <1>1, <1>3, <1>4, <1>5 DEF Between
<1>7. k # d
  BY <1>4, <1>5
<1>8. m # e
  <2>1. e # Nil => tr.father[e] = d
    BY DEF Shape, Joined, Side
  <2>2. QED
    BY <1>2, <1>7, <2>1
<1>9. QED
  BY <1>1, <1>2, <1>3, <1>5, <1>6, <1>7, <1>8 DEF Visited

(* The least node below the right child of d. *)
LEMMA MinimumFacts ==
  ASSUME NEW tr, NEW N, NEW lo, NEW hi, Shape(tr, N, lo, hi), NEW d \in N,
         NEW e, e = tr.child["right"][d], e # Nil
  PROVE  /\ Visited(tr, N, lo, hi, d, e, Minimum(tr, e))
         /\ tr.child["left"][Minimum(tr, e)] = Nil
<1> DEFINE next == [k \in Keys |-> IF tr.child["left"][k] = Nil THEN k ELSE tr.child["left"][k]]
           C == Cardinality(Keys)
           at == Steps(next, e, C)
<1>1. C \in Nat /\ IsFiniteSet(Keys)
  BY FS_CardinalityType, KeysAssumption
<1>2. N \subseteq Keys /\ e \in Keys /\ Nil \notin Keys /\ Keys \subseteq Int
  BY KeysAssumption DEF Shape, Joined, Side
<1>3. next \in [Keys -> Keys] /\ \A k \in Keys : next[k] = IF tr.child["left"][k] = Nil THEN k ELSE tr.child["left"][k]
  <2>1. \A k \in Keys : tr.child["left"][k] \in Keys \cup {Nil}
    BY TreeTypes DEF Shape, Side, Ptrs
  <2>2. QED
    BY <2>1
<1> HIDE DEF next
<1>4. Minimum(tr, e) = at[C]
  BY DEF Minimum, next
<1>5. Walks(at, next, e, C, Keys)
  BY <1>1, <1>2, <1>3, StepsFacts
<1> HIDE DEF C, at
<1>6. /\ at \in [0 .. C -> Keys] /\ at[0] = e
      /\ \A i \in 0 .. C - 1 : at[i + 1] = next[at[i]]
  <2>1. ASSUME NEW i \in 0 .. C - 1 PROVE at[i + 1] = next[at[i]]
    <3>1. i + 1 \in 1 .. C /\ (i + 1) - 1 = i
      BY <1>1
    <3>2. QED
      BY <1>5, <3>1 DEF Walks
  <2>2. QED
    BY <1>5, <2>1 DEF Walks
<1> DEFINE S == {i \in 0 .. C : Visited(tr, N, lo, hi, d, e, at[i])}
<1>7. \A i \in 0 .. C : Visited(tr, N, lo, hi, d, e, at[i])
  <2>1. 0 \in S
    BY <1>1, <1>6, VisitedFirst
  <2>2. ASSUME NEW i \in 0 .. C - 1, i \in S PROVE i + 1 \in S
    <3>1. i + 1 \in 0 .. C
      BY <1>1
    <3>2. Visited(tr, N, lo, hi, d, e, at[i]) /\ at[i] \in Keys
      BY <1>6, <2>2
    <3>3. Visited(tr, N, lo, hi, d, e, next[at[i]])
      BY <1>3, <3>2, VisitedNext
    <3>4. QED
      BY <1>6, <3>1, <3>3
  <2> HIDE DEF S
  <2>3. \A i \in 0 .. C : i \in S
    BY <1>1, <2>1, <2>2, Induction
  <2>4. QED
    BY <2>3 DEF S
<1>8. ASSUME tr.child["left"][at[C]] # Nil PROVE FALSE
  <2> DEFINE D == {i \in 0 .. C : tr.child["left"][at[C - i]] # Nil}
  <2>1. \A i \in 0 .. C : i \in D
    <3>1. 0 \in D
      BY <1>1, <1>8
    <3>2. ASSUME NEW i \in 0 .. C - 1, i \in D PROVE i + 1 \in D
      <4>1. i + 1 \in 0 .. C /\ C - (i + 1) \in 0 .. C - 1 /\ (C - (i + 1)) + 1 = C - i
        BY <1>1
      <4>2. at[C - i] = next[at[C - (i + 1)]] /\ at[C - (i + 1)] \in Keys
        BY <1>1, <1>6, <4>1
      <4>3. tr.child["left"][at[C - i]] # Nil
        BY <3>2
      <4>4. tr.child["left"][at[C - (i + 1)]] # Nil
        BY <1>3, <4>2, <4>3
      <4>5. QED
        BY <4>1, <4>4
    <3> HIDE DEF D
    <3>3. QED
      BY <1>1, <3>1, <3>2, Induction
  <2>2. \A i \in 0 .. C - 1 : at[i + 1] < at[i]
    <3> SUFFICES ASSUME NEW i \in 0 .. C - 1 PROVE at[i + 1] < at[i]
      OBVIOUS
    <3>1. i \in 0 .. C /\ C - i \in 0 .. C /\ C - (C - i) = i
      BY <1>1
    <3>2. C - i \in D
      BY <2>1, <3>1
    <3>3. tr.child["left"][at[i]] # Nil
      BY <3>1, <3>2
    <3>4. at[i + 1] = tr.child["left"][at[i]]
      BY <1>3, <1>6, <3>1, <3>3
    <3>5. QED
      BY <1>7, <3>1, <3>3, <3>4, VisitedNext
  <2> HIDE DEF D
  <2> DEFINE E == {j \in 0 .. C : \A i \in 0 .. C : i < j => at[j] < at[i]}
  <2>3. \A j \in 0 .. C : j \in E
    <3>1. 0 \in E
      BY <1>1
    <3>2. ASSUME NEW j \in 0 .. C - 1, j \in E PROVE j + 1 \in E
      <4>1. j + 1 \in 0 .. C /\ j \in 0 .. C
        BY <1>1
      <4>2. ASSUME NEW i \in 0 .. C, i < j + 1 PROVE at[j + 1] < at[i]
        <5>1. at[j + 1] < at[j] /\ at[j] \in Int /\ at[i] \in Int /\ at[j + 1] \in Int
          BY <1>2, <1>6, <2>2, <4>1
        <5>2. i = j \/ at[j] < at[i]
          BY <1>1, <3>2, <4>2
        <5>3. QED
          BY <5>1, <5>2
      <4>3. QED
        BY <4>1, <4>2
    <3> HIDE DEF E
    <3>3. QED
      BY <1>1, <3>1, <3>2, Induction
  <2>4. PICK i, j \in 0 .. C : i < j /\ at[i] = at[j]
    BY <1>1, <1>6, WalkRepeats DEF C
  <2>5. at[j] < at[i] /\ at[i] \in Int
    BY <1>2, <1>6, <2>3, <2>4
  <2>6. QED
    BY <2>4, <2>5
<1>9. C \in 0 .. C
  BY <1>1
<1>10. QED
  BY <1>4, <1>7, <1>8, <1>9

\* Which of the nodes that the deletion of d relinks are different.
LEMMA SuccessorApart ==
  ASSUME NEW tr, NEW N, NEW lo, NEW hi, Shape(tr, N, lo, hi), NEW d \in N,
         NEW e, tr.child["right"][d] = e, e # Nil,
         NEW a, tr.child["left"][d] = a, a # Nil,
         NEW y, Visited(tr, N, lo, hi, d, e, y), tr.child["left"][y] = Nil,
         NEW x, tr.child["right"][y] = x, NEW f, tr.father[d] = f
  PROVE  /\ Nil \notin N /\ y \in N /\ e \in N /\ a \in N
         /\ a \notin {d, y, e} /\ y # d /\ e # d /\ d < y
         /\ tr.father[a] = d /\ tr.father[e] = d
         /\ f \notin {d, y, e, a}
         /\ x # Nil => x \in N /\ x \notin {d, y, e, a} /\ tr.father[x] = y
         /\ \A n \in N : tr.father[n] = d => n \in {a, e}
         /\ \A n \in N : tr.father[n] = y => n = x
<1>1. Nil \notin N /\ N \subseteq Keys /\ Keys \subseteq Int
  BY KeysAssumption DEF Shape
<1>2. y \in N /\ lo[y] = d
  BY DEF Visited
<1>3. d < y
  BY <1>1, <1>2 DEF Shape, Bounded, Between
<1>4. /\ e \in N /\ tr.father[e] = d /\ e # d /\ e # f
      /\ a \in N /\ tr.father[a] = d /\ a # d /\ a # f /\ a # e /\ f # d
      /\ a < d
  <2>1. /\ e \in N /\ tr.father[e] = d /\ e # d /\ e # f /\ f # d
    BY Neighbours DEF Side
  <2>2. /\ a \in N /\ tr.father[a] = d /\ a # d /\ a # f /\ "left" = SideFor(a, d)
    BY Neighbours DEF Side
  <2>3. a < d
    BY <2>2 DEF SideFor
  <2>4. a # e
    <3>1. "right" = SideFor(e, d)
      BY Neighbours DEF Side
    <3>2. QED
      BY <2>2, <3>1
  <2>5. QED
    BY <2>1, <2>2, <2>3, <2>4
<1>5. a # y
  BY <1>1, <1>2, <1>3, <1>4
<1>6. x # Nil => x \in N /\ x # y /\ tr.father[x] = y /\ "right" = SideFor(x, y)
  BY <1>2, Neighbours DEF Side
<1>7. f # y
  <2> SUFFICES ASSUME f = y PROVE FALSE
    OBVIOUS
  <2>1. PICK z \in Side : tr.child[z][y] = d
    BY <1>1, <1>2 DEF Shape, Joined
  <2>2. d = x /\ d # Nil
    BY <1>1, <2>1 DEF Side
  <2>3. QED
    BY <1>3, <1>6, <2>2 DEF SideFor
<1>8. \A n \in N : tr.father[n] = d => n \in {a, e}
  BY <1>1 DEF Shape, Joined, Side
<1>9. \A n \in N : tr.father[n] = y => n = x
  <2> SUFFICES ASSUME NEW n \in N, tr.father[n] = y PROVE n = x
    OBVIOUS
  <2>1. PICK z \in Side : tr.child[z][y] = n
    BY <1>1, <1>2 DEF Shape, Joined
  <2>2. QED
    BY <1>1, <2>1 DEF Side
<1>10. y # d
  BY <1>1, <1>2, <1>3
<1>11. QED
  BY <1>1, <1>2, <1>3, <1>4, <1>5, <1>6, <1>7, <1>8, <1>9, <1>10

(* The successor is the right child: it comes up with its own right subtree. *)
LEMMA NearSuccessor ==
  ASSUME NEW tr, NEW N, NEW lo, NEW hi, Shape(tr, N, lo, hi), Rooted(tr, N), NEW d \in N,
         NEW e, tr.child["right"][d] = e, e # Nil,
         NEW a, tr.child["left"][d] = a, a # Nil,
         NEW y, Visited(tr, N, lo, hi, d, e, y), tr.child["left"][y] = Nil,
         NEW x, tr.child["right"][y] = x, tr.father[y] = d,
         NEW r1, HasReplaced(tr, y, x, r1),
         NEW up, HasReplaced(tr, d, y, up), NEW r, HasChild(up, y, "left", a, r)
  PROVE  IsRenamed(r1, N \ {y}, d, y, r)
<1> DEFINE f == tr.father[d]
           p == SideOf(tr, d)
           M == N \ {y}
<1>1. /\ Nil \notin N /\ y \in N /\ e \in N /\ a \in N /\ N \subseteq Keys
      /\ a \notin {d, y, e} /\ y # d /\ e # d /\ e = y
      /\ tr.father[a] = d
      /\ f \notin {d, y, e, a}
      /\ x # Nil => x \in N /\ x \notin {d, y, e, a} /\ tr.father[x] = y
      /\ \A n \in N : tr.father[n] = d => n \in {a, e}
      /\ \A n \in N : tr.father[n] = y => n = x
  BY SuccessorApart DEF Visited, Shape
<1>2. /\ f = Nil => d = tr.root
      /\ f # Nil => f \in N /\ p \in Side /\ tr.child[p][f] = d
  BY BelowFather
<1>3. SideOf(tr, y) = "right"
  BY <1>1, BelowFather DEF Side
<1>4. \A n \in N, z \in Side : tr.child[z][n] # Nil => tr.father[tr.child[z][n]] = n
  BY DEF Shape, Joined
<1>5. tr.root = d => f = Nil
  BY <1>1 DEF Rooted
<1> HIDE DEF f, p
<1>6. /\ r1.root = tr.root
      /\ \A n \in N : r1.father[n] = IF n = x THEN d ELSE tr.father[n]
      /\ \A n \in N, z \in Side : r1.child[z][n] = IF n = d /\ z = "right" THEN x ELSE tr.child[z][n]
  BY <1>1, <1>3 DEF HasReplaced
<1>7. /\ r \in Trees /\ r.root = IF f = Nil THEN y ELSE tr.root
      /\ \A n \in N : r.father[n] = IF n = a THEN y ELSE IF n = y THEN f ELSE tr.father[n]
      /\ \A n \in N, z \in Side :
           r.child[z][n] = IF z = "left" /\ n = y THEN a
                           ELSE IF n = f /\ z = p THEN y ELSE tr.child[z][n]
  BY <1>1 DEF HasReplaced, HasChild, f, p
<1>8. r.root = Renamed(d, y, r1.root)
  BY <1>2, <1>5, <1>6, <1>7 DEF Renamed
<1>9. r.father[y] = r1.father[d]
  BY <1>1, <1>6, <1>7 DEF f
<1>10. ASSUME NEW z \in Side PROVE r.child[z][y] = r1.child[z][d]
  <2>1. z = "left" \/ z = "right"
    BY DEF Side
  <2>2. QED
    BY <1>1, <1>6, <1>7, <2>1
<1>11. ASSUME NEW n \in M \ {d} PROVE r.father[n] = Renamed(d, y, r1.father[n])
  BY <1>1, <1>6, <1>7, <1>11 DEF Renamed
<1>12. ASSUME NEW n \in M \ {d}, NEW z \in Side PROVE r.child[z][n] = Renamed(d, y, r1.child[z][n])
  <2>1. n \in N /\ n # y /\ n # d
    OBVIOUS
  <2>2. r1.child[z][n] = tr.child[z][n]
    BY <1>6, <2>1
  <2>3. CASE n = f /\ z = p
    BY <1>1, <1>2, <1>7, <2>1, <2>2, <2>3 DEF Renamed
  <2>4. CASE ~ (n = f /\ z = p)
    <3>1. r.child[z][n] = tr.child[z][n]
      BY <1>7, <2>1, <2>4
    <3>2. tr.child[z][n] # d
      <4> SUFFICES ASSUME tr.child[z][n] = d PROVE FALSE
        OBVIOUS
      <4>1. n = f
        BY <1>1, <1>4, <2>1 DEF f
      <4>2. z = p
        BY <1>1, <2>1, <4>1, BelowFather DEF f, p
      <4>3. QED
        BY <2>4, <4>1, <4>2
    <3>3. QED
      BY <2>2, <3>1, <3>2 DEF Renamed
  <2>5. QED
    BY <2>3, <2>4
<1>13. QED
  BY <1>7, <1>8, <1>9, <1>10, <1>11, <1>12 DEF IsRenamed

(* The successor is further down: its right child comes in its place first. *)
LEMMA FarSuccessor ==
  ASSUME NEW tr, NEW N, NEW lo, NEW hi, Shape(tr, N, lo, hi), Rooted(tr, N), NEW d \in N,
         NEW e, tr.child["right"][d] = e, e # Nil,
         NEW a, tr.child["left"][d] = a, a # Nil,
         NEW y, Visited(tr, N, lo, hi, d, e, y), tr.child["left"][y] = Nil,
         NEW x, tr.child["right"][y] = x, tr.father[y] # d,
         NEW r1, HasReplaced(tr, y, x, r1), NEW m, HasChild(r1, y, "right", e, m),
         NEW up, HasReplaced(m, d, y, up), NEW r, HasChild(up, y, "left", a, r)
  PROVE  IsRenamed(r1, N \ {y}, d, y, r)
<1> DEFINE f == tr.father[d]
           p == SideOf(tr, d)
           g == tr.father[y]
           M == N \ {y}
<1>1. /\ Nil \notin N /\ y \in N /\ e \in N /\ a \in N /\ N \subseteq Keys
      /\ a \notin {d, y, e} /\ y # d /\ e # d /\ e # y
      /\ tr.father[a] = d /\ tr.father[e] = d
      /\ f \notin {d, y, e, a}
      /\ x # Nil => x \in N /\ x \notin {d, y, e, a} /\ tr.father[x] = y
      /\ \A n \in N : tr.father[n] = d => n \in {a, e}
      /\ \A n \in N : tr.father[n] = y => n = x
  BY SuccessorApart DEF Visited, Shape
<1>2. /\ f = Nil => d = tr.root
      /\ f # Nil => f \in N /\ p \in Side /\ tr.child[p][f] = d
  BY BelowFather
<1>3. SideOf(tr, y) = "left" /\ tr.child["left"][g] = y /\ g \in N /\ g # d /\ g # y
  BY <1>1, Neighbours DEF Visited, SideOf
<1>4. \A n \in N, z \in Side : tr.child[z][n] # Nil => tr.father[tr.child[z][n]] = n
  BY DEF Shape, Joined
<1>5. tr.root = d => f = Nil
  BY <1>1 DEF Rooted
<1>6. ASSUME NEW n \in N, NEW z \in Side, tr.child[z][n] = d PROVE n = f /\ z = p
  <2>1. n = f
    BY <1>1, <1>4, <1>6
  <2>2. z = p
    BY <1>1, <1>6, <2>1, BelowFather
  <2>3. QED
    BY <2>1, <2>2
<1> HIDE DEF f, p, g
<1>7. /\ r1.root = tr.root
      /\ \A n \in N : r1.father[n] = IF n = x THEN g ELSE tr.father[n]
      /\ \A n \in N, z \in Side : r1.child[z][n] = IF n = g /\ z = "left" THEN x ELSE tr.child[z][n]
  BY <1>1, <1>3 DEF HasReplaced, g
<1>8. /\ m.root = tr.root
      /\ \A n \in N : m.father[n] = IF n = e THEN y ELSE IF n = x THEN g ELSE tr.father[n]
      /\ \A n \in N, z \in Side :
           m.child[z][n] = IF z = "right" /\ n = y THEN e
                           ELSE IF n = g /\ z = "left" THEN x ELSE tr.child[z][n]
  BY <1>1, <1>7 DEF HasChild
<1>9. m.father[d] = f
  BY <1>1, <1>8 DEF f
<1>10. f # Nil => SideOf(m, d) = p
  <2> SUFFICES ASSUME f # Nil PROVE SideOf(m, d) = p
    OBVIOUS
  <2>1. f \in N /\ f # y /\ tr.child[p][f] = d /\ p \in Side
    BY <1>1, <1>2
  <2>2. m.child["left"][f] = IF f = g THEN x ELSE tr.child["left"][f]
    BY <1>8, <2>1 DEF Side
  <2>3. f = g => p # "left"
    BY <1>1, <1>3, <2>1
  <2>4. d = m.child["left"][f] <=> p = "left"
    BY <1>1, <1>6, <2>1, <2>2, <2>3 DEF Side
  <2>5. QED
    BY <1>9, <2>1, <2>4 DEF SideOf, Side
<1>11. /\ r \in Trees /\ r.root = IF f = Nil THEN y ELSE tr.root
       /\ \A n \in N : r.father[n] = IF n = a THEN y ELSE IF n = y THEN f
                                     ELSE IF n = e THEN y ELSE IF n = x THEN g ELSE tr.father[n]
  BY <1>1, <1>8, <1>9 DEF HasReplaced, HasChild
<1>12. \A n \in N, z \in Side :
           r.child[z][n] = IF z = "left" /\ n = y THEN a
                           ELSE IF n = f /\ z = p THEN y
                           ELSE IF z = "right" /\ n = y THEN e
                           ELSE IF n = g /\ z = "left" THEN x ELSE tr.child[z][n]
  BY <1>1, <1>8, <1>9, <1>10 DEF HasReplaced, HasChild
<1>13. r.root = Renamed(d, y, r1.root)
  BY <1>2, <1>5, <1>7, <1>11 DEF Renamed
<1>14. r.father[y] = r1.father[d]
  BY <1>1, <1>7, <1>11 DEF f
<1>15. ASSUME NEW z \in Side PROVE r.child[z][y] = r1.child[z][d]
  <2>1. z = "left" \/ z = "right"
    BY DEF Side
  <2>2. QED
    BY <1>1, <1>3, <1>7, <1>12, <2>1
<1>16. ASSUME NEW n \in M \ {d} PROVE r.father[n] = Renamed(d, y, r1.father[n])
  <2>1. n \in N /\ n # y /\ n # d
    OBVIOUS
  <2>2. CASE n \in {a, e}
    BY <1>1, <1>7, <1>11, <2>1, <2>2 DEF Renamed
  <2>3. CASE n = x
    BY <1>1, <1>3, <1>7, <1>11, <2>1, <2>3 DEF Renamed
  <2>4. CASE n \notin {a, e, x}
    BY <1>1, <1>7, <1>11, <2>1, <2>4 DEF Renamed
  <2>5. QED
    BY <2>2, <2>3, <2>4
<1>17. ASSUME NEW n \in M \ {d}, NEW z \in Side PROVE r.child[z][n] = Renamed(d, y, r1.child[z][n])
  <2>1. n \in N /\ n # y /\ n # d
    OBVIOUS
  <2>2. CASE n = f /\ z = p
    <3>1. tr.child[z][n] = d
      BY <1>1, <1>2, <2>1, <2>2
    <3>2. ~ (n = g /\ z = "left")
      BY <1>1, <1>3, <3>1
    <3>3. QED
      BY <1>7, <1>12, <2>1, <2>2, <3>1, <3>2 DEF Renamed
  <2>3. CASE ~ (n = f /\ z = p) /\ n = g /\ z = "left"
    <3>1. x # d
      BY <1>1
    <3>2. QED
      BY <1>7, <1>12, <2>1, <2>3, <3>1 DEF Renamed
  <2>4. CASE ~ (n = f /\ z = p) /\ ~ (n = g /\ z = "left")
    <3>1. tr.child[z][n] # d
      BY <1>6, <2>1, <2>4
    <3>2. r.child[z][n] = tr.child[z][n] /\ r1.child[z][n] = tr.child[z][n]
      BY <1>7, <1>12, <2>1, <2>4
    <3>3. QED
      BY <3>1, <3>2 DEF Renamed
  <2>5. QED
    BY <2>2, <2>3, <2>4
<1>18. QED
  BY <1>11, <1>13, <1>14, <1>15, <1>16, <1>17 DEF IsRenamed

\* r has the fields of tr at every key that is not in N.
Untouched(tr, r, N) ==
  \A n \in Keys \ N : /\ r.father[n] = tr.father[n] /\ (r.red[n] <=> tr.red[n])
                      /\ \A z \in Side : r.child[z][n] = tr.child[z][n]

(* A transplant of nodes leaves the other keys alone. *)
LEMMA ReplacedElsewhere ==
  ASSUME NEW tr, NEW N, NEW lo, NEW hi, Shape(tr, N, lo, hi), NEW u \in N,
         NEW v \in N \cup {Nil}, NEW r, HasReplaced(tr, u, v, r)
  PROVE  Untouched(tr, r, N)
<1>1. tr.father[u] \in N \cup {Nil}
  BY DEF Shape, Joined
<1>2. Nil \notin Keys
  BY KeysAssumption
<1>3. QED
  BY <1>1, <1>2 DEF HasReplaced, Untouched

(* A rotation writes to no node outside the tree. *)
LEMMA TurnedElsewhere ==
  ASSUME NEW tr, NEW N, NEW lo, NEW hi, Shape(tr, N, lo, hi), NEW x \in N, NEW s \in Side,
         NEW y, y = tr.child[Other(s)][x], y # Nil,
         NEW r, HasTurned(tr, x, s, y, tr.child[s][y], r), \A k \in Keys \ N : r.red[k] <=> tr.red[k]
  PROVE  Untouched(tr, r, N)
<1>1. tr.father[x] \in N \cup {Nil}
  BY DEF Shape, Joined
<1>2. Nil \notin Keys /\ y \in N /\ tr.child[s][y] \in N \cup {Nil}
  BY KeysAssumption, TurnApart
<1>3. QED
  BY <1>1, <1>2 DEF HasTurned, Untouched

(* The links of the tree without d, its successor in its place. *)
LEMMA SuccessorLinks ==
  ASSUME NEW N, NEW lo, NEW hi, Shape(t, N, lo, hi), Rooted(t, N), NEW d \in N,
         NEW e, t.child["right"][d] = e, e # Nil, t.child["left"][d] # Nil,
         NEW y, Visited(t, N, lo, hi, d, e, y), t.child["left"][y] = Nil,
         NEW x, t.child["right"][y] = x,
         NEW r1, HasReplaced(t, y, x, r1), NEW r, r = WithSuccessor(d, y)
  PROVE  /\ IsRenamed(r1, N \ {y}, d, y, r)
         /\ HasColours(t, IF t.red[d] THEN {} ELSE {y}, IF t.red[d] THEN {y} ELSE {}, r)
         /\ Untouched(t, r, N)
<1> DEFINE a == t.child["left"][d]
           R1 == Transplanted(t, y, x)
           m == WithChild(R1, y, "right", e)
           near == t.father[y] = d
           base == IF near THEN t ELSE m
           up == Transplanted(base, d, y)
           new == WithChild(up, y, "left", a)
<1>1. /\ Nil \notin N /\ y \in N /\ e \in N /\ a \in N /\ N \subseteq Keys
      /\ a \notin {d, y, e} /\ y # d /\ e # d /\ d < y
      /\ t.father[d] \notin {d, y, e, a}
      /\ x # Nil => x \in N /\ x \notin {d, y, e, a}
  BY SuccessorApart DEF Shape
<1>2. /\ t \in Trees /\ y \in Keys /\ d \in Keys /\ e \in Ptrs /\ a \in Ptrs /\ x \in Ptrs /\ y \in Ptrs
      /\ "left" \in Side /\ "right" \in Side /\ t.father[d] \in N \cup {Nil} /\ Nil \notin Keys
  BY <1>1, KeysAssumption DEF Shape, Joined, Ptrs, Side
<1>3. r = IF t.red[d] THEN Painted(new, {}, {y}) ELSE Painted(new, {y}, {})
  BY DEF WithSuccessor
<1> HIDE DEF a
<1>4. HasReplaced(t, y, x, R1) /\ R1 \in Trees /\ R1.red = t.red
  <2>1. HasReplaced(t, y, x, R1)
    BY <1>2, TransplantedFacts
  <2>2. QED
    BY <2>1 DEF HasReplaced
<1>5. \A n \in Keys \ N : /\ R1.father[n] = t.father[n]
                          /\ \A z \in Side : R1.child[z][n] = t.child[z][n]
  BY <1>1, <1>4, ReplacedElsewhere DEF Untouched
<1> HIDE DEF R1
<1>6. HasChild(R1, y, "right", e, m)
  BY <1>2, <1>4, WithChildFacts
<1> HIDE DEF m
<1>7. base \in Trees /\ base.red = t.red
  BY <1>2, <1>4, <1>6 DEF HasChild
<1>8. \A n \in Keys \ N : /\ base.father[n] = t.father[n]
                          /\ \A z \in Side : base.child[z][n] = t.child[z][n]
  BY <1>1, <1>5, <1>6 DEF HasChild
<1>9. base.father[d] = t.father[d]
  <2>1. R1.father[d] = t.father[d]
    BY <1>1, <1>2, <1>4 DEF HasReplaced
  <2>2. m.father[d] = t.father[d]
    BY <1>1, <1>2, <1>6, <2>1 DEF HasChild
  <2>3. QED
    BY <2>2
<1> HIDE DEF base
<1>10. HasReplaced(base, d, y, up)
  BY <1>2, <1>7, TransplantedFacts
<1>11. up \in Trees
  BY <1>10 DEF HasReplaced
<1> HIDE DEF up
<1>12. HasChild(up, y, "left", a, new)
  BY <1>2, <1>11, WithChildFacts
<1>13. new \in Trees /\ new.red = t.red
  BY <1>7, <1>10, <1>12 DEF HasReplaced, HasChild
<1>14. \A n \in Keys \ N : /\ new.father[n] = t.father[n]
                           /\ \A z \in Side : new.child[z][n] = t.child[z][n]
  BY <1>1, <1>2, <1>8, <1>9, <1>10, <1>12 DEF HasReplaced, HasChild
<1>15. IsRenamed(r1, N \ {y}, d, y, new)
  <2>1. CASE near
    <3>1. HasReplaced(t, d, y, up)
      BY <1>10, <2>1 DEF base
    <3>2. t.child["left"][d] = a /\ a # Nil
      BY DEF a
    <3> HIDE DEF new
    <3>3. QED
      BY <1>12, <2>1, <3>1, <3>2, NearSuccessor
  <2>2. CASE ~ near
    <3>1. r1 = R1 \/ HasReplaced(t, y, x, R1)
      BY <1>4
    <3>2. HasReplaced(m, d, y, up)
      BY <1>10, <2>2 DEF base
    <3>3. t.child["left"][d] = a /\ a # Nil
      BY DEF a
    <3> HIDE DEF new
    <3>4. IsRenamed(R1, N \ {y}, d, y, new)
      BY <1>4, <1>6, <1>12, <2>2, <3>2, <3>3, FarSuccessor
    <3>5. /\ R1.root = r1.root
          /\ \A n \in Keys : R1.father[n] = r1.father[n]
          /\ \A n \in Keys, z \in Side : R1.child[z][n] = r1.child[z][n]
      BY <1>4 DEF HasReplaced
    <3>6. QED
      BY <1>1, <1>2, <3>4, <3>5 DEF IsRenamed
  <2>3. QED
    BY <2>1, <2>2
<1> HIDE DEF new
<1> DEFINE B == IF t.red[d] THEN {} ELSE {y}
           D == IF t.red[d] THEN {y} ELSE {}
<1>16. IsPainted(new, B, D, r)
  BY <1>3, <1>13, PaintedFacts
<1>17. IsRenamed(r1, N \ {y}, d, y, r)
  BY <1>15, <1>16 DEF IsPainted, IsRenamed
<1>18. HasColours(t, B, D, r)
  BY <1>13, <1>16 DEF IsPainted, HasColours
<1>19. Untouched(t, r, N)
  <2>1. \A n \in Keys \ N : r.red[n] <=> t.red[n]
    BY <1>1, <1>18 DEF HasColours
  <2>2. QED
    BY <1>14, <1>16, <2>1 DEF IsPainted, Untouched
<1>20. QED
  BY <1>17, <1>18, <1>19

(* The deletion of a node with two children: what is owed, if a black successor
   has left its place, is owed where that place was. *)
LEMMA SuccessorTakesOver ==
  ASSUME NEW N, NEW lo, NEW hi, Shape(t, N, lo, hi), Rooted(t, N), NEW d \in N,
         t.child["right"][d] # Nil, t.child["left"][d] # Nil,
         NEW y, y = Minimum(t, t.child["right"][d]),
         NEW x, t.child["right"][y] = x,
         Colours(t, N, {}, Nil), NEW bh, Heights(t, N, bh, Nil, "left"),
         NEW r, r = WithSuccessor(d, y), NEW q, q = Renamed(d, y, t.father[y])
  PROVE  /\ \E l, h : Shape(r, N \ {d}, l, h)
         /\ Rooted(r, N \ {d}) /\ Untouched(t, r, N) /\ y \in N /\ y # d
         /\ x \in (N \ {d}) \cup {Nil} /\ q \in N \ {d}
         /\ t.red[y] => /\ Colours(r, N \ {d}, {}, Nil)
                        /\ \E h : Heights(r, N \ {d}, h, Nil, "left")
         /\ ~ t.red[y] => /\ Colours(r, N \ {d}, {x}, x)
                          /\ \E h, z : /\ z \in Side /\ r.child[z][q] = x
                                       /\ Heights(r, N \ {d}, h, q, z)
<1> DEFINE e == t.child["right"][d]
           g == t.father[y]
           p == SideOf(t, y)
           r1 == Transplanted(t, y, x)
           M == N \ {y}
<1>1. Visited(t, N, lo, hi, d, e, y) /\ t.child["left"][y] = Nil
  BY MinimumFacts
<1>2. /\ Nil \notin N /\ y \in N /\ N \subseteq Keys /\ y # d /\ d < y
      /\ x # Nil => x \in N /\ x \notin {d, y}
  BY <1>1, SuccessorApart DEF Shape
<1>3. lo[y] = d /\ Between(y, lo[d], hi[d])
  BY <1>1 DEF Visited
<1>4. t \in Trees /\ x \in Ptrs /\ y \in Keys
  BY <1>2 DEF Shape, Ptrs
<1>5. HasReplaced(t, y, x, r1)
  BY <1>4, TransplantedFacts
<1> HIDE DEF r1
<1>6. Shape(r1, M, Lifted(lo, y), hi) /\ Rooted(r1, M)
  <2>1. "left" \in Side /\ x = t.child[Other("left")][y]
    BY DEF Side, Other
  <2>2. QED
    BY <1>1, <1>2, <1>5, <2>1, SpliceShape
<1>7. /\ t.red[y] => Colours(r1, M, {}, Nil) /\ Heights(r1, M, bh, Nil, "left")
      /\ ~ t.red[y] => Colours(r1, M, {x}, x) /\ Heights(r1, M, bh, g, p)
  <2>1. "left" \in Side /\ x = t.child[Other("left")][y]
    BY DEF Side, Other
  <2>2. QED
    BY <1>1, <1>2, <1>5, <2>1, SpliceColours
<1>8. /\ IsRenamed(r1, M, d, y, r)
      /\ HasColours(t, IF t.red[d] THEN {} ELSE {y}, IF t.red[d] THEN {y} ELSE {}, r)
      /\ Untouched(t, r, N)
  BY <1>1, <1>5, SuccessorLinks
<1>9. d \in M /\ y \in Keys \ M /\ (M \ {d}) \cup {y} = N \ {d}
  BY <1>2
<1>10. Between(y, Lifted(lo, y)[d], hi[d])
  <2>1. lo[d] # y
    <3>1. Between(d, lo[d], hi[d]) /\ d \in Int /\ y \in Int /\ y # Nil
      BY <1>2, KeysAssumption DEF Shape, Bounded
    <3>2. QED
      BY <1>2, <3>1 DEF Between
  <2>2. Lifted(lo, y)[d] = lo[d]
    BY <1>2, <2>1 DEF Lifted
  <2>3. QED
    BY <1>3, <2>2
<1>11. \A n \in M \ {d} : (n < d => n < y) /\ (d < n => y < n)
  <2> SUFFICES ASSUME NEW n \in M \ {d} PROVE (n < d => n < y) /\ (d < n => y < n)
    OBVIOUS
  <2>1. n \in Int /\ d \in Int /\ y \in Int /\ n # y /\ n \in N
    BY <1>2, KeysAssumption
  <2>2. n < d => n < y
    BY <1>2, <2>1
  <2>3. ASSUME d < n, n < y PROVE FALSE
    <3>1. Between(n, lo[y], hi[y])
      <4>1. Between(y, lo[y], hi[y]) /\ hi[y] \in Ptrs
        BY <1>2 DEF Shape, Bounded
      <4>2. hi[y] # Nil => hi[y] \in Int /\ y < hi[y]
        BY <4>1, KeysAssumption DEF Between, Ptrs
      <4>3. QED
        BY <1>3, <2>1, <2>3, <4>2 DEF Between
    <3>2. t.child[SideFor(n, y)][y] # Nil
      BY <1>2, <2>1, <3>1, Descends
    <3>3. QED
      BY <1>1, <2>3, <3>2 DEF SideFor
  <2>4. QED
    BY <2>1, <2>2, <2>3
<1>12. (\E l, h : Shape(r, N \ {d}, l, h)) /\ Rooted(r, N \ {d})
  BY <1>6, <1>8, <1>9, <1>10, <1>11, RenamedShape
<1>13. (r.red[y] <=> r1.red[d]) /\ \A n \in M \ {d} : r.red[n] <=> r1.red[n]
  BY <1>2, <1>5, <1>8 DEF HasColours, HasReplaced
<1>14. g \in N /\ g # y /\ q \in N \ {d}
  <2>1. g \in N /\ g # y
    BY <1>1, <1>2, Neighbours DEF Visited
  <2>2. QED
    BY <1>2, <2>1 DEF Renamed
<1>15. x \in (N \ {d}) \cup {Nil}
  BY <1>2
<1>16. ASSUME t.red[y] PROVE Colours(r, N \ {d}, {}, Nil) /\ \E h : Heights(r, N \ {d}, h, Nil, "left")
  <2>1. Renamed(d, y, Nil) = Nil /\ d # Nil
    BY <1>2 DEF Renamed
  <2>2. /\ Colours(r, (M \ {d}) \cup {y}, {}, Nil)
        /\ \E h : Heights(r, (M \ {d}) \cup {y}, h, Renamed(d, y, Nil), "left")
    BY <1>6, <1>7, <1>8, <1>9, <1>13, <1>16, <2>1, RenamedColours
  <2>3. QED
    BY <1>9, <2>1, <2>2
<1>17. ASSUME ~ t.red[y]
       PROVE  /\ Colours(r, N \ {d}, {x}, x)
              /\ \E h, z : z \in Side /\ r.child[z][q] = x /\ Heights(r, N \ {d}, h, q, z)
  <2>1. d \notin {x} /\ x # d
    BY <1>2
  <2>2. /\ Colours(r, (M \ {d}) \cup {y}, {x}, x)
        /\ \E h : Heights(r, (M \ {d}) \cup {y}, h, Renamed(d, y, g), p)
    <3>1. g \in M \cup {Nil}
      BY <1>14
    <3>2. Colours(r1, M, {x}, x) /\ Heights(r1, M, bh, g, p)
      BY <1>7, <1>17
    <3> DEFINE V == {x}
    <3>3. Colours(r1, M, V, x) /\ d \notin V
      BY <2>1, <3>2
    <3> DEFINE l == Lifted(lo, y)
    <3>4. Shape(r1, M, l, hi) /\ Rooted(r1, M) /\ d \in M /\ y \in Keys \ M
      BY <1>6, <1>9
    <3>5. IsRenamed(r1, M, d, y, r)
      BY <1>8
    <3> HIDE DEF g, M, p, V, l
    <3>6. /\ Colours(r, (M \ {d}) \cup {y}, V, x)
          /\ \E h : Heights(r, (M \ {d}) \cup {y}, h, Renamed(d, y, g), p)
      BY <1>13, <2>1, <3>1, <3>2, <3>3, <3>4, <3>5, RenamedColours
    <3>7. QED
      BY <3>6 DEF V
  <2>3. p \in Side
    BY SideOfFacts
  <2>4. r.child[p][q] = x
    <3>1. r1.child[p][g] = x
      BY <1>2, <1>5, <1>14, <2>3 DEF HasReplaced
    <3>2. CASE g = d
      BY <1>8, <2>3, <3>1, <3>2 DEF IsRenamed, Renamed
    <3>3. CASE g # d
      <4>1. g \in M \ {d} /\ q = g
        BY <1>14, <3>3 DEF Renamed
      <4>2. r.child[p][g] = Renamed(d, y, x)
        BY <1>8, <2>3, <3>1, <4>1 DEF IsRenamed
      <4>3. QED
        BY <2>1, <4>1, <4>2 DEF Renamed
    <3>4. QED
      BY <3>2, <3>3
  <2>5. PICK h : Heights(r, N \ {d}, h, q, p)
    BY <1>9, <2>2
  <2>6. Colours(r, N \ {d}, {x}, x)
    BY <1>9, <2>2
  <2>7. QED
    BY <2>3, <2>4, <2>5, <2>6
<1>18. QED
  BY <1>2, <1>8, <1>12, <1>14, <1>15, <1>16, <1>17

-----------------------------------------------------------------------------
\* The turns of delete_fixup, at the node u whose child on side s is one short.

(* The other child of u is there: the ways through it have one black more. *)
LEMMA SiblingThere ==
  ASSUME NEW tr, NEW N, NEW lo, NEW hi, Shape(tr, N, lo, hi), NEW u \in N, NEW s \in Side,
         NEW bh, Heights(tr, N, bh, u, s)
  PROVE  tr.child[Other(s)][u] # Nil
<1>1. Other(s) \in Side /\ Other(s) # s /\ N \subseteq Keys
  BY DEF Side, Other, Shape
<1>2. bh \in [Keys -> Nat] /\ tr.child[s][u] \in N \cup {Nil}
  BY DEF Heights, Shape, Joined
<1>3. Hgt(tr, bh, tr.child[s][u]) \in Nat
  BY <1>1, <1>2 DEF Hgt
<1>4. bh[u] = Hgt(tr, bh, tr.child[s][u]) + 1
  BY DEF Heights
<1>5. bh[u] = Hgt(tr, bh, tr.child[Other(s)][u]) + 0
  BY <1>1 DEF Heights
<1>6. Hgt(tr, bh, Nil) = 0
  BY DEF Hgt
<1>7. QED
  BY <1>3, <1>4, <1>5, <1>6

(* A red sibling comes up and u goes down: its new sibling is black. *)
LEMMA RedSiblingRotates ==
  ASSUME NEW tr, NEW N, NEW lo, NEW hi, Shape(tr, N, lo, hi), Rooted(tr, N),
         NEW u \in N, NEW s \in Side, NEW w, w = tr.child[Other(s)][u], Red(tr, w),
         ~ Red(tr, tr.child[s][u]), Colours(tr, N, {}, Nil),
         NEW bh, Heights(tr, N, bh, u, s),
         NEW p, IsPainted(tr, {w}, {u}, p), NEW r, Rotated(p, u, s) = r
  PROVE  /\ \E l, h : Shape(r, N, l, h)
         /\ Rooted(r, N) /\ Colours(r, N, {}, Nil) /\ Heights(r, N, bh, u, s)
         /\ r.child[s][u] = tr.child[s][u] /\ ~ Red(r, r.child[Other(s)][u])
         /\ Untouched(tr, r, N)
<1> DEFINE o == Other(s)
           b == tr.child[s][w]
           f == tr.father[u]
           z == SideOf(tr, u)
<1>1. /\ o \in Side /\ o # s /\ \A k \in Side : k = s \/ k = o
      /\ Nil \notin N /\ N \subseteq Keys /\ w # Nil /\ tr.red[w]
  BY KeysAssumption DEF Side, Other, Shape, Red
<1>2. /\ Apart(tr, u, w, b) /\ w \in N /\ b \in N \cup {Nil} /\ tr.father[w] = u
      /\ (b # Nil => tr.father[b] = w)
  BY <1>1, TurnApart
<1>3. /\ w # u /\ f \notin {u, w} /\ (b # Nil => b \notin {u, w, f})
  BY <1>2 DEF Apart
<1>4. /\ HasTurned(tr, u, s, w, b, r)
      /\ \E l, h : Shape(r, N, l, h)
      /\ Rooted(r, N)
      /\ HasColours(tr, {w}, {u}, r)
  BY <1>1, Turning
<1>5. ~ r.red[w] /\ r.red[u] /\ \A k \in Keys \ {u, w} : r.red[k] <=> tr.red[k]
  BY <1>1, <1>2, <1>3, <1>4 DEF HasColours
<1>6. ~ tr.red[u] /\ \A k \in N : tr.red[k] => ~ Red(tr, tr.father[k])
  BY <1>1, <1>2 DEF Colours, Red
<1> HIDE DEF b, f, z
<1>7. Heights(r, N, bh, u, s)
  <2>1. ~ (u = u /\ s = Other(s)) /\ ~ (u = w /\ s = s)
    BY <1>1, <1>3
  <2>2. /\ tr.red[w] /\ r.red[u] /\ (r.red[w] <=> tr.red[u])
        /\ \A k \in N \ {u, w} : r.red[k] <=> tr.red[k]
    BY <1>1, <1>5, <1>6
  <2>3. b = tr.child[s][w]
    BY DEF b
  <2>4. QED
    BY <1>1, <1>4, <2>1, <2>2, <2>3, TurnHeights
<1>8. /\ r.root = IF f = Nil THEN w ELSE tr.root
      /\ \A n \in N : r.father[n] = IF n = u THEN w ELSE IF n = w THEN f
                                    ELSE IF n = b THEN u ELSE tr.father[n]
      /\ r.child[s][u] = tr.child[s][u] /\ r.child[o][u] = b
  BY <1>1, <1>3, <1>4 DEF HasTurned, f
<1>9. b # Nil => ~ tr.red[b]
  BY <1>1, <1>2, <1>6 DEF Red
<1>10. ~ Red(r, b)
  BY <1>1, <1>2, <1>3, <1>5, <1>9 DEF Red
<1>11. ASSUME NEW k \in N, r.red[k], Red(r, r.father[k]) PROVE FALSE
  <2> DEFINE q == r.father[k]
  <2>1. q # Nil /\ r.red[q] /\ q # w /\ k # w /\ k # u
    <3>1. q # Nil /\ r.red[q] /\ q # w
      BY <1>5, <1>11 DEF Red
    <3>2. k # w
      BY <1>5, <1>11
    <3>3. k # u
      BY <1>1, <1>3, <1>8, <3>1
    <3>4. QED
      BY <3>1, <3>2, <3>3
  <2>2. k # b
    BY <1>1, <1>2, <1>10, <1>11 DEF Red
  <2>3. q = tr.father[k] /\ tr.red[k]
    <3>1. q = tr.father[k]
      BY <1>8, <2>1, <2>2
    <3>2. QED
      BY <1>1, <1>5, <1>11, <2>1, <3>1
  <2>4. q \in N /\ ~ tr.red[q]
    <3>1. q \in N
      BY <2>1, <2>3 DEF Shape, Joined
    <3>2. ~ Red(tr, q)
      BY <1>6, <2>3
    <3>3. QED
      BY <2>1, <3>1, <3>2 DEF Red
  <2>5. q = u
    BY <1>1, <1>5, <2>1, <2>4
  <2>6. PICK y \in Side : tr.child[y][u] = k
    <3>1. tr.father[k] = u /\ tr.father[k] # Nil
      BY <2>1, <2>3, <2>5
    <3>2. \E y \in Side : tr.child[y][tr.father[k]] = k
      BY <3>1 DEF Shape, Joined
    <3>3. QED
      BY <3>1, <3>2
  <2>7. y = s
    BY <1>1, <2>1, <2>6
  <2>8. QED
    BY <1>1, <2>3, <2>6, <2>7 DEF Red
<1>12. ~ Red(r, r.root)
  <2> SUFFICES ASSUME Red(r, r.root) PROVE FALSE
    OBVIOUS
  <2>1. f # Nil /\ r.root = tr.root /\ tr.root # Nil /\ r.red[tr.root]
    BY <1>5, <1>8 DEF Red
  <2>2. tr.root \in N /\ tr.father[tr.root] = Nil
    BY <2>1 DEF Rooted
  <2>3. tr.root # u /\ tr.root # w
    BY <1>1, <1>2, <2>1, <2>2 DEF f
  <2>4. tr.red[tr.root]
    BY <1>1, <1>5, <2>1, <2>2, <2>3
  <2>5. QED
    BY <2>1, <2>4 DEF Colours, Red
<1>13. Colours(r, N, {}, Nil)
  BY <1>11, <1>12 DEF Colours
<1>14. Untouched(tr, r, N)
  <2>1. \A k \in Keys \ N : r.red[k] <=> tr.red[k]
    BY <1>2, <1>5
  <2>2. QED
    BY <1>1, <1>4, <2>1, TurnedElsewhere DEF b
<1>15. QED
  BY <1>4, <1>7, <1>8, <1>10, <1>13, <1>14

(* A red child of the sibling on the side of u comes up above the sibling. *)
LEMMA NearRedRotates ==
  ASSUME NEW tr, NEW N, NEW lo, NEW hi, Shape(tr, N, lo, hi), Rooted(tr, N),
         NEW u \in N, NEW s \in Side, NEW w, tr.child[Other(s)][u] = w, w # Nil, ~ tr.red[w],
         NEW c, tr.child[s][w] = c, Red(tr, c), ~ Red(tr, tr.child[Other(s)][w]),
         Colours(tr, N, {}, Nil),
         NEW bh, Heights(tr, N, bh, u, s),
         NEW p, IsPainted(tr, {c}, {w}, p), NEW r, Rotated(p, w, Other(s)) = r
  PROVE  /\ \E l, h : Shape(r, N, l, h)
         /\ Rooted(r, N) /\ Colours(r, N, {}, Nil) /\ Heights(r, N, bh, u, s)
         /\ r.child[s][u] = tr.child[s][u]
         /\ r.child[Other(s)][u] = c /\ ~ r.red[c] /\ Red(r, r.child[Other(s)][c])
         /\ Untouched(tr, r, N)
<1> DEFINE o == Other(s)
           b == tr.child[o][c]
<1>1. /\ o \in Side /\ o # s /\ Other(o) = s /\ \A k \in Side : k = s \/ k = o
      /\ Nil \notin N /\ N \subseteq Keys /\ c # Nil /\ tr.red[c]
  BY KeysAssumption DEF Side, Other, Shape, Red
<1>2. w \in N /\ tr.father[w] = u /\ w # u
  BY <1>1, Neighbours
<1>3. c = tr.child[Other(o)][w]
  BY <1>1
<1>4. /\ Apart(tr, w, c, b) /\ c \in N /\ b \in N \cup {Nil} /\ tr.father[c] = w
      /\ (b # Nil => tr.father[b] = c) /\ tr.child[o][w] # c
  BY <1>1, <1>2, <1>3, TurnApart
<1>5. /\ c # w /\ u \notin {w, c} /\ (b # Nil => b \notin {w, c, u})
  BY <1>2, <1>4 DEF Apart
<1>6. /\ HasTurned(tr, w, o, c, b, r)
      /\ \E l, h : Shape(r, N, l, h)
      /\ Rooted(r, N)
      /\ HasColours(tr, {c}, {w}, r)
  BY <1>1, <1>2, <1>3, Turning
<1>7. ~ r.red[c] /\ r.red[w] /\ \A k \in Keys \ {w, c} : r.red[k] <=> tr.red[k]
  BY <1>1, <1>2, <1>4, <1>5, <1>6 DEF HasColours
<1>8. \A k \in N : tr.red[k] => ~ Red(tr, tr.father[k])
  BY DEF Colours
<1>9. SideOf(tr, w) = o
  BY <1>1, <1>2, BelowFather
<1>10. b = tr.child[o][c]
  OBVIOUS
<1> HIDE DEF b
<1>11. Heights(r, N, bh, u, s)
  <2>1. ~ (u = w /\ s = Other(o)) /\ ~ (u = c /\ s = o)
    BY <1>5
  <2>2. /\ tr.red[c] /\ r.red[w] /\ (r.red[c] <=> tr.red[w])
        /\ \A k \in N \ {w, c} : r.red[k] <=> tr.red[k]
    BY <1>1, <1>7
  <2> HIDE DEF o
  <2>3. QED
    BY <1>1, <1>2, <1>3, <1>6, <1>10, <2>1, <2>2, TurnHeights
<1>12. /\ r.root = tr.root
       /\ \A n \in N : r.father[n] = IF n = w THEN c ELSE IF n = c THEN u
                                     ELSE IF n = b THEN w ELSE tr.father[n]
       /\ \A n \in N, z \in Side :
           r.child[z][n] = IF n = w /\ z = Other(o) THEN b ELSE IF n = c /\ z = o THEN w
                       ELSE IF n = u /\ z = o THEN c
                       ELSE tr.child[z][n]
  BY <1>1, <1>2, <1>6, <1>9 DEF HasTurned
<1>13. b # Nil => ~ tr.red[b]
  BY <1>1, <1>4, <1>8 DEF Red
<1>14. ~ Red(r, b)
  BY <1>1, <1>4, <1>5, <1>7, <1>13 DEF Red
<1>15. ASSUME NEW k \in N, r.red[k], Red(r, r.father[k]) PROVE FALSE
  <2> DEFINE q == r.father[k]
  <2>1. q # Nil /\ r.red[q] /\ q # c /\ k # c /\ k # w
    <3>1. q # Nil /\ r.red[q] /\ q # c
      BY <1>7, <1>15 DEF Red
    <3>2. k # c
      BY <1>7, <1>15
    <3>3. k # w
      BY <1>1, <1>5, <1>12, <3>1
    <3>4. QED
      BY <3>1, <3>2, <3>3
  <2>2. k # b
    BY <1>1, <1>4, <1>14, <1>15 DEF Red
  <2>3. q = tr.father[k] /\ tr.red[k]
    <3>1. q = tr.father[k]
      BY <1>12, <2>1, <2>2
    <3>2. QED
      BY <1>1, <1>7, <1>15, <2>1, <3>1
  <2>4. q \in N /\ ~ tr.red[q]
    <3>1. q \in N
      BY <2>1, <2>3 DEF Shape, Joined
    <3>2. ~ Red(tr, q)
      BY <1>8, <2>3
    <3>3. QED
      BY <2>1, <3>1, <3>2 DEF Red
  <2>5. q = w
    BY <1>1, <1>7, <2>1, <2>4
  <2>6. PICK y \in Side : tr.child[y][w] = k
    <3>1. tr.father[k] = w /\ tr.father[k] # Nil
      BY <2>1, <2>3, <2>5
    <3>2. \E y \in Side : tr.child[y][tr.father[k]] = k
      BY <3>1 DEF Shape, Joined
    <3>3. QED
      BY <3>1, <3>2
  <2>7. y = o
    BY <1>1, <2>1, <2>6
  <2>8. QED
    BY <1>1, <2>3, <2>6, <2>7 DEF Red
<1>16. ~ Red(r, r.root)
  <2> SUFFICES ASSUME Red(r, r.root) PROVE FALSE
    OBVIOUS
  <2>1. r.root = tr.root /\ tr.root # Nil /\ r.red[tr.root]
    BY <1>12 DEF Red
  <2>2. tr.root \in N /\ tr.father[tr.root] = Nil
    BY <2>1 DEF Rooted
  <2>3. tr.root # c /\ tr.root # w
    BY <1>1, <1>2, <1>4, <2>1, <2>2
  <2>4. tr.red[tr.root]
    BY <1>1, <1>7, <2>1, <2>2, <2>3
  <2>5. QED
    BY <2>1, <2>4 DEF Colours, Red
<1>17. Colours(r, N, {}, Nil)
  BY <1>15, <1>16 DEF Colours
<1>18. Untouched(tr, r, N)
  <2>1. \A k \in Keys \ N : r.red[k] <=> tr.red[k]
    BY <1>2, <1>4, <1>7
  <2>2. QED
    BY <1>1, <1>2, <1>3, <1>6, <1>10, <2>1, TurnedElsewhere
<1>19. r.child[s][u] = tr.child[s][u] /\ r.child[o][u] = c /\ r.child[o][c] = w
  BY <1>1, <1>4, <1>5, <1>12
<1>20. QED
  BY <1>1, <1>2, <1>6, <1>7, <1>11, <1>17, <1>18, <1>19 DEF Red

(* The last rotation: the sibling takes the colour and the place of u, and the
   black that was missing below u is u itself. *)
LEMMA LastRotation ==
  ASSUME NEW tr, NEW N, NEW lo, NEW hi, Shape(tr, N, lo, hi), Rooted(tr, N),
         NEW u \in N, NEW s \in Side, NEW w, tr.child[Other(s)][u] = w, w # Nil, ~ tr.red[w],
         NEW c, tr.child[Other(s)][w] = c, Red(tr, c), Colours(tr, N, {}, Nil),
         NEW bh, Heights(tr, N, bh, u, s),
         NEW p, IsPainted(tr, {u, c} \cup (IF tr.red[u] THEN {} ELSE {w}),
                              IF tr.red[u] THEN {w} ELSE {}, p),
         NEW r, Rotated(p, u, s) = r
  PROVE  /\ \E l, h : Shape(r, N, l, h)
         /\ Rooted(r, N) /\ Colours(r, N, {}, Nil)
         /\ \E h : Heights(r, N, h, Nil, "left")
         /\ Untouched(tr, r, N)
<1> DEFINE o == Other(s)
           b == tr.child[s][w]
           x == tr.child[s][u]
           f == tr.father[u]
           z == SideOf(tr, u)
           black == {u, c} \cup (IF tr.red[u] THEN {} ELSE {w})
           red == IF tr.red[u] THEN {w} ELSE {}
<1>1. /\ o \in Side /\ o # s /\ \A k \in Side : k = s \/ k = o
      /\ Nil \notin N /\ N \subseteq Keys /\ c # Nil /\ tr.red[c]
  BY KeysAssumption DEF Side, Other, Shape, Red
<1>2. /\ Apart(tr, u, w, b) /\ w \in N /\ b \in N \cup {Nil} /\ tr.father[w] = u
      /\ (b # Nil => tr.father[b] = w) /\ x # w /\ (b # Nil => b # c)
  BY <1>1, TurnApart
<1>3. c \in N /\ tr.father[c] = w /\ c # w
  BY <1>1, <1>2, Neighbours
<1>4. /\ w # u /\ f \notin {u, w} /\ b \notin {u, w, c} /\ c # u
      /\ (b # Nil => b # f)
  BY <1>1, <1>2, <1>3 DEF Apart
<1>5. x \in N \cup {Nil} /\ x \notin {u, w, c}
  <2>1. x # Nil => x \in N /\ tr.father[x] = u /\ x # u
    BY Neighbours
  <2>2. QED
    BY <1>1, <1>2, <1>3, <1>4, <2>1
<1>6. /\ HasTurned(tr, u, s, w, b, r)
      /\ \E l, h : Shape(r, N, l, h)
      /\ Rooted(r, N)
      /\ HasColours(tr, black, red, r)
  <2> HIDE DEF black, red
  <2>1. IsPainted(tr, black, red, p)
    BY DEF black, red
  <2>2. QED
    BY <1>1, <2>1, Turning
<1>7. /\ ~ r.red[u] /\ ~ r.red[c] /\ (r.red[w] <=> tr.red[u])
      /\ \A k \in Keys \ {u, w, c} : r.red[k] <=> tr.red[k]
  BY <1>1, <1>2, <1>3, <1>4, <1>6 DEF HasColours
<1> HIDE DEF black, red
<1>8. \A k \in N : tr.red[k] => ~ Red(tr, tr.father[k])
  BY DEF Colours
<1>9. /\ f = Nil => u = tr.root
      /\ f # Nil => /\ f \in N /\ tr.child[z][f] = u /\ z \in Side
                    /\ \A y \in Side : tr.child[y][f] = u => y = z
  BY BelowFather
<1>10. /\ r.root = IF f = Nil THEN w ELSE tr.root
       /\ \A n \in N : r.father[n] = IF n = u THEN w ELSE IF n = w THEN f
                                     ELSE IF n = b THEN u ELSE tr.father[n]
       /\ \A n \in N, y \in Side :
            r.child[y][n] = IF n = u /\ y = o THEN b ELSE IF n = w /\ y = s THEN u
                            ELSE IF n = f /\ y = z THEN w ELSE tr.child[y][n]
  BY <1>1, <1>6 DEF HasTurned
<1> HIDE DEF b, f, z, x, o
<1>11. ASSUME NEW k \in N, r.red[k], Red(r, r.father[k]) PROVE FALSE
  <2> DEFINE q == r.father[k]
  <2>1. q # Nil /\ r.red[q] /\ q \notin {u, c} /\ k \notin {u, c}
    BY <1>7, <1>11 DEF Red
  <2>2. k # w
    <3> SUFFICES ASSUME k = w PROVE FALSE
      OBVIOUS
    <3>1. tr.red[u] /\ q = f
      BY <1>4, <1>7, <1>10, <1>11
    <3>2. tr.red[f] /\ f # Nil
      BY <1>1, <1>4, <1>7, <1>9, <2>1, <3>1
    <3>3. ~ Red(tr, f)
      BY <1>8, <3>1 DEF f
    <3>4. QED
      BY <3>2, <3>3 DEF Red
  <2>3. tr.red[k]
    BY <1>1, <1>7, <1>11, <2>1, <2>2
  <2>4. q = tr.father[k] /\ k # b
    BY <1>10, <2>1, <2>2
  <2>5. q \in N
    BY <2>1, <2>4 DEF Shape, Joined
  <2>6. q # w
    <3> SUFFICES ASSUME q = w PROVE FALSE
      OBVIOUS
    <3>1. tr.father[k] = w /\ tr.father[k] # Nil
      BY <2>4
    <3>2. \E y \in Side : tr.child[y][tr.father[k]] = k
      BY <3>1 DEF Shape, Joined
    <3>3. PICK y \in Side : tr.child[y][w] = k
      BY <3>1, <3>2
    <3>4. QED
      BY <1>1, <2>1, <2>4, <3>3 DEF b, o
  <2>7. tr.red[q]
    BY <1>1, <1>7, <2>1, <2>5, <2>6
  <2>8. ~ Red(tr, q)
    BY <1>8, <2>3, <2>4
  <2>9. QED
    BY <2>1, <2>7, <2>8 DEF Red
<1>12. ~ Red(r, r.root)
  <2> SUFFICES ASSUME Red(r, r.root) PROVE FALSE
    OBVIOUS
  <2>1. CASE f = Nil
    <3>1. r.root = w /\ tr.red[u] /\ u = tr.root
      BY <1>7, <1>9, <1>10, <2>1 DEF Red
    <3>2. QED
      BY <1>1, <3>1 DEF Colours, Red
  <2>2. CASE f # Nil
    <3>1. r.root = tr.root /\ tr.root # Nil /\ r.red[tr.root]
      BY <1>10, <2>2 DEF Red
    <3>2. tr.root \in N /\ tr.father[tr.root] = Nil
      BY <3>1 DEF Rooted
    <3>3. tr.root \notin {u, w, c}
      BY <1>1, <1>2, <1>3, <2>2, <3>2 DEF f
    <3>4. tr.red[tr.root]
      BY <1>1, <1>7, <3>1, <3>2, <3>3
    <3>5. QED
      BY <3>1, <3>4 DEF Colours, Red
  <2>3. QED
    BY <2>1, <2>2
<1>13. Colours(r, N, {}, Nil)
  BY <1>11, <1>12 DEF Colours
<1>14. \E h : Heights(r, N, h, Nil, "left")
  <2> DEFINE h == [k \in Keys |-> IF k = u THEN bh[w] ELSE IF k = w THEN bh[u] ELSE bh[k]]
  <2>1. bh \in [Keys -> Nat] /\ \A n \in N : bh[n] \in Nat
    BY <1>1 DEF Heights
  <2>2. /\ h \in [Keys -> Nat] /\ h[u] = bh[w] /\ h[w] = bh[u]
        /\ \A n \in N \ {u, w} : h[n] = bh[n]
    BY <1>1, <1>2, <1>4, <2>1
  <2>3. \A n \in N \cup {Nil} : Hgt(tr, bh, n) \in Nat
    BY <1>1, <2>1 DEF Hgt
  <2>4. \A n \in N, y \in Side : tr.child[y][n] \in N \cup {Nil}
    BY DEF Shape, Joined
  <2>5. \A n \in N, y \in Side : ~ (n = u /\ y = s) => bh[n] = Hgt(tr, bh, tr.child[y][n])
    <3>1. \A n \in N, y \in Side : ~ (n = u /\ y = s) => bh[n] = Hgt(tr, bh, tr.child[y][n]) + 0
      BY DEF Heights
    <3>2. QED
      BY <2>3, <2>4, <3>1
  <2>6. bh[u] = Hgt(tr, bh, x) + 1
    BY DEF Heights, x
  <2>7. bh[u] = Hgt(tr, bh, w) /\ bh[w] = Hgt(tr, bh, c) /\ bh[w] = Hgt(tr, bh, b)
    BY <1>1, <1>2, <1>4, <2>5 DEF b, o
  <2>8. Hgt(tr, bh, w) = bh[w] + 1 /\ Hgt(tr, bh, c) = bh[c]
    BY <1>1, <2>1, <1>2, <1>3 DEF Hgt
  <2> HIDE DEF h
  <2>9. \A n \in (N \cup {Nil}) \ {u, w, c} : Hgt(r, h, n) = Hgt(tr, bh, n)
    BY <1>1, <1>7, <2>2 DEF Hgt
  <2>10. /\ Hgt(r, h, u) = bh[w] + 1 /\ Hgt(r, h, c) = bh[c] + 1
         /\ Hgt(r, h, w) = Hgt(tr, bh, u)
    BY <1>1, <1>2, <1>3, <1>4, <1>7, <2>2 DEF Hgt
  <2>11. ASSUME NEW n \in N, NEW y \in Side PROVE h[n] = Hgt(r, h, r.child[y][n]) + 0
    <3>1. CASE n = u
      <4>1. r.child[y][n] \in {b, x}
        BY <1>1, <1>4, <1>10, <3>1 DEF x
      <4>2. Hgt(r, h, b) = bh[w] /\ Hgt(r, h, x) = bh[w]
        BY <1>2, <1>4, <1>5, <2>1, <2>3, <2>6, <2>7, <2>8, <2>9
      <4>3. QED
        BY <1>2, <2>1, <2>2, <3>1, <4>1, <4>2
    <3>2. CASE n = w
      <4>1. r.child[y][n] \in {u, c}
        BY <1>1, <1>4, <1>10, <3>2 DEF o
      <4>2. Hgt(r, h, u) = bh[u] /\ Hgt(r, h, c) = bh[u]
        BY <1>2, <1>3, <2>1, <2>7, <2>8, <2>10
      <4>3. QED
        BY <2>1, <2>2, <3>2, <4>1, <4>2
    <3>3. CASE n = f /\ y = z
      <4>1. r.child[y][n] = w /\ tr.child[y][n] = u
        BY <1>1, <1>4, <1>9, <1>10, <3>3
      <4>2. h[n] = bh[n] /\ bh[n] = Hgt(tr, bh, u) /\ bh[n] \in Nat
        BY <1>4, <2>1, <2>2, <2>5, <3>3, <4>1
      <4>3. QED
        BY <2>10, <4>1, <4>2
    <3>4. CASE n \notin {u, w} /\ ~ (n = f /\ y = z)
      <4>1. r.child[y][n] = tr.child[y][n]
        BY <1>10, <3>4
      <4>2. tr.child[y][n] \notin {u, w, c}
        <5>1. tr.child[y][n] # Nil => tr.father[tr.child[y][n]] = n
          BY DEF Shape, Joined
        <5>2. tr.child[y][n] # u
          BY <1>1, <1>9, <3>4, <5>1 DEF f
        <5>3. QED
          BY <1>1, <1>2, <1>3, <3>4, <5>1, <5>2
      <4>3. h[n] = bh[n] /\ bh[n] = Hgt(tr, bh, tr.child[y][n]) /\ bh[n] \in Nat
        BY <2>1, <2>2, <2>5, <3>4
      <4>4. QED
        BY <2>4, <2>9, <4>1, <4>2, <4>3
    <3>5. QED
      BY <3>1, <3>2, <3>3, <3>4
  <2>12. Heights(r, N, h, Nil, "left")
    BY <1>1, <2>2, <2>11 DEF Heights
  <2>13. QED
    BY <2>12
<1>15. Untouched(tr, r, N)
  <2>1. \A k \in Keys \ N : r.red[k] <=> tr.red[k]
    BY <1>2, <1>3, <1>7
  <2>2. w = tr.child[Other(s)][u]
    OBVIOUS
  <2>3. HasTurned(tr, u, s, w, tr.child[s][w], r)
    BY <1>6 DEF b
  <2>4. QED
    BY <2>1, <2>2, <2>3, TurnedElsewhere
<1>16. QED
  BY <1>6, <1>13, <1>14, <1>15

(* The sibling turns red: what was missing below u is missing at u. *)
LEMMA SiblingReddens ==
  ASSUME NEW tr, NEW N, NEW lo, NEW hi, Shape(tr, N, lo, hi),
         NEW u \in N, NEW s \in Side, NEW w, tr.child[Other(s)][u] = w, w # Nil, ~ tr.red[w],
         \A z \in Side : ~ Red(tr, tr.child[z][w]), Colours(tr, N, {}, Nil), Rooted(tr, N),
         NEW bh, Heights(tr, N, bh, u, s),
         NEW r, IsPainted(tr, {}, {w}, r)
  PROVE  /\ Shape(r, N, lo, hi) /\ Rooted(r, N) /\ Colours(r, N, {w}, Nil)
         /\ w \in N /\ r.father[w] = u
         /\ \E h : Heights(r, N, h, tr.father[u], SideOf(tr, u))
         /\ Untouched(tr, r, N)
<1> DEFINE o == Other(s)
           x == tr.child[s][u]
           f == tr.father[u]
           z == SideOf(tr, u)
<1>1. /\ o \in Side /\ o # s /\ \A k \in Side : k = s \/ k = o
      /\ Nil \notin N /\ N \subseteq Keys
  BY KeysAssumption DEF Side, Other, Shape
<1>2. w \in N /\ tr.father[w] = u /\ w # u /\ w # f
  BY <1>1, Neighbours
<1>3. x \in N \cup {Nil} /\ x # u /\ x # w
  BY <1>1, Neighbours DEF Other, Side
<1>4. r.root = tr.root /\ r.child = tr.child /\ r.father = tr.father
  BY DEF IsPainted
<1>5. r.red[w] /\ \A k \in Keys \ {w} : r.red[k] <=> tr.red[k]
  BY <1>1, <1>2 DEF IsPainted, HasColours
<1>6. Shape(r, N, lo, hi) /\ Rooted(r, N)
  BY PaintedShape
<1>7. Colours(r, N, {w}, Nil)
  <2>1. ASSUME NEW k \in N, r.red[k], Red(r, r.father[k]), k # w PROVE FALSE
    <3>1. tr.red[k] /\ tr.father[k] # Nil /\ r.red[tr.father[k]]
      BY <1>1, <1>4, <1>5, <2>1 DEF Red
    <3>2. tr.father[k] \in N /\ \E y \in Side : tr.child[y][tr.father[k]] = k
      BY <3>1 DEF Shape, Joined
    <3>3. tr.father[k] # w
      BY <1>1, <3>1, <3>2 DEF Red
    <3>4. QED
      BY <1>1, <1>5, <3>1, <3>2, <3>3 DEF Colours, Red
  <2>2. ASSUME Red(r, r.root) PROVE FALSE
    <3>1. tr.root # Nil /\ r.red[tr.root]
      BY <1>4, <2>2 DEF Red
    <3>2. tr.root \in N /\ tr.root # w
      BY <1>1, <1>2, <3>1 DEF Rooted
    <3>3. QED
      BY <1>1, <1>5, <3>1, <3>2 DEF Colours, Red
  <2>3. QED
    BY <2>1, <2>2 DEF Colours
<1>8. /\ f = Nil => u = tr.root
      /\ f # Nil => /\ f \in N /\ f # u /\ tr.child[z][f] = u /\ z \in Side
                    /\ \A y \in Side : tr.child[y][f] = u => y = z
  BY BelowFather
<1> HIDE DEF o, x, f, z
<1>9. \E h : Heights(r, N, h, f, z)
  <2> DEFINE h == [k \in Keys |-> IF k = u THEN bh[w] ELSE bh[k]]
  <2>1. bh \in [Keys -> Nat] /\ \A n \in N : bh[n] \in Nat
    BY <1>1 DEF Heights
  <2>2. h \in [Keys -> Nat] /\ h[u] = bh[w] /\ \A n \in N \ {u} : h[n] = bh[n]
    BY <1>1, <1>2, <2>1
  <2>3. \A n \in N \cup {Nil} : Hgt(tr, bh, n) \in Nat
    BY <1>1, <2>1 DEF Hgt
  <2>4. \A n \in N, y \in Side : tr.child[y][n] \in N \cup {Nil}
    BY DEF Shape, Joined
  <2>5. \A n \in N, y \in Side : ~ (n = u /\ y = s) => bh[n] = Hgt(tr, bh, tr.child[y][n])
    <3>1. \A n \in N, y \in Side : ~ (n = u /\ y = s) => bh[n] = Hgt(tr, bh, tr.child[y][n]) + 0
      BY DEF Heights
    <3>2. QED
      BY <2>3, <2>4, <3>1
  <2>6. bh[u] = Hgt(tr, bh, x) + 1 /\ bh[u] = Hgt(tr, bh, w) /\ Hgt(tr, bh, w) = bh[w] + 1
    <3>1. bh[u] = Hgt(tr, bh, x) + 1
      BY DEF Heights, x
    <3>2. bh[u] = Hgt(tr, bh, w)
      BY <1>1, <2>5 DEF o
    <3>3. Hgt(tr, bh, w) = bh[w] + 1
      BY DEF Hgt
    <3>4. QED
      BY <3>1, <3>2, <3>3
  <2> HIDE DEF h
  <2>7. /\ \A n \in (N \cup {Nil}) \ {u, w} : Hgt(r, h, n) = Hgt(tr, bh, n)
        /\ Hgt(r, h, w) = bh[w]
    BY <1>1, <1>2, <1>5, <2>2 DEF Hgt
  <2>8. Hgt(tr, bh, u) = Hgt(r, h, u) + 1
    <3>1. bh[u] = bh[w] + 1 /\ bh[w] \in Nat
      BY <1>2, <2>1, <2>6
    <3>2. r.red[u] <=> tr.red[u]
      BY <1>1, <1>2, <1>5
    <3>3. CASE tr.red[u]
      BY <1>1, <2>2, <3>1, <3>2, <3>3 DEF Hgt
    <3>4. CASE ~ tr.red[u]
      BY <1>1, <2>2, <3>1, <3>2, <3>4 DEF Hgt
    <3>5. QED
      BY <3>3, <3>4
  <2>9. ASSUME NEW n \in N, NEW y \in Side
        PROVE  h[n] = Hgt(r, h, r.child[y][n]) + (IF n = f /\ y = z THEN 1 ELSE 0)
    <3>1. CASE n = u
      <4>1. r.child[y][n] \in {w, x} /\ n # f
        BY <1>1, <1>4, <1>8, <3>1 DEF x, o
      <4>2. Hgt(r, h, w) = bh[w] /\ Hgt(r, h, x) = bh[w]
        BY <1>2, <1>3, <2>1, <2>3, <2>6, <2>7
      <4>3. QED
        BY <1>2, <2>1, <2>2, <3>1, <4>1, <4>2
    <3>2. CASE n = f /\ y = z
      <4>1. r.child[y][n] = u /\ tr.child[y][n] = u /\ n # u
        BY <1>1, <1>4, <1>8, <3>2
      <4>2. h[n] = bh[n] /\ bh[n] = Hgt(tr, bh, u)
        BY <2>2, <2>5, <4>1
      <4>3. QED
        BY <2>8, <3>2, <4>1, <4>2
    <3>3. CASE n # u /\ ~ (n = f /\ y = z)
      <4>1. r.child[y][n] = tr.child[y][n]
        BY <1>4
      <4>2. tr.child[y][n] \notin {u, w}
        <5>1. tr.child[y][n] # Nil => tr.father[tr.child[y][n]] = n
          BY DEF Shape, Joined
        <5>2. tr.child[y][n] # u
          BY <1>1, <1>8, <3>3, <5>1 DEF f
        <5>3. QED
          BY <1>1, <1>2, <3>3, <5>1, <5>2
      <4>3. h[n] = bh[n] /\ bh[n] = Hgt(tr, bh, tr.child[y][n]) /\ bh[n] \in Nat
        BY <2>1, <2>2, <2>5, <3>3
      <4>4. QED
        BY <2>4, <2>7, <3>3, <4>1, <4>2, <4>3
    <3>4. QED
      BY <3>1, <3>2, <3>3
  <2>10. Heights(r, N, h, f, z)
    BY <2>2, <2>9 DEF Heights
  <2>11. QED
    BY <2>10
<1>10. Untouched(tr, r, N)
  BY <1>2, <1>4, <1>5 DEF Untouched
<1>11. QED
  BY <1>2, <1>4, <1>6, <1>7, <1>9, <1>10 DEF f, z

-----------------------------------------------------------------------------
\* Painting at the end of a fixup.

(* A black root mends what is wrong at the root, and is on no way down. *)
LEMMA RootBlackens ==
  ASSUME NEW tr, NEW N, NEW lo, NEW hi, Shape(tr, N, lo, hi), Rooted(tr, N),
         NEW V, NEW c, Colours(tr, N, V, c),
         \A k \in V \cap N : tr.red[k] /\ Red(tr, tr.father[k]) => tr.root \in {k, tr.father[k]},
         NEW bh, Heights(tr, N, bh, Nil, "left"),
         NEW r, IsPainted(tr, {tr.root}, {}, r)
  PROVE  Colours(r, N, {}, Nil) /\ Heights(r, N, bh, Nil, "left")
<1>1. Nil \notin N /\ N \subseteq Keys /\ tr.root \in Ptrs
  BY KeysAssumption, TreeTypes DEF Shape
<1>2. r.root = tr.root /\ r.child = tr.child /\ r.father = tr.father
  BY DEF IsPainted
<1>3. \A k \in Keys : r.red[k] <=> k # tr.root /\ tr.red[k]
  BY DEF IsPainted, HasColours
<1>4. ASSUME NEW k \in N, r.red[k], Red(r, r.father[k]) PROVE FALSE
  <2>1. k # tr.root /\ tr.red[k] /\ tr.father[k] # Nil
    BY <1>1, <1>2, <1>3, <1>4 DEF Red
  <2>2. tr.father[k] \in N
    BY <2>1 DEF Shape, Joined
  <2>3. tr.red[tr.father[k]] /\ tr.father[k] # tr.root
    BY <1>1, <1>2, <1>3, <1>4, <2>2 DEF Red
  <2>4. Red(tr, tr.father[k]) /\ k \in V
    BY <2>1, <2>3 DEF Red, Colours
  <2>5. QED
    BY <2>1, <2>3, <2>4
<1>5. ~ Red(r, r.root)
  BY <1>1, <1>2, <1>3 DEF Red, Ptrs
<1>6. Colours(r, N, {}, Nil)
  BY <1>4, <1>5 DEF Colours
<1>7. \A n \in N, y \in Side : Hgt(r, bh, r.child[y][n]) = Hgt(tr, bh, tr.child[y][n])
  <2> SUFFICES ASSUME NEW n \in N, NEW y \in Side, tr.child[y][n] # Nil
               PROVE  Hgt(r, bh, tr.child[y][n]) = Hgt(tr, bh, tr.child[y][n])
    BY <1>2 DEF Hgt
  <2>1. tr.child[y][n] \in N /\ tr.father[tr.child[y][n]] = n
    BY DEF Shape, Joined
  <2>2. tr.child[y][n] # tr.root
    BY <1>1, <2>1 DEF Rooted
  <2>3. r.red[tr.child[y][n]] <=> tr.red[tr.child[y][n]]
    BY <1>1, <1>3, <2>1, <2>2
  <2>4. QED
    BY <2>3 DEF Hgt
<1>8. Heights(r, N, bh, Nil, "left")
  BY <1>7 DEF Heights
<1>9. QED
  BY <1>6, <1>8

(* A red node where a black one is missing turns black. *)
LEMMA DebtPaid ==
  ASSUME NEW tr, NEW N, NEW lo, NEW hi, Shape(tr, N, lo, hi),
         NEW c \in N, tr.red[c], c # tr.root,
         NEW V, \A k \in V : c \in {k, tr.father[k]}, Colours(tr, N, V, c),
         NEW u \in N, NEW q \in Side, tr.child[q][u] = c,
         NEW bh, Heights(tr, N, bh, u, q),
         NEW r, IsPainted(tr, {c}, {}, r)
  PROVE  Colours(r, N, {}, Nil) /\ Heights(r, N, bh, Nil, "left")
<1>1. Nil \notin N /\ N \subseteq Keys /\ tr.root \in Ptrs /\ c # Nil
  BY KeysAssumption, TreeTypes DEF Shape
<1>2. r.root = tr.root /\ r.child = tr.child /\ r.father = tr.father
  BY DEF IsPainted
<1>3. \A k \in Keys : r.red[k] <=> k # c /\ tr.red[k]
  BY DEF IsPainted, HasColours
<1>4. ASSUME NEW k \in N, r.red[k], Red(r, r.father[k]) PROVE FALSE
  <2>1. k # c /\ tr.red[k] /\ tr.father[k] # Nil
    BY <1>1, <1>2, <1>3, <1>4 DEF Red
  <2>2. tr.father[k] \in N
    BY <2>1 DEF Shape, Joined
  <2>3. tr.red[tr.father[k]] /\ tr.father[k] # c
    BY <1>1, <1>2, <1>3, <1>4, <2>2 DEF Red
  <2>4. Red(tr, tr.father[k]) /\ k \in V
    BY <2>1, <2>3 DEF Red, Colours
  <2>5. QED
    BY <2>1, <2>3, <2>4
<1>5. ~ Red(r, r.root)
  BY <1>1, <1>2, <1>3 DEF Red, Colours, Ptrs
<1>6. Colours(r, N, {}, Nil)
  BY <1>4, <1>5 DEF Colours
<1>7. tr.father[c] = u /\ tr.child[Other(q)][u] # c
  BY <1>1, Neighbours
<1>8. ASSUME NEW n \in N, NEW y \in Side PROVE bh[n] = Hgt(r, bh, r.child[y][n]) + 0
  <2>1. bh \in [Keys -> Nat] /\ bh[c] \in Nat
    BY <1>1 DEF Heights
  <2>2. CASE n = u /\ y = q
    <3>1. bh[u] = Hgt(tr, bh, c) + 1
      BY DEF Heights
    <3>2. Hgt(tr, bh, c) = bh[c] /\ Hgt(r, bh, c) = bh[c] + 1
      <4>1. Hgt(tr, bh, c) = bh[c] + 0
        BY <1>1 DEF Hgt
      <4>2. ~ r.red[c]
        BY <1>1, <1>3
      <4>3. Hgt(r, bh, c) = bh[c] + 1
        BY <1>1, <4>2 DEF Hgt
      <4>4. QED
        BY <2>1, <4>1, <4>3
    <3>3. QED
      BY <1>2, <2>1, <2>2, <3>1, <3>2
  <2>3. CASE ~ (n = u /\ y = q)
    <3>1. bh[n] = Hgt(tr, bh, tr.child[y][n]) + 0
      BY <2>3 DEF Heights
    <3>2. tr.child[y][n] # Nil => tr.child[y][n] \in N /\ tr.father[tr.child[y][n]] = n
      BY DEF Shape, Joined
    <3>3. tr.child[y][n] # c
      <4>1. y = q \/ y = Other(q)
        BY DEF Side, Other
      <4>2. QED
        BY <1>1, <1>7, <2>3, <3>2, <4>1
    <3>4. Hgt(r, bh, tr.child[y][n]) = Hgt(tr, bh, tr.child[y][n])
      <4>1. CASE tr.child[y][n] = Nil
        BY <4>1 DEF Hgt
      <4>2. CASE tr.child[y][n] # Nil
        <5>1. r.red[tr.child[y][n]] <=> tr.red[tr.child[y][n]]
          BY <1>1, <1>3, <3>2, <3>3, <4>2
        <5>2. QED
          BY <5>1 DEF Hgt
      <4>3. QED
        BY <4>1, <4>2
    <3>5. QED
      BY <1>2, <3>1, <3>4
  <2>4. QED
    BY <2>2, <2>3
<1>9. Heights(r, N, bh, Nil, "left")
  BY <1>1, <1>8 DEF Heights
<1>10. QED
  BY <1>6, <1>9

-----------------------------------------------------------------------------
\* The inductive invariant.

\* What no call has linked has no links.
Clean ==
  \A k \in Keys \ nodes : /\ t.father[k] = Nil /\ ~ t.red[k]
                          /\ \A s \in Side : t.child[s][k] = Nil

\* Where the loops are: the node that a fixup or a walk is at is in the tree.
Cursor ==
  /\ pc \in {"insertFixup", "deleteFixup", "deleteFree"} => key \in nodes
  /\ pc = "insertFixup" => cur \in nodes /\ t.red[cur]
  /\ pc = "deleteFixup" => cur \in Linked \cup {Nil} /\ (cur # t.root => prev \in Linked)
  /\ pc \in {"clear", "free"} => cur \in nodes \cup {Nil} /\ (nodes # {} => cur \in nodes)
  /\ pc = "freed" => nodes = {}
  /\ pc # "crashed"

Sized == ~ Emptying => size = Cardinality(nodes) - (IF pc = "insertFixup" THEN 1 ELSE 0)

\* The search is where key belongs: inside the bounds of the node it left.
At(lo, hi) ==
  pc \in {"insert", "delete", "find"} =>
    /\ key \in Keys
    /\ IF prev = Nil THEN cur = t.root
       ELSE /\ prev \in nodes /\ key # prev /\ Between(key, lo[prev], hi[prev])
            /\ cur = t.child[SideFor(key, prev)][prev]

InOrder == \E lo, hi : Shape(t, Linked, lo, hi) /\ At(lo, hi)

\* The nodes that may be red below a red father.
Exempt == CASE pc = "insertFixup" -> {cur}
            [] pc = "deleteFixup" -> {k \in Linked : cur \in {k, t.father[k]}}
            [] OTHER -> {}

Coloured ==
  Colours(t, Linked, Exempt, IF pc \in {"insertFixup", "deleteFixup"} THEN cur ELSE Nil)

Levelled ==
  IF pc = "deleteFixup" /\ cur # t.root
  THEN \E bh, q : q \in Side /\ t.child[q][prev] = cur /\ Heights(t, Linked, bh, prev, q)
  ELSE \E bh : Heights(t, Linked, bh, Nil, "left")

IInv == /\ TypeOK /\ Clean /\ Cursor /\ Sized /\ InOrder
        /\ ~ Emptying => Rooted(t, Linked) /\ Coloured /\ Levelled

\* A tree with nothing to mend.
Settled(tr, N) ==
  /\ \E l, h : Shape(tr, N, l, h)
  /\ Rooted(tr, N) /\ Colours(tr, N, {}, Nil)
  /\ \E h : Heights(tr, N, h, Nil, "left")

\* The calls that leave the tree as it is, and those that may.
Searching == pc \in {"idle", "insert", "delete", "find"}

-----------------------------------------------------------------------------
\* The tree at rest.

(* The empty tree is settled. *)
LEMMA EmptySettled ==
  ASSUME NEW tr \in Trees, tr.root = Nil
  PROVE  Settled(tr, {})
<1> DEFINE l == [k \in Keys |-> Nil]
           h == [k \in Keys |-> 0]
<1>1. l \in [Keys -> Ptrs]
  BY DEF Ptrs
<1>2. h \in [Keys -> Nat]
  OBVIOUS
<1> HIDE DEF l, h
<1>3. Shape(tr, {}, l, l)
  BY <1>1 DEF Shape, Joined, Acyclic, Bounded
<1>4. Rooted(tr, {}) /\ Colours(tr, {}, {}, Nil)
  BY DEF Rooted, Colours, Red
<1>5. Heights(tr, {}, h, Nil, "left")
  BY <1>2 DEF Heights
<1>6. QED
  BY <1>3, <1>4, <1>5 DEF Settled

(* In the states between calls, and in a search, IInv says no more than this. *)
LEMMA SettledIs ==
  ASSUME IInv, Searching
  PROVE  /\ Settled(t, nodes) /\ Linked = nodes /\ ~ Emptying
         /\ size = Cardinality(nodes)
<1>1. Linked = nodes /\ ~ Emptying
  BY DEF Searching, Linked, Emptying
<1>2. \E l, h : Shape(t, nodes, l, h)
  BY <1>1 DEF IInv, InOrder
<1>3. Rooted(t, nodes)
  BY <1>1 DEF IInv
<1>4. Colours(t, nodes, {}, Nil)
  <2>1. Exempt = {} /\ pc \notin {"insertFixup", "deleteFixup"}
    BY DEF Exempt, Searching
  <2>2. QED
    BY <1>1, <2>1 DEF IInv, Coloured
<1>5. \E h : Heights(t, nodes, h, Nil, "left")
  BY <1>1 DEF IInv, Levelled, Searching
<1>6. size = Cardinality(nodes)
  <2>1. Cardinality(nodes) \in Nat
    BY KeysAssumption, FS_Subset, FS_CardinalityType DEF IInv, TypeOK
  <2>2. QED
    BY <1>1, <2>1 DEF IInv, Sized, Searching
<1>7. QED
  BY <1>1, <1>2, <1>3, <1>4, <1>5, <1>6 DEF Settled

\* A state without a repair going on, with the search where it belongs.
AtRest ==
  /\ TypeOK /\ Clean /\ pc \in {"idle", "insert", "delete", "find", "deleteFree"}
  /\ pc = "deleteFree" => key \in nodes
  /\ Settled(t, Linked) /\ size = Cardinality(nodes)
  /\ \E lo, hi : Shape(t, Linked, lo, hi) /\ At(lo, hi)

(* In a state at rest the parts of IInv about the calls in progress say nothing. *)
LEMMA RestGives == AtRest => IInv
<1> SUFFICES ASSUME AtRest PROVE IInv
  OBVIOUS
<1> USE DEF AtRest
<1>1. ~ Emptying /\ Exempt = {} /\ pc \notin {"insertFixup", "deleteFixup"}
  BY DEF Emptying, Exempt
<1>2. Cursor
  BY DEF Cursor
<1>3. Sized
  <2>1. Cardinality(nodes) \in Nat
    BY KeysAssumption, FS_Subset, FS_CardinalityType DEF TypeOK
  <2>2. QED
    BY <1>1, <2>1 DEF Sized
<1>4. InOrder
  BY DEF InOrder
<1>5. Coloured
  BY <1>1 DEF Coloured, Settled
<1>6. Levelled
  BY <1>1 DEF Levelled, Settled
<1>7. QED
  BY <1>2, <1>3, <1>4, <1>5, <1>6 DEF IInv, Settled

(* The same of the state after a step. *)
LEMMA RestGivesNext == AtRest' => IInv'
BY RestGives, PTL

(* Where a search that has not ended in NULL is, is a node. *)
LEMMA SearchIsAtNode ==
  ASSUME IInv, pc \in {"insert", "delete", "find"}, cur # Nil,
         NEW lo, NEW hi, Shape(t, nodes, lo, hi), At(lo, hi)
  PROVE  cur \in nodes /\ Between(key, lo[cur], hi[cur]) /\ key \in Keys
<1>1. Rooted(t, nodes)
  BY SettledIs DEF Searching, Settled
<1>2. key \in Keys
  BY DEF At
<1>3. CASE prev = Nil
  <2>1. cur = t.root
    BY <1>3 DEF At
  <2>2. cur \in nodes /\ t.father[cur] = Nil
    BY <1>1, <2>1 DEF Rooted
  <2>3. QED
    BY <1>2, <2>2 DEF Shape, Bounded, Between
<1>4. CASE prev # Nil
  <2>1. /\ prev \in nodes /\ key # prev /\ Between(key, lo[prev], hi[prev])
        /\ cur = t.child[SideFor(key, prev)][prev]
    BY <1>4 DEF At
  <2>2. cur \in nodes
    BY <2>1 DEF Shape, Joined, SideFor, Side
  <2>3. QED
    BY <1>2, <2>1, <2>2, Narrowed
<1>5. QED
  BY <1>3, <1>4

-----------------------------------------------------------------------------
\* The actions that leave the tree alone.

(* rbt_init makes an empty tree. *)
LEMMA InitIInv == Init => IInv
<1> SUFFICES ASSUME Init PROVE IInv
  OBVIOUS
<1>1. t = EmptyTree /\ nodes = {} /\ size = 0 /\ pc = "idle" /\ key = Nil /\ cur = Nil /\ prev = Nil
  BY DEF Init
<1>2. EmptyTree \in Trees /\ EmptyTree.root = Nil
  BY DEF EmptyTree, Trees
<1>3. TypeOK
  BY <1>1, <1>2 DEF TypeOK
<1>4. Clean
  BY <1>1 DEF Clean, EmptyTree
<1>5. Linked = nodes
  BY <1>1 DEF Linked
<1>6. Settled(t, Linked)
  BY <1>1, <1>2, <1>5, EmptySettled
<1>7. size = Cardinality(nodes)
  BY <1>1, FS_EmptySet
<1>8. \E lo, hi : Shape(t, Linked, lo, hi) /\ At(lo, hi)
  BY <1>1, <1>6 DEF Settled, At
<1>9. QED
  BY <1>1, <1>3, <1>4, <1>6, <1>7, <1>8, RestGives DEF AtRest

(* A call starts at the root, whose bounds are all keys. *)
LEMMA CallIInv ==
  ASSUME IInv, NEW k \in Keys, NEW op \in {"insert", "delete", "find"}, Call(op, k)
  PROVE  IInv'
<1>1. /\ pc = "idle" /\ t' = t /\ nodes' = nodes /\ size' = size
      /\ pc' = op /\ key' = k /\ cur' = t.root /\ prev' = Nil
  BY DEF Call
<1>2. Settled(t, nodes) /\ Linked = nodes /\ size = Cardinality(nodes)
  BY <1>1, SettledIs DEF Searching
<1>3. TypeOK'
  BY <1>1, TreeTypes DEF IInv, TypeOK, Ptrs
<1>4. Clean'
  BY <1>1 DEF IInv, Clean
<1>5. Linked' = nodes
  BY <1>1 DEF Linked
<1>6. Settled(t, Linked)'
  BY <1>1, <1>2, <1>5
<1>7. (\E lo, hi : Shape(t, Linked, lo, hi) /\ At(lo, hi))'
  <2>1. PICK lo, hi : Shape(t, nodes, lo, hi)
    BY <1>2 DEF Settled
  <2>2. Shape(t', Linked', lo, hi) /\ At(lo, hi)'
    BY <1>1, <1>5, <2>1 DEF At
  <2>3. QED
    BY <2>2
<1>8. QED
  BY <1>1, <1>2, <1>3, <1>4, <1>6, <1>7, RestGivesNext DEF AtRest

(* A search that ends leaves the tree as it found it. *)
LEMMA ReturnIInv ==
  ASSUME IInv, pc \in {"insert", "delete", "find"}, NEW code, Return(code),
         UNCHANGED << t, nodes, size >>
  PROVE  IInv'
<1>1. t' = t /\ nodes' = nodes /\ size' = size /\ pc' = "idle" /\ key' = Nil /\ cur' = Nil /\ prev' = Nil
  BY DEF Return
<1>2. Settled(t, nodes) /\ Linked = nodes /\ size = Cardinality(nodes)
  BY SettledIs DEF Searching
<1>3. TypeOK'
  BY <1>1 DEF IInv, TypeOK
<1>4. Clean'
  BY <1>1 DEF IInv, Clean
<1>5. Linked' = nodes
  BY <1>1 DEF Linked
<1>6. Settled(t, Linked)'
  BY <1>1, <1>2, <1>5
<1>7. (\E lo, hi : Shape(t, Linked, lo, hi) /\ At(lo, hi))'
  <2>1. PICK lo, hi : Shape(t, nodes, lo, hi)
    BY <1>2 DEF Settled
  <2>2. Shape(t', Linked', lo, hi) /\ At(lo, hi)'
    BY <1>1, <1>5, <2>1 DEF At
  <2>3. QED
    BY <2>2
<1>8. QED
  BY <1>1, <1>2, <1>3, <1>4, <1>6, <1>7, RestGivesNext DEF AtRest

(* One turn of a search goes to the child on the side of the key, inside its bounds. *)
LEMMA DescendIInv ==
  ASSUME IInv, Descend
  PROVE  IInv'
<1>1. /\ pc \in {"insert", "delete", "find"} /\ cur \notin {Nil, key}
      /\ cur' = t.child[Toward][cur] /\ prev' = cur
      /\ t' = t /\ nodes' = nodes /\ size' = size /\ pc' = pc /\ key' = key
  BY DEF Descend
<1>2. Settled(t, nodes) /\ Linked = nodes /\ size = Cardinality(nodes)
  BY <1>1, SettledIs DEF Searching
<1>3. PICK lo, hi : Shape(t, nodes, lo, hi) /\ At(lo, hi)
  BY <1>2 DEF IInv, InOrder
<1>4. cur \in nodes /\ Between(key, lo[cur], hi[cur]) /\ key \in Keys
  BY <1>1, <1>3, SearchIsAtNode
<1>5. Toward = SideFor(key, cur) /\ Toward \in Side
  BY DEF Toward, SideFor, Side
<1>6. TypeOK'
  <2>1. t \in Trees /\ cur \in Keys
    BY <1>4 DEF IInv, TypeOK
  <2>2. t.child[Toward][cur] \in Keys \cup {Nil}
    BY <1>5, <2>1, TreeTypes DEF Ptrs
  <2>3. QED
    BY <1>1, <2>1, <2>2 DEF IInv, TypeOK
<1>7. Clean'
  BY <1>1 DEF IInv, Clean
<1>8. Linked' = nodes
  BY <1>1 DEF Linked
<1>9. Settled(t, Linked)'
  BY <1>1, <1>2, <1>8
<1>10. (\E l, h : Shape(t, Linked, l, h) /\ At(l, h))'
  <2>1. cur # Nil /\ key # cur
    BY <1>1
  <2>2. At(lo, hi)'
    BY <1>1, <1>4, <1>5, <2>1 DEF At
  <2>3. Shape(t', Linked', lo, hi)
    BY <1>1, <1>3, <1>8
  <2>4. QED
    BY <2>2, <2>3
<1>11. QED
  BY <1>1, <1>2, <1>6, <1>7, <1>9, <1>10, RestGivesNext DEF AtRest

-----------------------------------------------------------------------------
\* Insertion keeps the invariant.

(* Untouched keys stay clean. *)
LEMMA CleanStays ==
  ASSUME Clean, NEW N, nodes \subseteq N, N \subseteq Keys, nodes' = N \/ nodes' = nodes,
         Untouched(t, t', N)
  PROVE  nodes' = N => Clean'
BY DEF Clean, Untouched

(* What a rotation of painted nodes of the tree does not touch. *)
LEMMA TurningElsewhere ==
  ASSUME NEW tr, NEW N, NEW lo, NEW hi, Shape(tr, N, lo, hi), NEW x \in N, NEW s \in Side,
         NEW y, y = tr.child[Other(s)][x], y # Nil,
         NEW black, NEW red, black \cap (Keys \ N) = {}, red \cap (Keys \ N) = {},
         NEW p, IsPainted(tr, black, red, p), NEW r, Rotated(p, x, s) = r
  PROVE  Untouched(tr, r, N)
<1>1. HasTurned(tr, x, s, y, tr.child[s][y], r) /\ HasColours(tr, black, red, r)
  BY Turning
<1>2. \A k \in Keys \ N : r.red[k] <=> tr.red[k]
  BY <1>1 DEF HasColours
<1>3. QED
  BY <1>1, <1>2, TurnedElsewhere

(* The new red node is a leaf where the search ended; it may be red below red. *)
LEMMA InsertNodeIInv ==
  ASSUME IInv, InsertNode
  PROVE  IInv'
<1> DEFINE new == Painted(t, {}, {key})
           N == nodes \cup {key}
<1>1. /\ pc = "insert" /\ cur = Nil
      /\ t' = IF prev = Nil THEN [new EXCEPT !.root = key]
              ELSE WithChild(new, prev, SideFor(key, prev), key)
      /\ nodes' = N /\ pc' = "insertFixup" /\ cur' = key /\ prev' = Nil
      /\ size' = size /\ key' = key
  BY DEF InsertNode, SideFor
<1>2. Settled(t, nodes) /\ Linked = nodes /\ size = Cardinality(nodes)
  BY <1>1, SettledIs DEF Searching
<1>3. PICK lo, hi : Shape(t, nodes, lo, hi) /\ At(lo, hi)
  BY <1>2 DEF IInv, InOrder
<1>4. /\ key \in Keys /\ prev \in Ptrs
      /\ IF prev = Nil THEN t.root = Nil
         ELSE /\ prev \in nodes /\ key # prev /\ Between(key, lo[prev], hi[prev])
              /\ t.child[SideFor(key, prev)][prev] = Nil
  BY <1>1, <1>3 DEF IInv, TypeOK, Ptrs, At
<1>5. key \notin nodes /\ t \in Trees /\ nodes \subseteq Keys /\ Nil \notin Keys
  BY <1>2, <1>3, <1>4, SearchMisses, KeysAssumption DEF Settled, Shape
<1>6. t.father[key] = Nil /\ ~ t.red[key] /\ \A s \in Side : t.child[s][key] = Nil
  BY <1>4, <1>5 DEF IInv, Clean
<1>7. IsPainted(t, {}, {key}, new)
  BY <1>5, PaintedFacts
<1> HIDE DEF new
<1>8. HasLeaf(t, key, prev, t') /\ HasColours(t, {}, {key}, t')
  <2>1. new \in Trees /\ new.root = t.root /\ new.child = t.child /\ new.father = t.father
    BY <1>7 DEF IsPainted
  <2>2. CASE prev = Nil
    <3>1. /\ [new EXCEPT !.root = key] \in Trees /\ [new EXCEPT !.root = key].root = key
          /\ [new EXCEPT !.root = key].child = new.child
          /\ [new EXCEPT !.root = key].father = new.father
          /\ [new EXCEPT !.root = key].red = new.red
      BY <1>4, <2>1 DEF Trees
    <3>2. t' \in Trees /\ t'.root = key /\ t'.child = t.child /\ t'.father = t.father /\ t'.red = new.red
      BY <1>1, <2>1, <2>2, <3>1
    <3>3. HasLeaf(t, key, prev, t')
      BY <1>5, <1>6, <2>2, <3>2 DEF HasLeaf
    <3>4. HasColours(t, {}, {key}, t')
      BY <1>7, <3>2 DEF IsPainted, HasColours
    <3>5. QED
      BY <3>3, <3>4
  <2>3. CASE prev # Nil
    <3>1. prev \in Keys /\ SideFor(key, prev) \in Side /\ key \in Ptrs
      BY <1>4, <1>5, <2>3 DEF SideFor, Side, Ptrs
    <3>2. HasChild(new, prev, SideFor(key, prev), key, t')
      BY <1>1, <2>1, <2>3, <3>1, WithChildFacts
    <3>3. HasLeaf(t, key, prev, t')
      BY <2>1, <2>3, <3>2 DEF HasChild, HasLeaf
    <3>4. HasColours(t, {}, {key}, t')
      BY <1>7, <3>2 DEF HasChild, IsPainted, HasColours
    <3>5. QED
      BY <3>3, <3>4
  <2>4. QED
    BY <2>2, <2>3
<1>9. (\E l, h : Shape(t', N, l, h)) /\ Rooted(t', N)
  BY <1>2, <1>3, <1>4, <1>5, <1>6, <1>8, LeafShape DEF Settled
<1>10. t'.red[key] /\ Colours(t', N, {key}, key) /\ \E h : Heights(t', N, h, Nil, "left")
  <2>1. PICK bh : Heights(t, nodes, bh, Nil, "left")
    BY <1>2 DEF Settled
  <2>2. Colours(t, nodes, {}, Nil)
    BY <1>2 DEF Settled
  <2>3. QED
    BY <1>3, <1>4, <1>5, <1>6, <1>8, <2>1, <2>2, LeafColours
<1>11. TypeOK'
  BY <1>1, <1>4, <1>5, <1>8 DEF IInv, TypeOK, HasLeaf
<1>12. Clean'
  <2>1. nodes \subseteq N /\ N \subseteq Keys
    BY <1>4, <1>5
  <2>2. Untouched(t, t', N)
    BY <1>4, <1>5, <1>8 DEF HasLeaf, HasColours, Untouched
  <2> HIDE DEF N
  <2>3. QED
    BY <1>1, <2>1, <2>2, CleanStays DEF IInv
<1>13. Linked' = N
  BY <1>1 DEF Linked
<1>14. Cursor'
  BY <1>1, <1>10, <1>13 DEF Cursor
<1>15. Sized'
  <2>1. IsFiniteSet(nodes)
    BY <1>5, KeysAssumption, FS_Subset
  <2>2. Cardinality(N) = Cardinality(nodes) + 1 /\ Cardinality(nodes) \in Nat
    BY <1>5, <2>1, FS_AddElement, FS_CardinalityType
  <2> HIDE DEF N
  <2>3. size' = Cardinality(N) - 1
    BY <1>1, <1>2, <2>2
  <2>4. QED
    BY <1>1, <2>3 DEF Sized
<1>16. InOrder'
  BY <1>1, <1>9, <1>13 DEF InOrder, At
<1>17. Coloured'
  BY <1>1, <1>10, <1>13 DEF Coloured, Exempt
<1>18. Levelled'
  BY <1>1, <1>10, <1>13 DEF Levelled
<1>19. QED
  BY <1>9, <1>11, <1>12, <1>13, <1>14, <1>15, <1>16, <1>17, <1>18 DEF IInv

(* One turn of insert_fixup moves the pair of reds up, or ends with a rotation. *)
LEMMA InsertFixupIInv ==
  ASSUME IInv, InsertFixup
  PROVE  IInv'
<1> DEFINE f     == t.father[cur]
           g     == t.father[f]
           s     == SideOf(t, f)
           uncle == t.child[Other(s)][g]
           bent  == cur = t.child[Other(s)][f]
           low   == IF bent THEN f ELSE cur
           tr    == IF bent THEN Rotated(t, f, s) ELSE t
           mid   == tr.father[low]
           top   == tr.father[mid]
<1>1. /\ pc = "insertFixup" /\ Red(t, f)
      /\ IF Red(t, uncle)
           THEN /\ t' = Painted(t, {f, uncle}, {g}) /\ cur' = g
           ELSE /\ t' = Rotated(Painted(tr, {mid}, {top}), top, Other(s)) /\ cur' = low
      /\ nodes' = nodes /\ size' = size /\ pc' = pc /\ key' = key /\ prev' = prev
  BY DEF InsertFixup
<1>2. Linked = nodes /\ ~ Emptying /\ Linked' = nodes /\ ~ Emptying'
  BY <1>1 DEF Linked, Emptying
<1>3. PICK lo, hi : Shape(t, nodes, lo, hi)
  BY <1>2 DEF IInv, InOrder
<1>4. Rooted(t, nodes) /\ cur \in nodes /\ t.red[cur] /\ Colours(t, nodes, {cur}, cur)
  BY <1>1, <1>2 DEF IInv, Cursor, Coloured, Exempt
<1>5. PICK bh : Heights(t, nodes, bh, Nil, "left")
  BY <1>1, <1>2 DEF IInv, Levelled
<1>6. t \in Trees /\ nodes \subseteq Keys /\ Nil \notin Keys
  BY <1>3, KeysAssumption DEF Shape
<1>18. f = t.father[cur] /\ g = t.father[f] /\ s = SideOf(t, f) /\ Red(t, t.father[cur])
  BY <1>1
<1> HIDE DEF f, g, s
<1>7. /\ f \in nodes /\ g \in nodes /\ f # cur /\ g \notin {f, cur} /\ s \in Side
      /\ t.red[f] /\ ~ t.red[g] /\ t.child[s][g] = f /\ t.child[Other(s)][g] # f
      /\ \E z \in Side : t.child[z][f] = cur
  BY <1>3, <1>4, <1>18, Family
<1>8. Other(s) \in Side /\ Other(s) # s /\ Other(Other(s)) = s /\ \A z \in Side : z = s \/ z = Other(s)
  BY <1>7 DEF Side, Other
<1>9. /\ \E l, h : Shape(t', nodes, l, h)
      /\ Rooted(t', nodes) /\ cur' \in nodes /\ t'.red[cur'] /\ Colours(t', nodes, {cur'}, cur')
      /\ \E h : Heights(t', nodes, h, Nil, "left")
      /\ Untouched(t, t', nodes)
  <2>1. CASE Red(t, uncle)
    <3>1. t' = Painted(t, {f, uncle}, {g}) /\ cur' = g
      BY <1>1, <2>1
    <3> HIDE DEF uncle
    <3>2. IsPainted(t, {f, uncle}, {g}, t')
      BY <1>6, <3>1, PaintedFacts
    <3>3. t.child[Other(s)][g] = uncle
      BY DEF uncle
    <3>4. /\ g \in nodes /\ t'.red[g] /\ Shape(t', nodes, lo, hi) /\ Rooted(t', nodes)
          /\ Colours(t', nodes, {g}, g)
          /\ \E h : Heights(t', nodes, h, Nil, "left")
      BY <1>3, <1>4, <1>5, <1>18, <2>1, <3>2, <3>3, InsertRecolours
    <3>5. uncle \in nodes
      BY <1>3, <1>7, <1>8, <2>1, <3>3 DEF Red, Shape, Joined
    <3>6. Untouched(t, t', nodes)
      BY <1>7, <3>2, <3>5 DEF Untouched, IsPainted, HasColours
    <3>7. QED
      BY <3>1, <3>4, <3>6
  <2>2. CASE ~ Red(t, uncle)
    <3>1. /\ \E l, h : Shape(tr, nodes, l, h)
          /\ Rooted(tr, nodes) /\ low \in nodes /\ tr.red[low] /\ Red(tr, mid)
          /\ Colours(tr, nodes, {low}, low) /\ Heights(tr, nodes, bh, Nil, "left")
          /\ top = g /\ SideOf(tr, mid) = s /\ tr.child[s][mid] = low
          /\ ~ Red(tr, tr.child[Other(s)][g])
          /\ Untouched(t, tr, nodes)
      <4>1. CASE bent
        <5>1. tr = Rotated(t, f, s) /\ low = f /\ t.child[Other(s)][f] = cur
          BY <4>1
        <5> HIDE DEF tr, low, bent
        <5>2. /\ \E l, h : Shape(tr, nodes, l, h)
              /\ Rooted(tr, nodes)
              /\ f \in nodes /\ tr.red[f] /\ Red(tr, tr.father[f]) /\ Colours(tr, nodes, {f}, f)
              /\ Heights(tr, nodes, bh, Nil, "left")
              /\ tr.father[f] = cur /\ tr.father[cur] = g /\ SideOf(tr, cur) = s
              /\ tr.child[s][cur] = f
              /\ tr.child[Other(s)][g] = t.child[Other(s)][g] /\ tr.red = t.red
          BY <1>3, <1>4, <1>5, <1>18, <5>1, InsertStraightens
        <5>3. IsPainted(t, {}, {}, t)
          BY <1>6 DEF IsPainted, HasColours
        <5>4. Untouched(t, tr, nodes)
          <6>1. cur # Nil
            BY <1>4, <1>6
          <6> DEFINE c == cur
          <6>2. c = t.child[Other(s)][f] /\ c # Nil
            BY <5>1, <6>1
          <6> HIDE DEF c
          <6>3. Rotated(t, f, s) = tr
            BY <5>1
          <6>4. QED
            BY <1>3, <1>7, <5>3, <6>2, <6>3, TurningElsewhere
        <5>5. mid = cur /\ top = g
          BY <5>1, <5>2
        <5>6. ~ Red(tr, tr.child[Other(s)][g])
          BY <2>2, <5>2 DEF Red
        <5> HIDE DEF mid, top
        <5>7. QED
          BY <5>1, <5>2, <5>4, <5>5, <5>6
      <4>2. CASE ~ bent
        <5>1. tr = t /\ low = cur
          BY <4>2
        <5>2. mid = f /\ top = g
          BY <5>1 DEF f, g
        <5>3. t.child[s][f] = cur
          BY <1>7, <1>8, <4>2
        <5>4. Untouched(t, t, nodes)
          BY DEF Untouched
        <5> HIDE DEF mid, top, tr, low, bent
        <5>5. SideOf(t, f) = s /\ ~ Red(t, t.child[Other(s)][g])
          BY <2>2 DEF s
        <5>6. QED
          BY <1>1, <1>3, <1>4, <1>5, <5>1, <5>2, <5>3, <5>4, <5>5
      <4>3. QED
        BY <4>1, <4>2
    <3>2. t' = Rotated(Painted(tr, {mid}, {top}), top, Other(s)) /\ cur' = low
      BY <1>1, <2>2
    <3>3. mid = tr.father[low] /\ top = tr.father[mid]
      OBVIOUS
    <3> HIDE DEF tr, mid, top, low
    <3>4. PICK l, h : Shape(tr, nodes, l, h)
      BY <3>1
    <3> DEFINE pt == Painted(tr, {mid}, {top})
    <3>5. IsPainted(tr, {mid}, {top}, pt)
      BY <3>4, PaintedFacts DEF Shape
    <3> HIDE DEF pt
    <3>6. Rotated(pt, top, Other(s)) = t' /\ Red(tr, tr.father[low]) /\ SideOf(tr, mid) = s
      BY <3>1, <3>2, <3>3 DEF pt
    <3>7. /\ \E a, b : Shape(t', nodes, a, b)
          /\ Rooted(t', nodes) /\ t'.red[low] /\ Colours(t', nodes, {}, Nil)
          /\ Heights(t', nodes, bh, Nil, "left")
      BY <3>1, <3>3, <3>4, <3>5, <3>6, InsertRotates
    <3>8. Untouched(tr, t', nodes)
      <4>1. /\ mid \in nodes /\ top \in nodes /\ mid # Nil /\ tr.child[s][top] = mid
        BY <1>6, <3>1, <3>3, <3>4, <3>6, Family
      <4>2. mid = tr.child[Other(Other(s))][top]
        BY <1>8, <4>1
      <4>3. {mid} \cap (Keys \ nodes) = {} /\ {top} \cap (Keys \ nodes) = {}
        BY <4>1
      <4>4. QED
        BY <1>8, <3>4, <3>5, <3>6, <4>1, <4>2, <4>3, TurningElsewhere
    <3>9. Untouched(t, t', nodes)
      BY <3>1, <3>8 DEF Untouched
    <3>10. Colours(t', nodes, {cur'}, cur')
      <4>1. ~ Red(t', t'.root)
        <5> SUFFICES ASSUME Red(t', t'.root) PROVE FALSE
          OBVIOUS
        <5>1. t'.root = Nil
          BY <3>7 DEF Colours
        <5>2. QED
          BY <5>1 DEF Red
      <4>2. QED
        BY <3>7, <4>1 DEF Colours
    <3>11. QED
      BY <3>1, <3>2, <3>7, <3>9, <3>10
  <2>3. QED
    BY <2>1, <2>2
<1> HIDE DEF uncle, bent, low, tr, mid, top
<1>10. TypeOK'
  <2>1. t' \in Trees /\ cur' \in Keys
    BY <1>6, <1>9 DEF Shape
  <2>2. QED
    BY <1>1, <2>1 DEF IInv, TypeOK
<1>11. Clean'
  BY <1>1, <1>6, <1>9, CleanStays DEF IInv
<1>12. Cursor'
  BY <1>1, <1>9 DEF IInv, Cursor
<1>13. Sized'
  BY <1>1, <1>2 DEF IInv, Sized
<1>14. InOrder'
  BY <1>1, <1>2, <1>9 DEF InOrder, At
<1>15. Coloured'
  BY <1>1, <1>2, <1>9 DEF Coloured, Exempt
<1>16. Levelled'
  BY <1>1, <1>2, <1>9 DEF Levelled
<1>17. QED
  BY <1>2, <1>9, <1>10, <1>11, <1>12, <1>13, <1>14, <1>15, <1>16 DEF IInv

(* When insert_fixup ends the root turns black, and no red is below a red. *)
LEMMA InsertDoneIInv ==
  ASSUME IInv, InsertDone
  PROVE  IInv'
<1>1. /\ pc = "insertFixup" /\ ~ Red(t, t.father[cur])
      /\ t' = Painted(t, {t.root}, {}) /\ size' = size + 1 /\ nodes' = nodes
      /\ pc' = "idle" /\ key' = Nil /\ cur' = Nil /\ prev' = Nil
  BY DEF InsertDone, Return
<1>2. Linked = nodes /\ ~ Emptying /\ Linked' = nodes
  BY <1>1 DEF Linked, Emptying
<1>3. PICK lo, hi : Shape(t, nodes, lo, hi)
  BY <1>2 DEF IInv, InOrder
<1>4. Rooted(t, nodes) /\ cur \in nodes /\ Colours(t, nodes, {cur}, cur)
  BY <1>1, <1>2 DEF IInv, Cursor, Coloured, Exempt
<1>5. PICK bh : Heights(t, nodes, bh, Nil, "left")
  BY <1>1, <1>2 DEF IInv, Levelled
<1>6. t \in Trees /\ nodes \subseteq Keys
  BY <1>3 DEF Shape
<1>7. IsPainted(t, {t.root}, {}, t')
  BY <1>1, <1>6, PaintedFacts
<1>8. Colours(t', nodes, {}, Nil) /\ Heights(t', nodes, bh, Nil, "left")
  BY <1>1, <1>3, <1>4, <1>5, <1>7, RootBlackens
<1>9. Shape(t', nodes, lo, hi) /\ Rooted(t', nodes)
  BY <1>3, <1>4, <1>7, PaintedShape
<1>10. Settled(t, Linked)'
  BY <1>2, <1>8, <1>9 DEF Settled
<1>11. size' = Cardinality(nodes) /\ Cardinality(nodes) \in Nat
  <2>1. Cardinality(nodes) \in Nat
    BY <1>6, KeysAssumption, FS_Subset, FS_CardinalityType
  <2>2. QED
    BY <1>1, <1>2, <2>1 DEF IInv, Sized
<1>12. TypeOK'
  BY <1>1, <1>6, <1>7, <1>11 DEF TypeOK, IsPainted
<1>13. Clean'
  BY <1>1, <1>7 DEF IInv, Clean, IsPainted, HasColours
<1>14. (\E l, h : Shape(t, Linked, l, h) /\ At(l, h))'
  BY <1>1, <1>2, <1>9 DEF At
<1>15. QED
  BY <1>1, <1>10, <1>11, <1>12, <1>13, <1>14, RestGivesNext DEF AtRest

-----------------------------------------------------------------------------
\* Deletion keeps the invariant.

(* If nothing is below Nil, it does not matter on which side it is owed. *)
LEMMA OwedNowhere ==
  ASSUME NEW tr, NEW N, Nil \notin N, NEW bh, NEW q, Heights(tr, N, bh, Nil, q)
  PROVE  Heights(tr, N, bh, Nil, "left")
<1>1. \A n \in N, z \in Side : bh[n] = Hgt(tr, bh, tr.child[z][n]) + 0
  BY DEF Heights
<1>2. QED
  BY <1>1 DEF Heights

\* What a deletion leaves behind in a tree with the nodes N, when it goes on
\* to mend it at x below p.
Short(r, N, x, p) ==
  /\ \E l, h : Shape(r, N, l, h)
  /\ Rooted(r, N) /\ Colours(r, N, {x}, x)
  /\ x \in N \cup {Nil} /\ (x # r.root => p \in N)
  /\ IF x = r.root THEN \E h : Heights(r, N, h, Nil, "left")
     ELSE \E h, z : z \in Side /\ r.child[z][p] = x /\ Heights(r, N, h, p, z)

(* The deletion of a node that has a child on one side at most. *)
LEMMA SpliceLeaves ==
  ASSUME NEW tr, NEW N, NEW lo, NEW hi, Shape(tr, N, lo, hi), NEW d \in N,
         NEW o \in Side, tr.child[o][d] = Nil, NEW c, c = tr.child[Other(o)][d],
         NEW r, HasReplaced(tr, d, c, r), Settled(tr, N)
  PROVE  /\ tr.red[d] => Settled(r, N \ {d})
         /\ ~ tr.red[d] => Short(r, N \ {d}, c, tr.father[d])
         /\ Untouched(tr, r, N) /\ c \in (N \ {d}) \cup {Nil}
<1>1. Nil \notin N /\ N \subseteq Keys /\ Other(o) \in Side
  BY KeysAssumption DEF Shape, Other, Side
<1>2. c \in (N \ {d}) \cup {Nil} /\ (c # Nil => tr.father[c] = d)
  BY <1>1, Neighbours
<1>3. PICK bh : Heights(tr, N, bh, Nil, "left")
  BY DEF Settled
<1>4. Rooted(tr, N) /\ Colours(tr, N, {}, Nil)
  BY DEF Settled
<1>5. (\E l, h : Shape(r, N \ {d}, l, h)) /\ Rooted(r, N \ {d})
  BY <1>4, SpliceShape
<1>6. /\ tr.red[d] => /\ Colours(r, N \ {d}, {}, Nil)
                      /\ Heights(r, N \ {d}, bh, Nil, "left")
      /\ ~ tr.red[d] => /\ Colours(r, N \ {d}, {c}, c)
                        /\ Heights(r, N \ {d}, bh, tr.father[d], SideOf(tr, d))
  BY <1>3, <1>4, SpliceColours
<1>7. tr.red[d] => Settled(r, N \ {d})
  BY <1>5, <1>6 DEF Settled
<1>8. ASSUME ~ tr.red[d] PROVE Short(r, N \ {d}, c, tr.father[d])
  <2> DEFINE f == tr.father[d]
             z == SideOf(tr, d)
  <2>1. r.root = (IF f = Nil THEN c ELSE tr.root) /\ tr \in Trees
    BY DEF HasReplaced, Shape
  <2>2. f # Nil => f \in N \ {d} /\ z \in Side
    BY BelowFather
  <2>3. f # Nil => r.child[z][f] = c
    BY <1>1, <2>2 DEF HasReplaced
  <2> HIDE DEF f, z
  <2>4. f # Nil => c # r.root
    <3> SUFFICES ASSUME f # Nil, c = tr.root PROVE FALSE
      BY <2>1
    <3>1. N # {} /\ N \in SUBSET N /\ Upward(tr, N)
      BY DEF Upward, Shape, Joined
    <3>2. tr.root \in N
      BY <3>1, UpwardHasRoot
    <3>3. QED
      BY <1>1, <1>2, <1>4, <3>2 DEF Rooted
  <2>5. c # r.root => f \in N \ {d}
    BY <2>1, <2>2
  <2>6. Heights(r, N \ {d}, bh, f, z)
    BY <1>6, <1>8 DEF f, z
  <2>7. CASE f = Nil
    <3>1. Heights(r, N \ {d}, bh, Nil, "left")
      BY <1>1, <2>6, <2>7, OwedNowhere
    <3>2. c = r.root
      BY <2>1, <2>7
    <3>3. QED
      BY <1>2, <1>5, <1>6, <1>8, <3>1, <3>2 DEF Short
  <2>8. CASE f # Nil
    <3>1. Short(r, N \ {d}, c, f)
      BY <1>2, <1>5, <1>6, <1>8, <2>2, <2>3, <2>4, <2>5, <2>6, <2>8 DEF Short
    <3>2. QED
      BY <3>1 DEF f
  <2>9. QED
    BY <2>7, <2>8
<1>9. Untouched(tr, r, N)
  BY <1>2, ReplacedElsewhere
<1>10. QED
  BY <1>2, <1>7, <1>8, <1>9

(* The deletion of a node with two children. *)
LEMMA SuccessorLeaves ==
  ASSUME NEW N, NEW lo, NEW hi, Shape(t, N, lo, hi), NEW d \in N, Settled(t, N),
         t.child["right"][d] # Nil, t.child["left"][d] # Nil,
         NEW y, y = Minimum(t, t.child["right"][d]),
         NEW x, t.child["right"][y] = x,
         NEW r, r = WithSuccessor(d, y), NEW q, q = Renamed(d, y, t.father[y])
  PROVE  /\ t.red[y] => Settled(r, N \ {d})
         /\ ~ t.red[y] => Short(r, N \ {d}, x, q)
         /\ Untouched(t, r, N) /\ x \in (N \ {d}) \cup {Nil} /\ q \in N \ {d}
<1>1. PICK bh : Heights(t, N, bh, Nil, "left")
  BY DEF Settled
<1>2. Rooted(t, N) /\ Colours(t, N, {}, Nil)
  BY DEF Settled
<1>3. /\ \E l, h : Shape(r, N \ {d}, l, h)
      /\ Rooted(r, N \ {d}) /\ Untouched(t, r, N) /\ y \in N /\ y # d
      /\ x \in (N \ {d}) \cup {Nil} /\ q \in N \ {d}
      /\ t.red[y] => /\ Colours(r, N \ {d}, {}, Nil)
                     /\ \E h : Heights(r, N \ {d}, h, Nil, "left")
      /\ ~ t.red[y] => /\ Colours(r, N \ {d}, {x}, x)
                       /\ \E h, z : /\ z \in Side /\ r.child[z][q] = x
                                    /\ Heights(r, N \ {d}, h, q, z)
  BY <1>1, <1>2, SuccessorTakesOver
<1>4. ASSUME ~ t.red[y] PROVE x # r.root
  <2> SUFFICES ASSUME x = r.root PROVE FALSE
    OBVIOUS
  <2> DEFINE M == N \ {d}
  <2>1. PICK l, h : Shape(r, M, l, h)
    BY <1>3
  <2>2. PICK z \in Side : r.child[z][q] = x
    BY <1>3, <1>4
  <2>3. q \in M /\ Rooted(r, M) /\ Nil \notin M
    BY <1>3, KeysAssumption DEF Shape
  <2> HIDE DEF M
  <2>4. M # {} /\ M \in SUBSET M /\ Upward(r, M)
    BY <2>1, <2>3 DEF Upward, Shape, Joined
  <2>5. r.root \in M
    BY <2>1, <2>4, UpwardHasRoot
  <2>6. r.father[x] = q
    <3>1. r.child[z][q] # Nil
      BY <2>2, <2>3, <2>5
    <3>2. r.father[r.child[z][q]] = q
      BY <2>1, <2>3, <3>1 DEF Shape, Joined
    <3>3. QED
      BY <2>2, <3>2
  <2>7. QED
    BY <2>3, <2>5, <2>6 DEF Rooted
<1>5. QED
  BY <1>3, <1>4 DEF Settled, Short

(* After either, the invariant holds with delete_fixup or the free to come. *)
LEMMA UnlinkedIInv ==
  ASSUME IInv, pc = "delete", key \in nodes, t' \in Trees, Untouched(t, t', nodes),
         nodes' = nodes, size' = size, key' = key, size = Cardinality(nodes),
         cur' \in Keys \cup {Nil}, prev' \in Keys \cup {Nil},
         \/ pc' = "deleteFree" /\ Settled(t', nodes \ {key})
         \/ pc' = "deleteFixup" /\ Short(t', nodes \ {key}, cur', prev')
  PROVE  IInv'
<1>1. Linked' = nodes \ {key} /\ ~ Emptying'
  BY DEF Linked, Emptying
<1>2. TypeOK'
  BY DEF IInv, TypeOK
<1>3. Clean'
  <2>1. nodes \subseteq Keys
    BY DEF IInv, TypeOK
  <2>2. QED
    BY <2>1, CleanStays DEF IInv
<1>4. CASE pc' = "deleteFree"
  <2>1. Settled(t, Linked)'
    BY <1>1, <1>4
  <2>2. (\E lo, hi : Shape(t, Linked, lo, hi) /\ At(lo, hi))'
    BY <1>4, <2>1 DEF Settled, At
  <2>3. QED
    BY <1>2, <1>3, <1>4, <2>1, <2>2, RestGivesNext DEF AtRest
<1>5. CASE pc' = "deleteFixup"
  <2>1. Short(t', nodes \ {key}, cur', prev')
    BY <1>5
  <2>2. Cursor'
    BY <1>1, <1>5, <2>1 DEF Cursor, Short
  <2>3. Sized'
    <3>1. Cardinality(nodes) \in Nat
      BY KeysAssumption, FS_Subset, FS_CardinalityType DEF IInv, TypeOK
    <3>2. QED
      BY <1>5, <3>1 DEF Sized
  <2>4. InOrder'
    BY <1>1, <1>5, <2>1 DEF InOrder, At, Short
  <2>5. Coloured'
    <3>1. Exempt' = {k \in Linked' : cur' \in {k, t'.father[k]}}
      BY <1>5 DEF Exempt
    <3>2. Colours(t', Linked', {cur'}, cur')
      BY <1>1, <2>1 DEF Short
    <3>3. Colours(t', Linked', Exempt', cur')
      BY <3>1, <3>2 DEF Colours
    <3>4. QED
      BY <1>5, <3>3 DEF Coloured
  <2>6. Levelled'
    BY <1>1, <1>5, <2>1 DEF Levelled, Short
  <2>7. QED
    BY <1>1, <1>2, <1>3, <2>1, <2>2, <2>3, <2>4, <2>5, <2>6 DEF IInv, Short
<1>6. QED
  BY <1>4, <1>5

(* A delete unlinks its node; what is owed then is owed where delete_fixup starts. *)
LEMMA DeleteUnlinkIInv ==
  ASSUME IInv, DeleteUnlink
  PROVE  IInv'
<1> DEFINE d      == cur
           only   == IF t.child["left"][d] = Nil THEN "right" ELSE "left"
           simple == \E s \in Side : t.child[s][d] = Nil
           y      == IF simple THEN d ELSE Minimum(t, t.child["right"][d])
<1>1. /\ pc = "delete" /\ cur = key
      /\ t' = IF simple THEN Transplanted(t, d, t.child[only][d]) ELSE WithSuccessor(d, y)
      /\ cur' = IF simple THEN t.child[only][d] ELSE t.child["right"][y]
      /\ prev' = IF ~simple /\ t.father[y] = d THEN y ELSE t.father[y]
      /\ pc' = IF t.red[y] THEN "deleteFree" ELSE "deleteFixup"
      /\ nodes' = nodes /\ size' = size /\ key' = key
  BY DEF DeleteUnlink, Unbalanced
<1>2. Settled(t, nodes) /\ Linked = nodes /\ size = Cardinality(nodes)
  BY <1>1, SettledIs DEF Searching
<1>3. PICK lo, hi : Shape(t, nodes, lo, hi) /\ At(lo, hi)
  BY <1>2 DEF IInv, InOrder
<1>4. d \in nodes /\ d = key /\ d \in Keys /\ d # Nil
  <2>1. key \in Keys
    BY <1>1, <1>3 DEF At
  <2>2. cur # Nil
    BY <1>1, <2>1, KeysAssumption
  <2>3. QED
    BY <1>1, <1>3, <2>1, <2>2, SearchIsAtNode
<1>5. t \in Trees /\ nodes \subseteq Keys /\ Nil \notin Keys
  BY <1>3, KeysAssumption DEF Shape
<1>6. CASE simple
  <2> DEFINE o == Other(only)
             c == t.child[only][d]
  <2>1. o \in Side /\ Other(o) = only /\ only \in Side /\ t.child[o][d] = Nil
    BY <1>6 DEF Side, Other
  <2>2. t' = Transplanted(t, d, c) /\ cur' = c /\ y = d /\ prev' = t.father[d]
    BY <1>1, <1>6
  <2>3. c \in Ptrs /\ t.father[d] \in Ptrs
    BY <1>4, <1>5, <2>1, TreeTypes
  <2>4. c = t.child[Other(o)][d]
    BY <2>1
  <2>5. pc' = IF t.red[d] THEN "deleteFree" ELSE "deleteFixup"
    BY <1>1, <2>2
  <2> HIDE DEF o, c, only, simple, y
  <2>6. HasReplaced(t, d, c, t')
    BY <1>4, <1>5, <2>2, <2>3, TransplantedFacts
  <2>7. /\ t.red[d] => Settled(t', nodes \ {d})
        /\ ~ t.red[d] => Short(t', nodes \ {d}, c, t.father[d])
        /\ Untouched(t, t', nodes) /\ c \in (nodes \ {d}) \cup {Nil}
    <3> HIDE DEF d
    <3>1. QED
      BY <1>2, <1>3, <1>4, <2>1, <2>4, <2>6, SpliceLeaves
  <2>8. t' \in Trees
    BY <2>6 DEF HasReplaced
  <2>9. \/ pc' = "deleteFree" /\ Settled(t', nodes \ {key})
        \/ pc' = "deleteFixup" /\ Short(t', nodes \ {key}, cur', prev')
    BY <1>4, <2>2, <2>5, <2>7
  <2>10. QED
    BY <1>1, <1>2, <1>4, <2>2, <2>3, <2>7, <2>8, <2>9, UnlinkedIInv DEF Ptrs
<1>7. CASE ~ simple
  <2> DEFINE q == Renamed(d, y, t.father[y])
             x == t.child["right"][y]
  <2>1. t.child["right"][d] # Nil /\ t.child["left"][d] # Nil
    BY <1>7 DEF Side
  <2>2. /\ y = Minimum(t, t.child["right"][d]) /\ t' = WithSuccessor(d, y) /\ cur' = x
        /\ prev' = q
    BY <1>1, <1>7 DEF Renamed
  <2>3. pc' = IF t.red[y] THEN "deleteFree" ELSE "deleteFixup"
    BY <1>1
  <2>4. q = Renamed(d, y, t.father[y]) /\ t.child["right"][y] = x
    OBVIOUS
  <2> HIDE DEF q, x, only, simple, y, d
  <2>5. /\ t.red[y] => Settled(t', nodes \ {d})
        /\ ~ t.red[y] => Short(t', nodes \ {d}, x, q)
        /\ Untouched(t, t', nodes) /\ x \in (nodes \ {d}) \cup {Nil} /\ q \in nodes \ {d}
    BY <1>2, <1>3, <1>4, <2>1, <2>2, <2>4, SuccessorLeaves
  <2>6. t' \in Trees
    BY <2>3, <2>5 DEF Settled, Short, Shape
  <2>7. \/ pc' = "deleteFree" /\ Settled(t', nodes \ {key})
        \/ pc' = "deleteFixup" /\ Short(t', nodes \ {key}, cur', prev')
    BY <1>4, <2>2, <2>3, <2>5
  <2>8. cur' \in Keys \cup {Nil} /\ prev' \in Keys \cup {Nil} /\ key \in nodes
    BY <1>4, <1>5, <2>2, <2>5
  <2>9. QED
    BY <1>1, <1>2, <2>5, <2>6, <2>7, <2>8, UnlinkedIInv
<1>8. QED
  BY <1>6, <1>7

\* A tree that is one black short below u on side s, and sound elsewhere.
Owing(tr, N, u, s, bh) ==
  /\ \E l, h : Shape(tr, N, l, h)
  /\ Rooted(tr, N) /\ Colours(tr, N, {}, Nil) /\ Heights(tr, N, bh, u, s)

(* The turn of delete_fixup at a node that is not red and not the root. *)
LEMMA FixupTurn ==
  ASSUME IInv, pc = "deleteFixup", cur # t.root, ~ Red(t, cur)
  PROVE  /\ prev \in Linked
         /\ \E bh : Owing(t, Linked, prev, IF cur = t.child["left"][prev] THEN "left" ELSE "right", bh)
         /\ cur = t.child[IF cur = t.child["left"][prev] THEN "left" ELSE "right"][prev]
<1> DEFINE s == IF cur = t.child["left"][prev] THEN "left" ELSE "right"
<1>1. ~ Emptying
  BY DEF Emptying
<1>2. PICK lo, hi : Shape(t, Linked, lo, hi)
  BY DEF IInv, InOrder
<1>3. Rooted(t, Linked) /\ prev \in Linked
  BY <1>1 DEF IInv, Cursor
<1>4. Exempt = {k \in Linked : cur \in {k, t.father[k]}} /\ Colours(t, Linked, Exempt, cur)
  BY <1>1 DEF IInv, Coloured, Exempt
<1>5. Nil \notin Linked
  BY <1>2, KeysAssumption DEF Shape
<1>6. Colours(t, Linked, {}, Nil)
  <2>1. ASSUME NEW k \in Linked, t.red[k], Red(t, t.father[k]) PROVE FALSE
    <3>1. k \in Exempt
      BY <1>4, <2>1 DEF Colours
    <3>2. cur \in {k, t.father[k]}
      BY <1>4, <3>1
    <3>3. QED
      BY <1>5, <2>1, <3>2 DEF Red
  <2>2. ~ Red(t, t.root)
    BY <1>4 DEF Colours
  <2>3. QED
    BY <2>1, <2>2 DEF Colours
<1>7. PICK bh, q : q \in Side /\ t.child[q][prev] = cur /\ Heights(t, Linked, bh, prev, q)
  BY <1>1 DEF IInv, Levelled
<1>8. t.child[Other(q)][prev] # Nil
  BY <1>2, <1>3, <1>7, SiblingThere
<1>9. t.child[Other(q)][prev] # cur
  <2>1. Other(q) \in Side /\ Other(Other(q)) = q
    BY <1>7 DEF Side, Other
  <2> DEFINE o == Other(q)
  <2>2. t.child[Other(o)][prev] # t.child[o][prev]
    <3>1. o \in Side /\ t.child[o][prev] # Nil
      BY <1>8, <2>1
    <3> HIDE DEF o
    <3>2. QED
      BY <1>2, <1>3, <3>1, Neighbours
  <2>3. QED
    BY <1>7, <2>1, <2>2
<1>10. q = s
  BY <1>7, <1>9 DEF Side, Other
<1> HIDE DEF s
<1>11. Owing(t, Linked, prev, s, bh)
  BY <1>2, <1>3, <1>6, <1>7, <1>10 DEF Owing
<1>12. cur = t.child[s][prev]
  BY <1>7, <1>10
<1>13. QED
  BY <1>3, <1>11, <1>12 DEF s

\* r is tr with its black sibling up, if the sibling of the child was red.
SiblingLifted(tr, u, s, r) ==
  r = IF Red(tr, tr.child[Other(s)][u])
      THEN Rotated(Painted(tr, {tr.child[Other(s)][u]}, {u}), u, s) ELSE tr

(* First turn: a red sibling is rotated away, so that the sibling is black. *)
LEMMA BlackSibling ==
  ASSUME NEW tr, NEW N, NEW u \in N, NEW s \in Side, NEW bh, Owing(tr, N, u, s, bh),
         ~ Red(tr, tr.child[s][u]),
         NEW r, SiblingLifted(tr, u, s, r)
  PROVE  /\ Owing(r, N, u, s, bh) /\ r.child[s][u] = tr.child[s][u]
         /\ r.child[Other(s)][u] # Nil /\ ~ Red(r, r.child[Other(s)][u])
         /\ Untouched(tr, r, N)
<1> DEFINE w == tr.child[Other(s)][u]
           p == Painted(tr, {w}, {u})
<1>1. PICK lo, hi : Shape(tr, N, lo, hi)
  BY DEF Owing
<1>2. tr \in Trees
  BY <1>1 DEF Shape
<1>3. CASE Red(tr, w)
  <2>1. Rotated(p, u, s) = r /\ w = tr.child[Other(s)][u]
    BY <1>3 DEF SiblingLifted
  <2>2. IsPainted(tr, {w}, {u}, p)
    <3> HIDE DEF w
    <3>1. QED
      BY <1>2, PaintedFacts
  <2> HIDE DEF w, p
  <2>3. /\ Rooted(tr, N) /\ Colours(tr, N, {}, Nil) /\ Heights(tr, N, bh, u, s) /\ Red(tr, w)
    BY <1>3 DEF Owing, w
  <2>4. /\ \E l, h : Shape(r, N, l, h)
        /\ Rooted(r, N) /\ Colours(r, N, {}, Nil) /\ Heights(r, N, bh, u, s)
        /\ r.child[s][u] = tr.child[s][u] /\ ~ Red(r, r.child[Other(s)][u])
        /\ Untouched(tr, r, N)
    BY <1>1, <2>1, <2>2, <2>3, RedSiblingRotates
  <2>5. r.child[Other(s)][u] # Nil
    BY <2>4, SiblingThere
  <2>6. QED
    BY <2>4, <2>5 DEF Owing
<1>4. CASE ~ Red(tr, w)
  <2>1. r = tr
    BY <1>4 DEF SiblingLifted
  <2>2. tr.child[Other(s)][u] # Nil
    BY <1>1, SiblingThere DEF Owing
  <2>3. Untouched(tr, tr, N)
    BY DEF Untouched
  <2>4. QED
    BY <1>4, <2>1, <2>2, <2>3
<1>5. QED
  BY <1>3, <1>4

(* Second turn: the far child of the black sibling is red, or made so. *)
LEMMA FarRed ==
  ASSUME NEW tr, NEW N, NEW u \in N, NEW s \in Side, NEW bh, Owing(tr, N, u, s, bh),
         NEW w, tr.child[Other(s)][u] = w, w # Nil, ~ Red(tr, w),
         Red(tr, tr.child[Other(s)][w]) \/ Red(tr, tr.child[s][w]),
         NEW r, r = IF Red(tr, tr.child[Other(s)][w]) THEN tr
                    ELSE Rotated(Painted(tr, {tr.child[s][w]}, {w}), w, Other(s))
  PROVE  /\ Owing(r, N, u, s, bh)
         /\ r.child[Other(s)][u] # Nil /\ ~ r.red[r.child[Other(s)][u]]
         /\ Red(r, r.child[Other(s)][r.child[Other(s)][u]])
         /\ Untouched(tr, r, N)
<1>1. PICK lo, hi : Shape(tr, N, lo, hi)
  BY DEF Owing
<1>2. tr \in Trees /\ ~ tr.red[w] /\ w \in N
  BY <1>1 DEF Shape, Joined, Red, Other, Side
<1>3. CASE Red(tr, tr.child[Other(s)][w])
  <2>1. r = tr
    BY <1>3
  <2>2. Untouched(tr, tr, N)
    BY DEF Untouched
  <2>3. QED
    BY <1>2, <1>3, <2>1, <2>2
<1>4. CASE ~ Red(tr, tr.child[Other(s)][w])
  <2> DEFINE c == tr.child[s][w]
             p == Painted(tr, {c}, {w})
  <2>1. Rotated(p, w, Other(s)) = r /\ tr.child[s][w] = c /\ Red(tr, c)
    BY <1>4
  <2>2. IsPainted(tr, {c}, {w}, p)
    <3> HIDE DEF c
    <3>1. QED
      BY <1>2, PaintedFacts
  <2> HIDE DEF c, p
  <2>3. /\ \E l, h : Shape(r, N, l, h)
        /\ Rooted(r, N) /\ Colours(r, N, {}, Nil) /\ Heights(r, N, bh, u, s)
        /\ r.child[s][u] = tr.child[s][u]
        /\ r.child[Other(s)][u] = c /\ ~ r.red[c] /\ Red(r, r.child[Other(s)][c])
        /\ Untouched(tr, r, N)
    BY <1>1, <1>2, <1>4, <2>1, <2>2, NearRedRotates DEF Owing
  <2>4. QED
    BY <2>1, <2>3 DEF Owing, Red
<1>5. QED
  BY <1>3, <1>4

(* The invariant after a turn, which changes no more than the tree, the place
   and the debt. *)
LEMMA TurnedIInv ==
  ASSUME IInv, pc = "deleteFixup", pc' = pc, nodes' = nodes, size' = size, key' = key,
         prev' \in Keys \cup {Nil}, Untouched(t, t', nodes),
         \E l, h : Shape(t', Linked, l, h), Rooted(t', Linked),
         NEW V, Colours(t', Linked, V, Nil), \A k \in V \cap Linked : cur' \in {k, t'.father[k]},
         cur' \in Linked \cup {Nil}, cur' # t'.root => prev' \in Linked,
         IF cur' = t'.root THEN \E bh : Heights(t', Linked, bh, Nil, "left")
         ELSE \E bh, q : q \in Side /\ t'.child[q][prev'] = cur' /\ Heights(t', Linked, bh, prev', q)
  PROVE  IInv'
<1>1. Linked' = Linked /\ ~ Emptying' /\ Linked \subseteq nodes /\ nodes \subseteq Keys
  BY DEF Linked, Emptying, IInv, TypeOK
<1>2. TypeOK'
  BY <1>1 DEF IInv, TypeOK, Shape
<1>3. Clean'
  BY <1>1, CleanStays DEF IInv
<1>4. Cursor'
  BY <1>1 DEF IInv, Cursor
<1>5. Sized'
  BY DEF IInv, Sized, Emptying
<1>6. InOrder'
  BY <1>1 DEF InOrder, At
<1>7. Coloured'
  <2>1. Exempt' = {k \in Linked : cur' \in {k, t'.father[k]}}
    BY <1>1 DEF Exempt
  <2>2. Red(t', t'.root) => t'.root = cur'
    BY DEF Colours, Red
  <2>3. Colours(t', Linked, Exempt', cur')
    BY <2>1, <2>2 DEF Colours
  <2>4. QED
    BY <1>1, <2>3 DEF Coloured
<1>8. Levelled'
  BY <1>1 DEF Levelled
<1>9. QED
  BY <1>1, <1>2, <1>3, <1>4, <1>5, <1>6, <1>7, <1>8 DEF IInv

(* One turn of delete_fixup moves the debt one level up, or pays it. *)
LEMMA DeleteFixupIInv ==
  ASSUME IInv, DeleteFixup
  PROVE  IInv'
<1> DEFINE s    == IF cur = t.child["left"][prev] THEN "left" ELSE "right"
           o    == Other(s)
           redW == Red(t, t.child[o][prev])
           t1   == IF redW THEN Rotated(Painted(t, {t.child[o][prev]}, {prev}), prev, s) ELSE t
           w1   == t1.child[o][prev]
           far  == Red(t1, t1.child[o][w1])
           near == Red(t1, t1.child[s][w1])
           t2   == IF far THEN t1 ELSE Rotated(Painted(t1, {t1.child[s][w1]}, {w1}), w1, o)
           w2   == t2.child[o][prev]
           t3   == Painted(t2, {prev, t2.child[o][w2]} \cup (IF t2.red[prev] THEN {} ELSE {w2}),
                               IF t2.red[prev] THEN {w2} ELSE {})
           N    == Linked
<1>1. /\ pc = "deleteFixup" /\ cur # t.root /\ ~ Red(t, cur)
      /\ CASE w1 = Nil -> pc' = "crashed" /\ UNCHANGED << t, cur, prev >>
           [] w1 # Nil /\ ~far /\ ~near ->
                /\ t' = Painted(t1, {}, {w1})
                /\ cur' = prev /\ prev' = t1.father[prev] /\ UNCHANGED pc
           [] OTHER ->
                /\ t' = Rotated(t3, prev, s)
                /\ cur' = t'.root /\ UNCHANGED << pc, prev >>
      /\ nodes' = nodes /\ size' = size /\ key' = key
  BY DEF DeleteFixup
<1>2. PICK bh : prev \in N /\ Owing(t, N, prev, s, bh) /\ cur = t.child[s][prev]
  BY <1>1, FixupTurn
<1>3. s \in Side /\ o \in Side /\ o # s /\ \A z \in Side : z = s \/ z = o
  BY DEF Side, Other
<1>4. o = Other(s) /\ SiblingLifted(t, prev, s, t1)
  BY DEF SiblingLifted
<1>5. /\ w1 = t1.child[o][prev] /\ (far <=> Red(t1, t1.child[o][w1]))
      /\ (near <=> Red(t1, t1.child[s][w1]))
  OBVIOUS
<1>6. /\ t2 = IF far THEN t1 ELSE Rotated(Painted(t1, {t1.child[s][w1]}, {w1}), w1, o)
      /\ w2 = t2.child[o][prev]
  OBVIOUS
<1>7. t3 = Painted(t2, {prev, t2.child[o][w2]} \cup (IF t2.red[prev] THEN {} ELSE {w2}),
                       IF t2.red[prev] THEN {w2} ELSE {})
  OBVIOUS
<1> HIDE DEF t3, w2, t2, near, far, w1, t1, redW, o, s
<1>8. N \subseteq nodes /\ nodes \subseteq Keys /\ Nil \notin Keys
  BY KeysAssumption DEF IInv, TypeOK, Linked
<1> HIDE DEF N
<1>9. /\ Owing(t1, N, prev, s, bh) /\ t1.child[s][prev] = cur
      /\ w1 # Nil /\ ~ Red(t1, w1) /\ Untouched(t, t1, N)
  <2>1. ~ Red(t, t.child[s][prev])
    BY <1>1, <1>2
  <2>2. /\ Owing(t1, N, prev, s, bh) /\ t1.child[s][prev] = t.child[s][prev]
        /\ t1.child[Other(s)][prev] # Nil /\ ~ Red(t1, t1.child[Other(s)][prev])
        /\ Untouched(t, t1, N)
    BY <1>2, <1>3, <1>4, <2>1, BlackSibling
  <2>3. QED
    BY <1>2, <1>4, <1>5, <2>2
<1>10. PICK lo, hi : Shape(t1, N, lo, hi)
  BY <1>9 DEF Owing
<1>11. t1 \in Trees /\ t1.child[Other(s)][prev] = w1 /\ ~ t1.red[w1]
  BY <1>4, <1>5, <1>9, <1>10 DEF Shape, Red
<1>12. CASE ~ far /\ ~ near
  <2>1. t' = Painted(t1, {}, {w1}) /\ cur' = prev /\ prev' = t1.father[prev] /\ pc' = pc
    BY <1>1, <1>9, <1>12
  <2>2. IsPainted(t1, {}, {w1}, t')
    BY <1>11, <2>1, PaintedFacts
  <2>3. \A z \in Side : ~ Red(t1, t1.child[z][w1])
    BY <1>3, <1>5, <1>12
  <2>4. /\ Shape(t', N, lo, hi) /\ Rooted(t', N) /\ Colours(t', N, {w1}, Nil)
        /\ w1 \in N /\ t'.father[w1] = prev
        /\ \E h : Heights(t', N, h, t1.father[prev], SideOf(t1, prev))
        /\ Untouched(t1, t', N)
    BY <1>2, <1>3, <1>9, <1>10, <1>11, <2>2, <2>3, SiblingReddens DEF Owing
  <2>5. t'.root = t1.root /\ t'.child = t1.child /\ t'.father = t1.father
    BY <2>2 DEF IsPainted
  <2>6. /\ prev' = Nil => prev = t1.root
        /\ prev' # Nil => prev' \in N /\ SideOf(t1, prev) \in Side
                          /\ t1.child[SideOf(t1, prev)][prev'] = prev
    BY <1>2, <1>10, <2>1, BelowFather
  <2>7. /\ cur' # t'.root => prev' \in N
        /\ prev' \in Keys \cup {Nil}
    BY <1>8, <2>1, <2>5, <2>6
  <2>8. IF cur' = t'.root THEN \E h : Heights(t', N, h, Nil, "left")
        ELSE \E h, q : q \in Side /\ t'.child[q][prev'] = cur' /\ Heights(t', N, h, prev', q)
    <3>1. PICK h : Heights(t', N, h, prev', SideOf(t1, prev))
      BY <2>1, <2>4
    <3>2. CASE prev' = Nil
      <4>1. Heights(t', N, h, Nil, "left")
        BY <1>8, <3>1, <3>2, OwedNowhere
      <4>2. QED
        BY <2>1, <2>5, <2>6, <3>2, <4>1
    <3>3. CASE prev' # Nil
      <4>1. cur' # t'.root
        <5>1. Rooted(t1, N) /\ prev # Nil
          BY <1>2, <1>8, <1>9 DEF Owing
        <5>2. t1.father[prev] # Nil
          BY <2>1, <3>3
        <5>3. QED
          BY <2>1, <2>5, <5>1, <5>2 DEF Rooted
      <4>2. QED
        BY <2>1, <2>5, <2>6, <3>1, <3>3, <4>1
    <3>4. QED
      BY <3>2, <3>3
  <2>9. Untouched(t, t', nodes)
    BY <1>8, <1>9, <2>4 DEF Untouched
  <2>10. \A k \in {w1} \cap N : cur' \in {k, t'.father[k]}
    BY <2>1, <2>4
  <2>11. QED
    BY <1>1, <1>2, <2>1, <2>4, <2>7, <2>8, <2>9, <2>10, TurnedIInv DEF N
<1>13. CASE far \/ near
  <2>1. t' = Rotated(t3, prev, s) /\ cur' = t'.root /\ pc' = pc /\ prev' = prev
    BY <1>1, <1>9, <1>13
  <2>2. /\ Owing(t2, N, prev, s, bh) /\ w2 # Nil /\ ~ t2.red[w2]
        /\ Red(t2, t2.child[Other(s)][w2]) /\ Untouched(t1, t2, N)
    <3>1. t2 = IF Red(t1, t1.child[Other(s)][w1]) THEN t1
               ELSE Rotated(Painted(t1, {t1.child[s][w1]}, {w1}), w1, Other(s))
      BY <1>4, <1>5, <1>6
    <3>2. Red(t1, t1.child[Other(s)][w1]) \/ Red(t1, t1.child[s][w1])
      BY <1>4, <1>5, <1>13
    <3>3. /\ Owing(t2, N, prev, s, bh)
          /\ t2.child[Other(s)][prev] # Nil /\ ~ t2.red[t2.child[Other(s)][prev]]
          /\ Red(t2, t2.child[Other(s)][t2.child[Other(s)][prev]])
          /\ Untouched(t1, t2, N)
      BY <1>2, <1>3, <1>9, <1>11, <3>1, <3>2, FarRed
    <3>4. t2.child[Other(s)][prev] = w2
      BY <1>4, <1>6
    <3>5. QED
      BY <3>3, <3>4
  <2>3. PICK l2, h2 : Shape(t2, N, l2, h2)
    BY <2>2 DEF Owing
  <2> DEFINE c == t2.child[Other(s)][w2]
  <2>4. /\ t2.child[Other(s)][prev] = w2 /\ t2.child[Other(s)][w2] = c /\ Red(t2, c)
        /\ t2 \in Trees /\ Rotated(t3, prev, s) = t'
        /\ t3 = Painted(t2, {prev, c} \cup (IF t2.red[prev] THEN {} ELSE {w2}),
                            IF t2.red[prev] THEN {w2} ELSE {})
    BY <1>4, <1>6, <1>7, <2>1, <2>2, <2>3 DEF Shape
  <2> HIDE DEF c
  <2>5. IsPainted(t2, {prev, c} \cup (IF t2.red[prev] THEN {} ELSE {w2}),
                  IF t2.red[prev] THEN {w2} ELSE {}, t3)
    BY <2>4, PaintedFacts
  <2>6. /\ \E l, h : Shape(t', N, l, h)
        /\ Rooted(t', N) /\ Colours(t', N, {}, Nil)
        /\ \E h : Heights(t', N, h, Nil, "left")
        /\ Untouched(t2, t', N)
    BY <1>2, <1>3, <2>2, <2>3, <2>4, <2>5, LastRotation DEF Owing
  <2>7. Untouched(t, t', nodes)
    BY <1>8, <1>9, <2>2, <2>6 DEF Untouched
  <2>8. cur' \in N \cup {Nil} /\ prev' \in Keys \cup {Nil}
    BY <1>2, <1>8, <2>1, <2>6 DEF Rooted
  <2>9. QED
    BY <1>1, <2>1, <2>6, <2>7, <2>8, TurnedIInv DEF N
<1>14. QED
  BY <1>12, <1>13

(* The node where delete_fixup ends turns black, which pays what is still owed. *)
LEMMA DeleteFixedIInv ==
  ASSUME IInv, DeleteFixed
  PROVE  IInv'
<1>1. /\ pc = "deleteFixup" /\ (cur = t.root \/ Red(t, cur))
      /\ t' = Painted(t, {cur}, {}) /\ pc' = "deleteFree"
      /\ nodes' = nodes /\ size' = size /\ key' = key /\ cur' = cur /\ prev' = prev
  BY DEF DeleteFixed
<1>2. ~ Emptying /\ Linked' = Linked
  BY <1>1 DEF Linked, Emptying
<1>3. PICK lo, hi : Shape(t, Linked, lo, hi)
  BY DEF IInv, InOrder
<1>4. /\ Rooted(t, Linked) /\ key \in nodes /\ cur \in Linked \cup {Nil}
      /\ (cur # t.root => prev \in Linked)
  BY <1>1, <1>2 DEF IInv, Cursor
<1>5. Exempt = {k \in Linked : cur \in {k, t.father[k]}} /\ Colours(t, Linked, Exempt, cur)
  BY <1>1, <1>2 DEF IInv, Coloured, Exempt
<1>6. t \in Trees
  BY <1>3 DEF Shape
<1>7. IsPainted(t, {cur}, {}, t')
  BY <1>1, <1>6, PaintedFacts
<1>8. Colours(t', Linked, {}, Nil) /\ \E bh : Heights(t', Linked, bh, Nil, "left")
  <2>1. CASE cur = t.root
    <3>1. PICK bh : Heights(t, Linked, bh, Nil, "left")
      BY <1>1, <1>2, <2>1 DEF IInv, Levelled
    <3>2. \A k \in Exempt \cap Linked : t.red[k] /\ Red(t, t.father[k]) => t.root \in {k, t.father[k]}
      BY <1>5, <2>1
    <3>3. IsPainted(t, {t.root}, {}, t')
      BY <1>7, <2>1
    <3>4. QED
      BY <1>3, <1>4, <1>5, <3>1, <3>2, <3>3, RootBlackens
  <2>2. CASE cur # t.root
    <3>1. PICK bh, q : q \in Side /\ t.child[q][prev] = cur /\ Heights(t, Linked, bh, prev, q)
      BY <1>1, <1>2, <2>2 DEF IInv, Levelled
    <3>2. \A k \in Exempt : cur \in {k, t.father[k]}
      BY <1>5
    <3>3. cur \in Linked /\ t.red[cur] /\ prev \in Linked
      BY <1>1, <1>4, <2>2 DEF Red
    <3>4. QED
      BY <1>3, <1>5, <1>7, <2>2, <3>1, <3>2, <3>3, DebtPaid
  <2>3. QED
    BY <2>1, <2>2
<1>9. Shape(t', Linked, lo, hi) /\ Rooted(t', Linked)
  BY <1>3, <1>4, <1>7, PaintedShape
<1>10. Settled(t, Linked)'
  BY <1>2, <1>8, <1>9 DEF Settled
<1>11. size' = Cardinality(nodes')
  <2>1. Cardinality(nodes) \in Nat
    BY KeysAssumption, FS_Subset, FS_CardinalityType DEF IInv, TypeOK
  <2>2. QED
    BY <1>1, <1>2, <2>1 DEF IInv, Sized
<1>12. TypeOK'
  BY <1>1, <1>7 DEF IInv, TypeOK, IsPainted
<1>13. Clean'
  BY <1>1, <1>7 DEF IInv, Clean, IsPainted, HasColours
<1>14. (\E l, h : Shape(t, Linked, l, h) /\ At(l, h))'
  BY <1>1, <1>2, <1>9 DEF At
<1>15. QED
  BY <1>1, <1>4, <1>10, <1>11, <1>12, <1>13, <1>14, RestGivesNext DEF AtRest

-----------------------------------------------------------------------------
\* Freeing nodes keeps the invariant.

\* r is tr without the links of k.
HasForgotten(tr, k, r) ==
  /\ r \in Trees /\ r.root = tr.root
  /\ r.father[k] = Nil /\ ~ r.red[k] /\ \A s \in Side : r.child[s][k] = Nil
  /\ \A n \in Keys \ {k} : /\ r.father[n] = tr.father[n] /\ (r.red[n] <=> tr.red[n])
                           /\ \A s \in Side : r.child[s][n] = tr.child[s][n]

(* The record update does what HasForgotten says. *)
LEMMA ForgottenFacts ==
  ASSUME NEW tr \in Trees, NEW k \in Keys
  PROVE  HasForgotten(tr, k, Forgotten(tr, k))
<1> DEFINE c == [s \in Side |-> [tr.child[s] EXCEPT ![k] = Nil]]
           f == [tr.father EXCEPT ![k] = Nil]
           d == [tr.red EXCEPT ![k] = FALSE]
           r == [[[tr EXCEPT !.child = c] EXCEPT !.father = f] EXCEPT !.red = d]
<1>1. tr.child \in [Side -> [Keys -> Ptrs]] /\ tr.father \in [Keys -> Ptrs] /\ tr.red \in [Keys -> BOOLEAN]
  BY DEF Trees, Ptrs
<1>2. c \in [Side -> [Keys -> Ptrs]] /\ f \in [Keys -> Ptrs] /\ d \in [Keys -> BOOLEAN]
  BY <1>1 DEF Ptrs
<1>3. /\ f[k] = Nil /\ \A n \in Keys \ {k} : f[n] = tr.father[n]
      /\ \A s \in Side : c[s][k] = Nil /\ \A n \in Keys \ {k} : c[s][n] = tr.child[s][n]
  BY <1>1
<1>4. ~ d[k] /\ \A n \in Keys \ {k} : d[n] <=> tr.red[n]
  BY <1>1
<1>5. Forgotten(tr, k) = r
  BY DEF Forgotten, Trees
<1> HIDE DEF c, f, d
<1>6. r \in Trees /\ r.root = tr.root /\ r.child = c /\ r.father = f /\ r.red = d
  BY <1>2 DEF Trees, Ptrs
<1> HIDE DEF r
<1>7. HasForgotten(tr, k, r)
  BY <1>3, <1>4, <1>6 DEF HasForgotten
<1>8. QED
  BY <1>5, <1>7

(* A node that is not in the tree leaves nothing behind. *)
LEMMA ForgottenKeeps ==
  ASSUME NEW tr, NEW N, NEW lo, NEW hi, Shape(tr, N, lo, hi), NEW k \in Keys \ N,
         NEW r, HasForgotten(tr, k, r)
  PROVE  Shape(r, N, lo, hi) /\ (Settled(tr, N) => Settled(r, N))
<1>1. N \subseteq Keys /\ Nil \notin N /\ \A n \in N : n \in Keys \ {k}
  BY KeysAssumption DEF Shape
<1>2. /\ r \in Trees /\ r.root = tr.root
      /\ \A n \in N : /\ r.father[n] = tr.father[n] /\ (r.red[n] <=> tr.red[n])
                      /\ \A s \in Side : r.child[s][n] = tr.child[s][n]
  BY <1>1 DEF HasForgotten
<1>3. Shape(r, N, lo, hi)
  <2>1. Joined(r, N)
    BY <1>2 DEF Shape, Joined
  <2>2. Acyclic(r, N)
    BY <1>2 DEF Shape, Acyclic
  <2>3. Bounded(r, N, lo, hi)
    BY <1>2 DEF Shape, Bounded, Side
  <2>4. QED
    BY <1>2, <2>1, <2>2, <2>3 DEF Shape
<1>4. ASSUME Settled(tr, N) PROVE Settled(r, N)
  <2>1. Rooted(r, N)
    BY <1>2, <1>4 DEF Settled, Rooted
  <2>2. \A n \in N : tr.father[n] # Nil => tr.father[n] \in N
    BY DEF Shape, Joined
  <2>3. \A n \in N : Red(r, r.father[n]) => Red(tr, tr.father[n])
    BY <1>2, <2>2 DEF Red
  <2>4. Red(r, r.root) => Red(tr, tr.root)
    BY <1>2, <1>4 DEF Settled, Rooted, Red
  <2>5. Colours(r, N, {}, Nil)
    BY <1>2, <1>4, <2>3, <2>4 DEF Settled, Colours
  <2>6. PICK bh : Heights(tr, N, bh, Nil, "left")
    BY <1>4 DEF Settled
  <2>7. \A n \in N, s \in Side : Hgt(r, bh, r.child[s][n]) = Hgt(tr, bh, tr.child[s][n])
    <3>1. \A n \in N \cup {Nil} : Hgt(r, bh, n) = Hgt(tr, bh, n)
      BY <1>2 DEF Hgt
    <3>2. \A n \in N, s \in Side : tr.child[s][n] \in N \cup {Nil}
      BY DEF Shape, Joined
    <3>3. QED
      BY <1>2, <3>1, <3>2
  <2>8. Heights(r, N, bh, Nil, "left")
    BY <2>6, <2>7 DEF Heights
  <2>9. QED
    BY <1>3, <2>1, <2>5, <2>8 DEF Settled
<1>5. QED
  BY <1>3, <1>4

(* The unlinked node is freed: nothing points to it. *)
LEMMA DeleteFreeIInv ==
  ASSUME IInv, DeleteFree
  PROVE  IInv'
<1>1. /\ pc = "deleteFree" /\ t' = Forgotten(t, key)
      /\ nodes' = nodes \ {key} /\ size' = size - 1
      /\ pc' = "idle" /\ key' = Nil /\ cur' = Nil /\ prev' = Nil
  BY DEF DeleteFree, Return
<1>2. ~ Emptying /\ Linked = nodes \ {key} /\ Linked' = nodes \ {key}
  BY <1>1 DEF Linked, Emptying
<1>3. PICK lo, hi : Shape(t, Linked, lo, hi)
  BY DEF IInv, InOrder
<1>4. key \in nodes /\ nodes \subseteq Keys /\ t \in Trees
  BY <1>1 DEF IInv, Cursor, TypeOK
<1>5. HasForgotten(t, key, t')
  BY <1>1, <1>4, ForgottenFacts
<1>6. Settled(t, Linked)
  BY <1>1, <1>2 DEF IInv, InOrder, Settled, Coloured, Exempt, Levelled
<1>7. Shape(t', Linked, lo, hi) /\ Settled(t', Linked)
  BY <1>2, <1>3, <1>4, <1>5, <1>6, ForgottenKeeps
<1>8. IsFiniteSet(nodes) /\ Cardinality(nodes) \in Nat
  BY <1>4, KeysAssumption, FS_Subset, FS_CardinalityType
<1>9. size' = Cardinality(nodes') /\ size' \in Nat
  <2>1. Cardinality(nodes \ {key}) = Cardinality(nodes) - 1 /\ IsFiniteSet(nodes \ {key})
    BY <1>4, <1>8, FS_RemoveElement, FS_Subset
  <2>2. Cardinality(nodes \ {key}) \in Nat
    BY <2>1, FS_CardinalityType
  <2>3. size = Cardinality(nodes)
    BY <1>1, <1>2, <1>8 DEF IInv, Sized
  <2>4. QED
    BY <1>1, <2>1, <2>2, <2>3
<1>10. TypeOK'
  BY <1>1, <1>4, <1>5, <1>9 DEF TypeOK, HasForgotten
<1>11. Clean'
  BY <1>1, <1>4, <1>5 DEF IInv, Clean, HasForgotten
<1>12. Settled(t, Linked)' /\ (\E l, h : Shape(t, Linked, l, h) /\ At(l, h))'
  BY <1>1, <1>2, <1>7 DEF At
<1>13. QED
  BY <1>1, <1>9, <1>10, <1>11, <1>12, RestGivesNext DEF AtRest

\* A walk that empties the tree keeps its shape, and no more.
LEMMA WalkGives ==
  ASSUME TypeOK', Clean', pc' \in {"clear", "free"},
         \E lo, hi : Shape(t', nodes', lo, hi),
         cur' \in nodes' \cup {Nil}, nodes' # {} => cur' \in nodes'
  PROVE  IInv'
<1>1. Emptying' /\ Linked' = nodes'
  BY DEF Emptying, Linked
<1>2. Cursor'
  BY DEF Cursor
<1>3. Sized'
  BY <1>1 DEF Sized
<1>4. InOrder'
  BY <1>1 DEF InOrder, At
<1>5. QED
  BY <1>1, <1>2, <1>3, <1>4 DEF IInv

(* clear and free start their walk at the root with every node linked. *)
LEMMA EmptyCallIInv ==
  ASSUME IInv, NEW op \in {"clear", "free"}, EmptyCall(op)
  PROVE  IInv'
<1>1. /\ pc = "idle" /\ pc' = op /\ cur' = t.root /\ prev' = Nil
      /\ t' = t /\ nodes' = nodes /\ size' = size /\ key' = key
  BY DEF EmptyCall
<1>2. Settled(t, nodes)
  BY <1>1, SettledIs DEF Searching
<1>3. PICK lo, hi : Shape(t, nodes, lo, hi)
  BY <1>2 DEF Settled
<1>4. t.root \in nodes \cup {Nil}
  BY <1>2 DEF Settled, Rooted
<1>5. nodes # {} => t.root \in nodes
  <2>1. nodes \in SUBSET nodes /\ Upward(t, nodes)
    BY <1>3 DEF Upward, Shape, Joined
  <2>2. QED
    BY <1>3, <2>1, UpwardHasRoot
<1>6. TypeOK'
  BY <1>1, <1>4 DEF IInv, TypeOK
<1>7. Clean'
  BY <1>1 DEF IInv, Clean
<1>8. QED
  BY <1>1, <1>3, <1>4, <1>5, <1>6, <1>7, WalkGives

(* The walk goes down to a child that is still linked. *)
LEMMA ClearDescendIInv ==
  ASSUME IInv, ClearDescend
  PROVE  IInv'
<1>1. /\ pc \in {"clear", "free"} /\ cur # Nil
      /\ t' = t /\ nodes' = nodes /\ size' = size /\ pc' = pc /\ key' = key /\ prev' = prev
  BY DEF ClearDescend
<1>2. PICK s \in Side : t.child[s][cur] # Nil /\ cur' = t.child[s][cur]
  BY DEF ClearDescend
<1>3. Linked = nodes /\ cur \in nodes
  BY <1>1 DEF IInv, Cursor, Linked
<1>4. PICK lo, hi : Shape(t, nodes, lo, hi)
  BY <1>3 DEF IInv, InOrder
<1>5. cur' \in nodes
  BY <1>2, <1>3, <1>4 DEF Shape, Joined
<1>6. TypeOK'
  BY <1>1, <1>5 DEF IInv, TypeOK
<1>7. Clean'
  BY <1>1 DEF IInv, Clean
<1>8. QED
  BY <1>1, <1>4, <1>5, <1>6, <1>7, WalkGives

(* The walk frees a leaf and goes up to its father. *)
LEMMA ClearLeafIInv ==
  ASSUME IInv, ClearLeaf
  PROVE  IInv'
<1> DEFINE f == t.father[cur]
           m == IF f = Nil THEN t ELSE [t EXCEPT !.child[SideOf(t, cur)][f] = Nil]
           N == nodes \ {cur}
<1>1. /\ pc \in {"clear", "free"} /\ cur # Nil /\ \A s \in Side : t.child[s][cur] = Nil
      /\ t' = Forgotten(m, cur) /\ nodes' = N /\ cur' = f
      /\ size' = size /\ pc' = pc /\ key' = key /\ prev' = prev
  BY DEF ClearLeaf
<1>2. Linked = nodes /\ cur \in nodes /\ nodes \subseteq Keys /\ Nil \notin Keys
  BY <1>1, KeysAssumption DEF IInv, Cursor, Linked, TypeOK
<1>3. PICK lo, hi : Shape(t, nodes, lo, hi)
  BY <1>2 DEF IInv, InOrder
<1>4. t \in Trees /\ cur \in Keys
  BY <1>2, <1>3 DEF Shape
<1>5. /\ "left" \in Side /\ Other("left") \in Side /\ t.child["left"][cur] = Nil
      /\ Nil = t.child[Other("left")][cur]
  BY <1>1 DEF Side, Other
<1>6. /\ f # Nil => f \in N /\ SideOf(t, cur) \in Side
  BY <1>2, <1>3, BelowFather
<1>7. m \in Trees /\ m.root = t.root /\ m.red = t.red /\ m.father = t.father
  <2>1. CASE f = Nil
    BY <1>4, <2>1
  <2>2. CASE f # Nil
    BY <1>4, <2>2 DEF Trees
  <2>3. QED
    BY <2>1, <2>2
<1>8. \A n \in Keys, z \in Side :
        m.child[z][n] = IF n = f /\ z = SideOf(t, cur) THEN Nil ELSE t.child[z][n]
  <2>1. CASE f = Nil
    BY <1>2, <2>1
  <2>2. CASE f # Nil
    <3>1. t.child \in [Side -> [Keys -> Ptrs]] /\ f \in Keys /\ SideOf(t, cur) \in Side
      BY <1>2, <1>4, <1>6, <2>2 DEF Trees, Ptrs
    <3>2. m.child = [t.child EXCEPT ![SideOf(t, cur)] = [t.child[SideOf(t, cur)] EXCEPT ![f] = Nil]]
      BY <1>4, <2>2 DEF Trees
    <3>3. QED
      BY <3>1, <3>2
  <2>3. QED
    BY <2>1, <2>2
<1> HIDE DEF f, m
<1>9. \E l, h : Shape(m, N, l, h)
  <2>1. CASE f # Nil
    <3>1. HasReplaced(t, cur, Nil, m)
      BY <1>2, <1>7, <1>8, <2>1 DEF HasReplaced, f
    <3> DEFINE o == "left"
               c == Nil
    <3>2. o \in Side /\ t.child[o][cur] = Nil /\ c = t.child[Other(o)][cur] /\ HasReplaced(t, cur, c, m)
      BY <1>5, <3>1
    <3> HIDE DEF o, c
    <3>3. QED
      BY <1>2, <1>3, <3>2, SpliceShape
  <2>2. CASE f = Nil
    <3> DEFINE r == Transplanted(t, cur, Nil)
               o == "left"
               c == Nil
    <3>1. HasReplaced(t, cur, c, r)
      BY <1>4, TransplantedFacts DEF Ptrs
    <3>2. r.root = Nil
      BY <2>2, <3>1 DEF HasReplaced, f
    <3>3. o \in Side /\ t.child[o][cur] = Nil /\ c = t.child[Other(o)][cur]
      BY <1>5
    <3> HIDE DEF r, o, c
    <3>4. PICK l, h : Shape(r, N, l, h)
      BY <1>2, <1>3, <3>1, <3>3, SpliceShape
    <3>5. N = {}
      <4>1. N \in SUBSET N /\ Upward(r, N)
        BY <3>4 DEF Upward, Shape, Joined
      <4>2. N # {} => r.root \in N
        BY <3>4, <4>1, UpwardHasRoot
      <4>3. QED
        BY <1>2, <3>2, <4>2
    <3>6. Shape(m, {}, l, h)
      BY <1>7, <3>4 DEF Shape, Joined, Acyclic, Bounded
    <3>7. QED
      BY <3>5, <3>6
  <2>3. QED
    BY <2>1, <2>2
<1>10. PICK l, h : Shape(m, N, l, h)
  BY <1>9
<1>11. HasForgotten(m, cur, t')
  BY <1>1, <1>4, <1>7, ForgottenFacts
<1>12. Shape(t', N, l, h)
  <2>1. cur \in Keys \ N
    BY <1>4
  <2> HIDE DEF N
  <2>2. QED
    BY <1>10, <1>11, <2>1, ForgottenKeeps
<1>13. cur' \in nodes' \cup {Nil} /\ (nodes' # {} => cur' \in nodes')
  <2>1. f = Nil => N = {}
    <3> SUFFICES ASSUME f = Nil, N # {} PROVE FALSE
      OBVIOUS
    <3>1. N \in SUBSET N /\ Upward(m, N)
      BY <1>10 DEF Upward, Shape, Joined
    <3>2. m.root \in N
      <4> HIDE DEF N
      <4>1. QED
        BY <1>10, <3>1, UpwardHasRoot
    <3>3. t.root = cur
      BY <1>2, <1>3 DEF Shape, Joined, f
    <3>4. QED
      BY <1>7, <3>2, <3>3
  <2>2. QED
    BY <1>1, <1>6, <2>1
<1>14. TypeOK'
  <2>1. t' \in Trees /\ N \subseteq Keys
    BY <1>2, <1>12 DEF Shape
  <2>2. cur' \in Keys \cup {Nil}
    BY <1>1, <1>13, <2>1
  <2>3. QED
    BY <1>1, <2>1, <2>2 DEF IInv, TypeOK
<1>15. Clean'
  <2>1. \A k \in Keys \ nodes : k # cur /\ k # f /\ k \in Keys
    BY <1>2, <1>6
  <2>2. \A k \in Keys \ nodes : m.father[k] = Nil /\ ~ m.red[k] /\ \A s \in Side : m.child[s][k] = Nil
    BY <1>7, <1>8, <2>1 DEF IInv, Clean
  <2>3. QED
    BY <1>1, <1>11, <2>1, <2>2 DEF Clean, HasForgotten
<1>16. QED
  BY <1>1, <1>12, <1>13, <1>14, <1>15, WalkGives

(* The end of the walk, and a new tree: there are no nodes. *)
LEMMA NewTreeIInv ==
  ASSUME IInv, nodes = {}, nodes' = {}, t' \in Trees, t'.root = Nil, Untouched(t, t', {}),
         size' = 0, pc' \in {"idle", "freed"}, key' = key, cur' = cur, prev' = prev
  PROVE  IInv'
<1>1. Linked' = {}
  BY DEF Linked
<1>2. Settled(t', {})
  BY EmptySettled
<1>3. TypeOK'
  BY DEF IInv, TypeOK
<1>4. Clean'
  BY DEF IInv, Clean, Untouched
<1>5. size' = Cardinality(nodes')
  BY FS_EmptySet
<1>6. (\E l, h : Shape(t, Linked, l, h) /\ At(l, h))'
  BY <1>1, <1>2 DEF Settled, At
<1>7. CASE pc' = "idle"
  BY <1>1, <1>2, <1>3, <1>4, <1>5, <1>6, <1>7, RestGivesNext DEF AtRest
<1>8. CASE pc' = "freed"
  <2>1. Cursor' /\ Sized' /\ Emptying'
    BY <1>8 DEF Cursor, Sized, Emptying
  <2>2. QED
    BY <1>3, <1>4, <1>6, <2>1 DEF IInv, InOrder
<1>9. QED
  BY <1>7, <1>8

(* The walk ends when no node is left, and forgets the root. *)
LEMMA ClearDoneIInv ==
  ASSUME IInv, ClearDone
  PROVE  IInv'
<1>1. /\ pc \in {"clear", "free"} /\ cur = Nil /\ t' = [t EXCEPT !.root = Nil] /\ size' = 0
      /\ pc' \in {"idle", "freed"}
      /\ nodes' = nodes /\ key' = key /\ cur' = cur /\ prev' = prev
  BY DEF ClearDone
<1>2. nodes = {}
  BY <1>1, KeysAssumption DEF IInv, Cursor, TypeOK
<1>3. t' \in Trees /\ t'.root = Nil /\ t'.father = t.father /\ t'.child = t.child /\ t'.red = t.red
  BY <1>1 DEF IInv, TypeOK, Trees
<1>4. Untouched(t, t', {})
  BY <1>3 DEF Untouched
<1>5. QED
  BY <1>1, <1>2, <1>3, <1>4, NewTreeIInv

(* A freed tree can be initialised again. *)
LEMMA StartIInv ==
  ASSUME IInv, Start
  PROVE  IInv'
<1>1. /\ pc = "freed" /\ pc' = "idle" /\ t' = EmptyTree /\ size' = 0
      /\ nodes' = nodes /\ key' = key /\ cur' = cur /\ prev' = prev
  BY DEF Start
<1>2. nodes = {}
  BY <1>1 DEF IInv, Cursor
<1>3. EmptyTree \in Trees /\ EmptyTree.root = Nil
  BY DEF EmptyTree, Trees
<1>4. Untouched(t, EmptyTree, {})
  BY <1>2 DEF IInv, Clean, Untouched, EmptyTree
<1>5. QED
  BY <1>1, <1>2, <1>3, <1>4, NewTreeIInv

-----------------------------------------------------------------------------
\* The invariant.

(* Every step preserves the invariant. *)
LEMMA NextIInv == IInv /\ [Next]_vars => IInv'
<1> SUFFICES ASSUME IInv, [Next]_vars PROVE IInv'
  OBVIOUS
<1>1. ASSUME NEW k \in Keys, NEW op \in {"insert", "delete", "find"}, Call(op, k) PROVE IInv'
  BY <1>1, CallIInv
<1>2. ASSUME NEW op \in {"clear", "free"}, EmptyCall(op) PROVE IInv'
  BY <1>2, EmptyCallIInv
<1>3. CASE Descend
  BY <1>3, DescendIInv
<1>4. CASE Found \/ Absent \/ InsertFound \/ InsertNoMemory
  <2>1. PICK code : Return(code)
    BY <1>4 DEF Found, Absent, InsertFound, InsertNoMemory
  <2>2. pc \in {"insert", "delete", "find"} /\ UNCHANGED << t, nodes, size >>
    BY <1>4 DEF Found, Absent, InsertFound, InsertNoMemory
  <2>3. QED
    BY <2>1, <2>2, ReturnIInv
<1>5. CASE InsertNode
  BY <1>5, InsertNodeIInv
<1>6. CASE InsertFixup
  BY <1>6, InsertFixupIInv
<1>7. CASE InsertDone
  BY <1>7, InsertDoneIInv
<1>8. CASE DeleteUnlink
  BY <1>8, DeleteUnlinkIInv
<1>9. CASE DeleteFixup
  BY <1>9, DeleteFixupIInv
<1>10. CASE DeleteFixed
  BY <1>10, DeleteFixedIInv
<1>11. CASE DeleteFree
  BY <1>11, DeleteFreeIInv
<1>12. CASE ClearDescend
  BY <1>12, ClearDescendIInv
<1>13. CASE ClearLeaf
  BY <1>13, ClearLeafIInv
<1>14. CASE ClearDone
  BY <1>14, ClearDoneIInv
<1>15. CASE Start
  BY <1>15, StartIInv
<1>16. CASE UNCHANGED vars
  BY <1>16 DEF vars, IInv, TypeOK, Clean, Cursor, Sized, InOrder, At, Linked, Emptying,
               Coloured, Exempt, Levelled
<1>17. QED
  BY <1>1, <1>2, <1>3, <1>4, <1>5, <1>6, <1>7, <1>8, <1>9, <1>10, <1>11, <1>12, <1>13, <1>14,
     <1>15, <1>16 DEF Next, Run, Insert, Delete, Clear

(* IInv is an invariant of the tree: whatever calls are made, in whatever state of a
   search, a fixup or a walk, the links, the order, the colours and the heights are right
   up to what IInv names as out of order. *)
THEOREM Invariance == Spec => []IInv
BY InitIInv, NextIInv, PTL DEF Spec

(* Every field keeps its type: links lead to nodes or are NULL. *)
THEOREM TypeCorrect == Spec => []TypeOK
<1>1. IInv => TypeOK
  BY DEF IInv
<1>2. QED
  BY <1>1, Invariance, PTL

(* delete_fixup reads the children of the sibling w without a test for NULL: the
   sibling is there in every state in which the loop goes on, because the other side of
   the father has a black node more. *)
THEOREM SiblingAlwaysExists == Spec => []SiblingExists
<1>1. IInv => SiblingExists
  BY DEF IInv, Cursor, SiblingExists
<1>2. QED
  BY <1>1, Invariance, PTL

-----------------------------------------------------------------------------
\* The line of a node: the nodes that the father pointers lead to.

(* Line finds the nodes above k, and no others. *)
LEMMA LineFacts ==
  ASSUME NEW lo, NEW hi, Shape(t, Linked, lo, hi), nodes \subseteq Keys, NEW k \in Linked
  PROVE  Line(k) = Up(t, Linked, k) /\ Line(k) = Around(Linked, lo, hi, k)
<1> DEFINE N     == Linked
           C     == Cardinality(nodes)
           above == [n \in Keys \cup {Nil} |-> IF n = Nil THEN Nil ELSE t.father[n]]
           up    == Steps(above, k, C)
           U     == Up(t, N, k)
           L     == {up[n] : n \in 0 .. C} \ {Nil}
<1>1. N \subseteq nodes /\ Nil \notin Keys /\ IsFiniteSet(nodes) /\ t \in Trees
  BY KeysAssumption, FS_Subset DEF Linked, Shape
<1>2. C \in Nat /\ above \in [Ptrs -> Ptrs] /\ k \in Ptrs
  BY <1>1, FS_CardinalityType, TreeTypes DEF Ptrs
<1>3. Walks(up, above, k, C, Ptrs)
  <2> HIDE DEF above, C
  <2>1. QED
    BY <1>2, StepsFacts
<1>4. /\ up \in [0 .. C -> Ptrs] /\ up[0] = k
      /\ \A i \in 1 .. C : up[i] = above[up[i - 1]]
  <2> HIDE DEF up, above, C
  <2>1. QED
    BY <1>3 DEF Walks
<1>5. Line(k) = L
  BY DEF Line
<1>6. \A n \in Keys : above[n] = t.father[n]
  BY <1>1
<1>7. above[Nil] = Nil
  OBVIOUS
<1>8. U \in SUBSET N /\ k \in U /\ Upward(t, U)
  BY UpFacts
<1> HIDE DEF C, above, up, U
<1>9. \A i \in 0 .. C : up[i] \in U \cup {Nil}
  <2> DEFINE S == {i \in 0 .. C : up[i] \in U \cup {Nil}}
  <2>1. 0 \in S
    BY <1>2, <1>4, <1>8
  <2>2. ASSUME NEW i \in 0 .. C - 1, i \in S PROVE i + 1 \in S
    <3>1. i + 1 \in 1 .. C /\ i + 1 \in 0 .. C /\ (i + 1) - 1 = i
      BY <1>2
    <3>2. up[i + 1] = above[up[i]] /\ up[i] \in U \cup {Nil}
      BY <1>4, <2>2, <3>1
    <3>3. above[up[i]] \in U \cup {Nil}
      BY <1>1, <1>6, <1>7, <1>8, <3>2 DEF Upward
    <3>4. QED
      BY <3>1, <3>2, <3>3
  <2> HIDE DEF S
  <2>3. \A i \in 0 .. C : i \in S
    BY <1>2, <2>1, <2>2, Induction
  <2>4. QED
    BY <2>3 DEF S
<1>10. up[C] = Nil
  <2> SUFFICES ASSUME up[C] # Nil PROVE FALSE
    OBVIOUS
  <2> DEFINE S == {j \in 0 .. C : up[C - j] # Nil}
  <2>1. 0 \in S
    BY <1>2
  <2>2. ASSUME NEW j \in 0 .. C - 1, j \in S PROVE j + 1 \in S
    <3>1. C - j \in 1 .. C /\ j + 1 \in 0 .. C /\ (C - j) - 1 = C - (j + 1)
      BY <1>2
    <3>2. up[C - j] = above[up[C - (j + 1)]] /\ up[C - j] # Nil
      BY <1>4, <2>2, <3>1
    <3>3. QED
      BY <1>7, <3>1, <3>2
  <2> HIDE DEF S
  <2>3. \A j \in 0 .. C : j \in S
    BY <1>2, <2>1, <2>2, Induction
  <2>4. \A i \in 0 .. C : up[i] # Nil
    <3> SUFFICES ASSUME NEW i \in 0 .. C PROVE up[i] # Nil
      OBVIOUS
    <3>1. C - i \in 0 .. C /\ C - (C - i) = i
      BY <1>2
    <3>2. QED
      BY <2>3, <3>1 DEF S
  <2>5. up \in [0 .. C -> nodes]
    <3>1. \A i \in 0 .. C : up[i] \in nodes
      BY <1>1, <1>8, <1>9, <2>4
    <3>2. QED
      BY <1>4, <3>1
  <2>6. PICK i, j \in 0 .. C : i < j /\ up[i] = up[j]
    BY <1>1, <2>5, WalkRepeats DEF C
  <2> DEFINE R == {up[m] : m \in i .. j}
  <2>7. i .. j \subseteq 0 .. C /\ i \in i .. j /\ i + 1 \in i .. j
    BY <1>2, <2>6
  <2>8. R \in SUBSET N /\ R # {}
    BY <1>8, <1>9, <2>4, <2>7
  <2>9. ASSUME NEW m \in i .. j PROVE t.father[up[m]] \in R
    <3>1. CASE m = j
      <4>1. i + 1 \in 1 .. C /\ (i + 1) - 1 = i
        BY <1>2, <2>6
      <4>2. up[i + 1] = above[up[i]] /\ up[i] \in Keys
        BY <1>1, <1>4, <2>4, <2>5, <2>6, <4>1
      <4>3. t.father[up[j]] = up[i + 1]
        BY <1>6, <2>6, <4>2
      <4>4. QED
        BY <2>7, <3>1, <4>3
    <3>2. CASE m # j
      <4>1. m + 1 \in 1 .. C /\ (m + 1) - 1 = m /\ m + 1 \in i .. j /\ m \in 0 .. C
        BY <1>2, <2>6, <3>2
      <4>2. up[m + 1] = above[up[m]] /\ up[m] \in Keys
        BY <1>1, <1>4, <2>5, <4>1
      <4>3. t.father[up[m]] = up[m + 1]
        BY <1>6, <4>2
      <4>4. QED
        BY <4>1, <4>3
    <3>3. QED
      BY <3>1, <3>2
  <2> HIDE DEF N
  <2>10. \A n \in R : t.father[n] \in R
    BY <2>9
  <2> HIDE DEF R
  <2>11. QED
    BY <2>8, <2>10 DEF Shape, Acyclic, N
<1>11. k \in L /\ L \in SUBSET N
  <2>1. k # Nil /\ 0 \in 0 .. C
    BY <1>1, <1>2
  <2>2. QED
    BY <1>4, <1>8, <1>9, <2>1
<1>12. Upward(t, L)
  <2> SUFFICES ASSUME NEW n \in L, t.father[n] # Nil PROVE t.father[n] \in L
    BY DEF Upward
  <2>1. PICK i \in 0 .. C : n = up[i]
    OBVIOUS
  <2>2. i # C
    BY <1>10, <2>1
  <2>3. i + 1 \in 1 .. C /\ (i + 1) - 1 = i /\ i + 1 \in 0 .. C
    BY <1>2, <2>2
  <2>4. up[i + 1] = t.father[n]
    BY <1>1, <1>4, <1>6, <1>11, <2>1, <2>3
  <2>5. QED
    BY <2>3, <2>4
<1>13. L \subseteq U
  BY <1>9
<1>14. U \subseteq L
  <2> HIDE DEF L, N
  <2>1. N = Linked
    BY DEF N
  <2>2. QED
    BY <1>11, <1>12, <2>1, UpFacts DEF U
<1>15. Line(k) = Up(t, Linked, k)
  BY <1>5, <1>13, <1>14 DEF U
<1>16. QED
  BY <1>15, AroundIsUp

(* The line of a child is that of its father, and the child. *)
LEMMA LineGrows ==
  ASSUME NEW lo, NEW hi, Shape(t, Linked, lo, hi), nodes \subseteq Keys,
         NEW c \in Linked, NEW f, t.father[c] = f, f # Nil
  PROVE  /\ f \in Linked /\ Line(c) = Line(f) \cup {c} /\ c \notin Line(f)
         /\ Line(f) \subseteq Linked
<1>1. f \in Linked
  BY DEF Shape, Joined
<1> DEFINE U == Up(t, Linked, f)
           V == Up(t, Linked, c)
<1>2. Line(f) = U /\ Line(c) = V /\ U = Around(Linked, lo, hi, f)
  BY <1>1, LineFacts
<1>3. /\ U \in SUBSET Linked /\ f \in U /\ Upward(t, U)
      /\ V \in SUBSET Linked /\ c \in V /\ Upward(t, V)
  BY <1>1, UpFacts
<1>4. U \subseteq V
  <2>1. f \in V
    BY <1>3 DEF Upward
  <2>2. QED
    BY <1>1, <1>3, <2>1, UpFacts
<1>5. V \subseteq U \cup {c}
  <2>1. U \cup {c} \in SUBSET Linked /\ c \in U \cup {c}
    BY <1>3
  <2>2. Upward(t, U \cup {c})
    BY <1>3 DEF Upward
  <2> HIDE DEF U
  <2>3. QED
    BY <2>1, <2>2, UpFacts
<1>6. c \notin U
  <2> SUFFICES ASSUME c \in U PROVE FALSE
    OBVIOUS
  <2>1. Between(f, lo[c], hi[c]) /\ f \in Keys
    BY <1>1, <1>2 DEF Around, Shape
  <2>2. t.father[c] # Nil
    OBVIOUS
  <2>3. f # t.father[c]
    BY <2>1, <2>2, Nested
  <2>4. QED
    BY <2>3
<1>7. QED
  BY <1>1, <1>2, <1>3, <1>4, <1>5, <1>6

-----------------------------------------------------------------------------
\* What the invariant implies.

(* Children and fathers agree. *)
LEMMA LinksFollow == IInv => LinksAgree
<1> SUFFICES ASSUME IInv PROVE LinksAgree
  OBVIOUS
<1>1. PICK lo, hi : Shape(t, Linked, lo, hi)
  BY DEF IInv, InOrder
<1>2. nodes \subseteq Keys
  BY DEF IInv, TypeOK
<1>3. t.root # Nil /\ ~ Emptying => t.root \in Linked /\ t.father[t.root] = Nil
  BY DEF IInv, Rooted
<1>4. ASSUME NEW k \in Linked
      PROVE  /\ \A s \in Side : t.child[s][k] # Nil =>
                  t.child[s][k] \in Linked /\ t.father[t.child[s][k]] = k
             /\ t.father[k] # Nil =>
                  t.father[k] \in Linked /\ \E s \in Side : t.child[s][t.father[k]] = k
  BY <1>1 DEF Shape, Joined
<1>5. ASSUME NEW k \in Linked PROVE t.root \in Line(k)
  <2> DEFINE U == Up(t, Linked, k)
  <2>1. Line(k) = U
    BY <1>1, <1>2, LineFacts
  <2>2. U \in SUBSET Linked /\ U # {} /\ Upward(t, U)
    BY <1>1, UpFacts
  <2> HIDE DEF U
  <2>3. QED
    BY <1>1, <2>1, <2>2, UpwardHasRoot
<1>6. QED
  BY <1>3, <1>4, <1>5 DEF LinksAgree

(* The nodes above k on whose left it is are larger, and the others smaller. *)
LEMMA OrderFollows == IInv => Ordered
<1> SUFFICES ASSUME IInv PROVE Ordered
  OBVIOUS
<1>1. PICK lo, hi : Shape(t, Linked, lo, hi)
  BY DEF IInv, InOrder
<1>2. nodes \subseteq Keys /\ Nil \notin Linked /\ Linked \subseteq Keys
  BY <1>1, KeysAssumption DEF IInv, TypeOK, Shape
<1>3. ASSUME NEW k \in Linked, NEW a \in Line(k)
      PROVE  /\ t.child["left"][a] \in Line(k) => k < a
             /\ t.child["right"][a] \in Line(k) => k > a
  <2>1. Line(k) = Around(Linked, lo, hi, k)
    BY <1>1, <1>2, LineFacts
  <2>2. a \in Linked /\ a # Nil /\ a \in Int /\ k \in Int
    BY <1>2, <2>1, KeysAssumption DEF Around
  <2>3. ASSUME t.child["left"][a] \in Line(k) PROVE k < a
    <3>1. t.child["left"][a] \in Linked /\ t.child["left"][a] # Nil
      BY <1>2, <2>1, <2>3 DEF Around
    <3>2. hi[t.child["left"][a]] = a
      BY <1>1, <2>2, <3>1 DEF Shape, Bounded
    <3>3. Between(k, lo[t.child["left"][a]], hi[t.child["left"][a]])
      BY <2>1, <2>3 DEF Around
    <3>4. QED
      BY <2>2, <3>2, <3>3 DEF Between
  <2>4. ASSUME t.child["right"][a] \in Line(k) PROVE k > a
    <3>1. t.child["right"][a] \in Linked /\ t.child["right"][a] # Nil
      BY <1>2, <2>1, <2>4 DEF Around
    <3>2. lo[t.child["right"][a]] = a
      BY <1>1, <2>2, <3>1 DEF Shape, Bounded
    <3>3. Between(k, lo[t.child["right"][a]], hi[t.child["right"][a]])
      BY <2>1, <2>4 DEF Around
    <3>4. QED
      BY <2>2, <3>2, <3>3 DEF Between
  <2>5. QED
    BY <2>3, <2>4
<1> DEFINE line == [k \in Linked |-> Line(k)]
<1>4. ASSUME NEW k \in Linked, NEW a \in line[k] \ {k}
      PROVE  /\ t.child["left"][a] \in line[k] => k < a
             /\ t.child["right"][a] \in line[k] => k > a
  <2>1. line[k] = Line(k)
    OBVIOUS
  <2> HIDE DEF line
  <2>2. QED
    BY <1>3, <1>4, <2>1
<1>5. QED
  BY <1>4 DEF Ordered

(* A red node has no red father, but for the one that insert_fixup stands at. *)
LEMMA RedsFollow == IInv => NoRedRed
<1> SUFFICES ASSUME IInv, ~ Emptying, NEW k \in Linked, t.red[k], Red(t, t.father[k])
             PROVE  \/ pc = "insertFixup" /\ k = cur
                    \/ pc = "deleteFixup" /\ cur \in {k, t.father[k]}
  BY DEF NoRedRed
<1>1. k \in Exempt
  BY DEF IInv, Coloured, Colours
<1>2. QED
  BY <1>1 DEF Exempt

-----------------------------------------------------------------------------
\* All ways down have the same number of blacks.

\* The black that delete_fixup owes, if it owes it above k.
OwedAbove(k) == IF pc = "deleteFixup" /\ cur # Nil /\ cur \in Line(k) THEN 1 ELSE 0

\* The blacks above k, those below, and the one owed above.
Weight(bh, k) == bh[k] + BlackAbove(k) + OwedAbove(k)

(* The black nodes above a child are those above its father, and itself if it is black. *)
LEMMA BlackAboveFacts ==
  ASSUME NEW lo, NEW hi, Shape(t, Linked, lo, hi), nodes \subseteq Keys,
         NEW c \in Linked
  PROVE  /\ BlackAbove(c) \in Nat
         /\ t.father[c] # Nil =>
              BlackAbove(c) = BlackAbove(t.father[c]) + (IF t.red[c] THEN 0 ELSE 1)
<1> DEFINE f == t.father[c]
           B(k) == {a \in Line(k) : ~ t.red[a]}
<1>1. ASSUME NEW k \in Linked PROVE IsFiniteSet(B(k))
  <2>1. Line(k) \subseteq Keys
    BY LineFacts DEF Around, Shape
  <2>2. B(k) \subseteq Keys
    BY <2>1
  <2>3. QED
    BY <2>2, KeysAssumption, FS_Subset
<1>2. BlackAbove(c) \in Nat
  BY <1>1, FS_CardinalityType DEF BlackAbove
<1>3. ASSUME f # Nil
      PROVE  BlackAbove(c) = BlackAbove(f) + (IF t.red[c] THEN 0 ELSE 1)
  <2>1. f \in Linked /\ Line(c) = Line(f) \cup {c} /\ c \notin Line(f)
    BY <1>3, LineGrows
  <2>2. IsFiniteSet(B(f)) /\ Cardinality(B(f)) \in Nat
    BY <1>1, <2>1, FS_CardinalityType
  <2>3. CASE t.red[c]
    <3>1. B(c) = B(f)
      BY <2>1, <2>3
    <3>2. QED
      BY <2>2, <2>3, <3>1 DEF BlackAbove
  <2>4. CASE ~ t.red[c]
    <3>1. B(c) = B(f) \cup {c} /\ c \notin B(f)
      BY <2>1, <2>4
    <3>2. Cardinality(B(c)) = Cardinality(B(f)) + 1
      BY <2>2, <3>1, FS_AddElement
    <3>3. QED
      BY <2>4, <3>2 DEF BlackAbove
  <2>5. QED
    BY <2>3, <2>4
<1>4. QED
  BY <1>2, <1>3

(* A function that has on every node the value that it has on its father has
   the same value on all nodes. *)
LEMMA SameOnAll ==
  ASSUME NEW tr, NEW N, NEW lo, NEW hi, Shape(tr, N, lo, hi), NEW W,
         \A c \in N : tr.father[c] # Nil => W[c] = W[tr.father[c]]
  PROVE  \A k \in N : W[k] = W[tr.root]
<1> DEFINE S == {k \in N : W[k] # W[tr.root]}
<1>1. ASSUME S # {} PROVE FALSE
  <2>1. S \in SUBSET N
    OBVIOUS
  <2>2. PICK k \in S : tr.father[k] \notin S
    <3> HIDE DEF S
    <3>1. QED
      BY <1>1, <2>1 DEF Shape, Acyclic
  <2>3. tr.father[k] # Nil
    BY <2>2 DEF Shape, Joined
  <2>4. tr.father[k] \in N /\ W[k] = W[tr.father[k]]
    BY <2>3 DEF Shape, Joined
  <2>5. QED
    BY <2>2, <2>4
<1>2. QED
  BY <1>1

(* What is owed on the way to the child c of f is owed above c and not above f. *)
LEMMA WeightKept ==
  ASSUME IInv, NEW lo, NEW hi, Shape(t, Linked, lo, hi), NEW c \in Linked,
         NEW f, t.father[c] = f, f # Nil,
         NEW bh, NEW p, NEW q \in Side, Heights(t, Linked, bh, p, q),
         IF pc = "deleteFixup" /\ cur # t.root
         THEN p = prev /\ t.child[q][prev] = cur ELSE p = Nil,
         Rooted(t, Linked)
  PROVE  Weight(bh, c) = Weight(bh, f)
<1>1. nodes \subseteq Keys /\ Nil \notin Linked /\ Linked \subseteq Keys
  BY KeysAssumption DEF IInv, TypeOK, Shape
<1>2. /\ f \in Linked /\ Line(c) = Line(f) \cup {c} /\ c \notin Line(f)
  BY <1>1, LineGrows
<1>3. PICK s \in Side : t.child[s][f] = c
  <2>1. t.father[c] # Nil
    OBVIOUS
  <2>2. \E s \in Side : t.child[s][t.father[c]] = c
    BY <2>1 DEF Shape, Joined
  <2>3. QED
    BY <2>2
<1>4. /\ BlackAbove(f) \in Nat /\ BlackAbove(c) = BlackAbove(f) + (IF t.red[c] THEN 0 ELSE 1)
  BY <1>1, <1>2, BlackAboveFacts
<1>5. bh[c] \in Nat /\ bh[f] \in Nat
  BY <1>1, <1>2 DEF Heights
<1> DEFINE edge == IF f = p /\ s = q THEN 1 ELSE 0
           turn == IF pc = "deleteFixup" /\ c = cur THEN 1 ELSE 0
<1>6. bh[f] = bh[c] + (IF t.red[c] THEN 0 ELSE 1) + edge
  <2>1. bh[f] = Hgt(t, bh, t.child[s][f]) + edge
    BY <1>2, <1>3 DEF Heights
  <2>2. Hgt(t, bh, c) = bh[c] + (IF t.red[c] THEN 0 ELSE 1)
    BY <1>1 DEF Hgt
  <2>3. QED
    BY <1>3, <2>1, <2>2
<1>7. OwedAbove(c) = OwedAbove(f) + turn
  BY <1>1, <1>2 DEF OwedAbove
<1>8. edge = turn
  <2>1. c # t.root
    BY <1>1 DEF Rooted
  <2>2. CASE pc = "deleteFixup" /\ cur # t.root
    <3>1. p = prev /\ t.child[q][prev] = cur
      BY <2>2
    <3>2. f = p /\ s = q => c = cur
      BY <1>3, <3>1
    <3>3. ASSUME c = cur PROVE f = p /\ s = q
      <4>1. prev \in Linked
        BY <2>2 DEF IInv, Cursor, Emptying
      <4>2. t.child[q][prev] # Nil
        BY <1>1, <3>1, <3>3
      <4>3. t.father[t.child[q][prev]] = prev
        BY <4>1, <4>2 DEF Shape, Joined
      <4>4. f = prev
        BY <3>1, <3>3, <4>3
      <4>5. t.child[Other(q)][f] # t.child[q][f]
        BY <1>2, <4>2, <4>4, Neighbours
      <4>6. s = q
        BY <1>3, <3>1, <3>3, <4>4, <4>5 DEF Side, Other
      <4>7. QED
        BY <3>1, <4>4, <4>6
    <3>4. QED
      BY <2>2, <3>2, <3>3
  <2>3. CASE ~ (pc = "deleteFixup" /\ cur # t.root)
    BY <1>1, <1>2, <2>1, <2>3
  <2>4. QED
    BY <2>2, <2>3
<1>9. OwedAbove(f) \in Nat /\ edge \in Nat /\ turn \in Nat
  BY DEF OwedAbove
<1> HIDE DEF edge, turn
<1>10. QED
  BY <1>4, <1>5, <1>6, <1>7, <1>8, <1>9 DEF Weight

(* All ways from the root to where a child is missing have as many black nodes. *)
LEMMA HeightsFollow == IInv => SameBlackHeight
<1> DEFINE ends == {e \in Linked \X Side : t.child[e[2]][e[1]] = Nil}
           heights == {BlackAbove(e[1]) + Owed(e[1], e[2]) : e \in ends}
<1> SUFFICES ASSUME IInv, ~ Emptying PROVE Cardinality(heights) <= 1
  BY DEF SameBlackHeight
<1>1. PICK lo, hi : Shape(t, Linked, lo, hi)
  BY DEF IInv, InOrder
<1>2. nodes \subseteq Keys /\ Nil \notin Linked /\ Linked \subseteq Keys /\ Rooted(t, Linked)
  BY <1>1, KeysAssumption DEF IInv, TypeOK, Shape
<1>3. \E bh, p, q : /\ q \in Side /\ Heights(t, Linked, bh, p, q)
                    /\ IF pc = "deleteFixup" /\ cur # t.root
                       THEN p = prev /\ t.child[q][prev] = cur ELSE p = Nil
  <2>1. CASE pc = "deleteFixup" /\ cur # t.root
    BY <2>1 DEF IInv, Levelled
  <2>2. CASE ~ (pc = "deleteFixup" /\ cur # t.root)
    <3>1. \E bh : Heights(t, Linked, bh, Nil, "left")
      BY <2>2 DEF IInv, Levelled
    <3>2. "left" \in Side
      BY DEF Side
    <3>3. QED
      BY <2>2, <3>1, <3>2
  <2>3. QED
    BY <2>1, <2>2
<1>4. PICK bh, p, q : /\ q \in Side /\ Heights(t, Linked, bh, p, q)
                      /\ IF pc = "deleteFixup" /\ cur # t.root
                         THEN p = prev /\ t.child[q][prev] = cur ELSE p = Nil
  BY <1>3
<1> DEFINE W == [k \in Linked |-> Weight(bh, k)]
           B == W[t.root]
<1>5. \A c \in Linked : t.father[c] # Nil => W[c] = W[t.father[c]]
  <2> SUFFICES ASSUME NEW c \in Linked, t.father[c] # Nil PROVE W[c] = W[t.father[c]]
    OBVIOUS
  <2>1. Weight(bh, c) = Weight(bh, t.father[c])
    BY <1>1, <1>2, <1>4, WeightKept
  <2>2. t.father[c] \in Linked
    BY <1>1 DEF Shape, Joined
  <2>3. QED
    BY <2>1, <2>2
<1>6. \A k \in Linked : W[k] = W[t.root]
  <2> HIDE DEF W
  <2>1. QED
    BY <1>1, <1>5, SameOnAll
<1> HIDE DEF B
<1>7. \A k \in Linked : Weight(bh, k) = B
  BY <1>6 DEF B
<1>8. ASSUME NEW k \in Linked, NEW s \in Side, t.child[s][k] = Nil
      PROVE  BlackAbove(k) + Owed(k, s) = B
  <2>1. BlackAbove(k) \in Nat /\ OwedAbove(k) \in Nat /\ bh[k] \in Nat
    BY <1>1, <1>2, <1>4, BlackAboveFacts DEF OwedAbove, Heights
  <2>2. bh[k] = IF k = p /\ s = q THEN 1 ELSE 0
    BY <1>4, <1>8 DEF Heights, Hgt
  <2>3. Owed(k, s) = bh[k] + OwedAbove(k)
    <3>1. CASE pc # "deleteFixup"
      BY <1>2, <1>4, <2>2, <3>1 DEF Owed, OwedAbove
    <3>2. CASE pc = "deleteFixup" /\ cur = t.root
      <4>1. t.root \in Line(k) /\ p = Nil
        BY <1>4, <3>2, LinksFollow DEF LinksAgree
      <4>2. t.root # Nil
        BY <4>1 DEF Line
      <4>3. QED
        BY <1>2, <2>2, <3>2, <4>1, <4>2 DEF Owed, OwedAbove
    <3>3. CASE pc = "deleteFixup" /\ cur # t.root /\ cur # Nil
      <4>1. ~ (k = p /\ s = q)
        BY <1>4, <1>8, <3>3
      <4>2. QED
        BY <2>2, <3>3, <4>1 DEF Owed, OwedAbove
    <3>4. CASE pc = "deleteFixup" /\ cur # t.root /\ cur = Nil
      <4>1. p = prev /\ t.child[q][prev] = Nil /\ prev \in Linked
        BY <1>4, <3>4 DEF IInv, Cursor
      <4>2. t.child[Other(q)][prev] # Nil
        BY <1>1, <1>4, <4>1, SiblingThere
      <4>3. k = prev => s = q
        BY <1>4, <1>8, <4>2 DEF Side, Other
      <4>4. QED
        BY <1>8, <2>2, <3>4, <4>1, <4>3 DEF Owed, OwedAbove
    <3>5. QED
      BY <3>1, <3>2, <3>3, <3>4
  <2>4. QED
    BY <1>7, <2>1, <2>3 DEF Weight
<1>9. heights \subseteq {B}
  <2> SUFFICES ASSUME NEW e \in ends PROVE BlackAbove(e[1]) + Owed(e[1], e[2]) = B
    OBVIOUS
  <2>1. e[1] \in Linked /\ e[2] \in Side /\ t.child[e[2]][e[1]] = Nil
    OBVIOUS
  <2>2. QED
    BY <1>8, <2>1
<1> HIDE DEF heights
<1>10. Cardinality(heights) <= 1
  <2>1. IsFiniteSet({B}) /\ Cardinality({B}) = 1
    BY FS_Singleton
  <2>2. QED
    BY <1>9, <2>1, FS_Subset
<1>11. QED
  BY <1>10

-----------------------------------------------------------------------------
\* The tree is a set.

\* The elements of the set.
Elements == IF Emptying THEN {} ELSE IF pc = "insertFixup" THEN nodes \ {key} ELSE nodes
Count    == IF Emptying THEN 0 ELSE size

(* Cardinality in the instance of the abstract specification is the same operator. *)
LEMMA SameCardinality == \A S : Abs!Cardinality(S) = Cardinality(S)
BY DEF Abs!Cardinality, Cardinality

(* Where a search ends is where its key would be. *)
LEMMA SearchEnds ==
  ASSUME IInv, pc \in {"insert", "delete", "find"}, cur = key \/ cur = Nil
  PROVE  cur = Nil <=> key \notin nodes
<1>1. Settled(t, nodes) /\ Linked = nodes
  BY SettledIs DEF Searching
<1>2. PICK lo, hi : Shape(t, nodes, lo, hi) /\ At(lo, hi)
  BY <1>1 DEF IInv, InOrder
<1>3. key \in Keys /\ key # Nil
  BY <1>2, KeysAssumption DEF At
<1>4. CASE cur # Nil
  BY <1>2, <1>4, SearchIsAtNode
<1>5. CASE cur = Nil
  <2>1. /\ prev \in Ptrs
        /\ IF prev = Nil THEN t.root = Nil
           ELSE /\ prev \in nodes /\ key # prev /\ Between(key, lo[prev], hi[prev])
                /\ t.child[SideFor(key, prev)][prev] = Nil
    BY <1>2, <1>5 DEF IInv, TypeOK, Ptrs, At
  <2>2. Rooted(t, nodes)
    BY <1>1 DEF Settled
  <2>3. key \notin nodes
    BY <1>2, <1>3, <2>1, <2>2, SearchMisses
  <2>4. QED
    BY <1>5, <2>3
<1>6. QED
  BY <1>4, <1>5

(* Every step of the tree is a step of the set, or changes nothing of it. *)
LEMMA StepRefines == IInv /\ IInv' /\ [Next]_vars => [Abs!Next]_(Abs!vars)
<1> SUFFICES ASSUME IInv, IInv', [Next]_vars PROVE [Abs!Next]_(Abs!vars)
  OBVIOUS
<1>1. ASSUME NEW k \in Keys, NEW op \in {"insert", "delete", "find"}, Call(op, k)
      PROVE  \E o \in {"add", "remove", "get"} : Abs!Call(o, k)
  <2>1. pc = "idle" /\ pc' = op /\ key' = k /\ ret' = "none" /\ nodes' = nodes /\ size' = size
    BY <1>1 DEF Call
  <2>2. /\ Op = "idle" /\ Op' \in {"add", "remove", "get"} /\ ~ Emptying /\ ~ Emptying'
    BY <2>1 DEF Op, Emptying
  <2>3. Abs!Call(Op', k)
    BY <2>1, <2>2 DEF Abs!Call
  <2>4. QED
    BY <2>2, <2>3
<1>2. ASSUME NEW op \in {"clear", "free"}, EmptyCall(op) PROVE Abs!Clear
  <2>1. pc = "idle" /\ pc' = op /\ ret' = "void" /\ key' = key
    BY <1>2 DEF EmptyCall
  <2>2. Op = "idle" /\ Op' = "idle" /\ Emptying'
    BY <2>1 DEF Op, Emptying
  <2>3. QED
    BY <2>1, <2>2 DEF Abs!Clear
<1>3. CASE Descend
  <2>1. pc' = pc /\ key' = key /\ ret' = ret /\ nodes' = nodes /\ size' = size
    BY <1>3 DEF Descend
  <2>2. QED
    BY <2>1 DEF Op, Emptying, Abs!vars
<1>4. ASSUME pc \in {"insert", "delete", "find"}, NEW code, Return(code),
             UNCHANGED << t, nodes, size >>, NEW o, Op = o
      PROVE  Abs!Answer(o, nodes, code) /\ Elements = nodes /\ Count = size
  <2>1. pc' = "idle" /\ key' = Nil /\ ret' = code /\ nodes' = nodes /\ size' = size
    BY <1>4 DEF Return
  <2>2. ~ Emptying /\ ~ Emptying' /\ Op' = "idle" /\ pc # "insertFixup"
    BY <1>4, <2>1 DEF Emptying, Op
  <2>3. size = Abs!Cardinality(nodes)
    BY <1>4, SettledIs, SameCardinality DEF Searching
  <2>4. Abs!Answer(o, nodes, code)
    BY <1>4, <2>1, <2>2, <2>3 DEF Abs!Answer
  <2>5. QED
    BY <2>2, <2>4 DEF Elements, Count
<1>5. CASE InsertFound
  <2>1. pc = "insert" /\ cur = key /\ Return("CS_ELEM") /\ UNCHANGED << t, nodes, size >>
    BY <1>5 DEF InsertFound
  <2>2. key \in nodes
    <3>1. key # Nil
      BY <2>1, KeysAssumption DEF IInv, InOrder, At
    <3>2. QED
      BY <2>1, <3>1, SearchEnds
  <2>3. Op = "add"
    BY <2>1 DEF Op
  <2>4. Abs!Answer("add", nodes, "CS_ELEM") /\ Elements = nodes
    BY <1>4, <2>1, <2>3
  <2>5. Abs!Insert
    BY <2>2, <2>4 DEF Abs!Insert, Elements
  <2>6. QED
    BY <2>5 DEF Abs!Next
<1>6. CASE InsertNoMemory
  <2>1. pc = "insert" /\ Return("CS_MEM") /\ UNCHANGED << t, nodes, size >>
    BY <1>6 DEF InsertNoMemory
  <2>2. Op = "add"
    BY <2>1 DEF Op
  <2>3. Abs!Answer("add", nodes, "CS_MEM") /\ Elements = nodes
    BY <1>4, <2>1, <2>2
  <2>4. Abs!Insert
    BY <2>3 DEF Abs!Insert, Elements
  <2>5. QED
    BY <2>4 DEF Abs!Next
<1>7. CASE Found
  <2>1. pc = "find" /\ cur = key /\ Return("found") /\ UNCHANGED << t, nodes, size >>
    BY <1>7 DEF Found
  <2>2. key \in nodes
    <3>1. key # Nil
      BY <2>1, KeysAssumption DEF IInv, InOrder, At
    <3>2. QED
      BY <2>1, <3>1, SearchEnds
  <2>3. Op = "get"
    BY <2>1 DEF Op
  <2>4. Abs!Answer("get", nodes, "found") /\ Elements = nodes
    BY <1>4, <2>1, <2>3
  <2>5. Abs!Find
    BY <2>2, <2>4 DEF Abs!Find, Elements
  <2>6. QED
    BY <2>5 DEF Abs!Next
<1>8. CASE Absent
  <2>1. /\ pc \in {"find", "delete"} /\ cur = Nil
        /\ Return(IF pc = "find" THEN "NULL" ELSE "CS_ELEM") /\ UNCHANGED << t, nodes, size >>
    BY <1>8 DEF Absent
  <2>2. key \notin nodes
    BY <2>1, SearchEnds
  <2>3. CASE pc = "find"
    <3>1. Op = "get" /\ Return("NULL")
      BY <2>1, <2>3 DEF Op
    <3>2. Abs!Answer("get", nodes, "NULL") /\ Elements = nodes
      BY <1>4, <2>1, <3>1
    <3>3. Abs!Find
      BY <2>2, <3>2 DEF Abs!Find, Elements
    <3>4. QED
      BY <3>3 DEF Abs!Next
  <2>4. CASE pc = "delete"
    <3>1. Op = "remove" /\ Return("CS_ELEM")
      BY <2>1, <2>4 DEF Op
    <3>2. Abs!Answer("remove", nodes, "CS_ELEM") /\ Elements = nodes
      BY <1>4, <2>1, <3>1
    <3>3. Abs!Erase
      BY <2>2, <3>2 DEF Abs!Erase, Elements
    <3>4. QED
      BY <3>3 DEF Abs!Next
  <2>5. QED
    BY <2>1, <2>3, <2>4
<1>9. CASE InsertNode
  <2>1. /\ pc = "insert" /\ cur = Nil /\ nodes' = nodes \cup {key}
        /\ pc' = "insertFixup" /\ size' = size /\ key' = key /\ ret' = ret
    BY <1>9 DEF InsertNode
  <2>2. key \notin nodes
    BY <2>1, SearchEnds
  <2>3. nodes' \ {key'} = nodes
    BY <2>1, <2>2
  <2>4. QED
    BY <2>1, <2>3 DEF Op, Emptying, Abs!vars
<1>10. CASE InsertFixup
  <2>1. pc = "insertFixup" /\ pc' = pc /\ key' = key /\ ret' = ret /\ nodes' = nodes /\ size' = size
    BY <1>10 DEF InsertFixup
  <2>2. QED
    BY <2>1 DEF Op, Emptying, Abs!vars
<1>11. CASE InsertDone
  <2>1. /\ pc = "insertFixup" /\ size' = size + 1 /\ nodes' = nodes
        /\ pc' = "idle" /\ ret' = "CS_SUCCESS" /\ key' = Nil
    BY <1>11 DEF InsertDone, Return
  <2>2. key \in nodes /\ ~ Emptying /\ ~ Emptying' /\ Op = "add" /\ Op' = "idle"
    BY <2>1 DEF IInv, Cursor, Emptying, Op
  <2>3. size' = Abs!Cardinality(nodes)
    <3>1. Cardinality(nodes') \in Nat
      BY KeysAssumption, FS_Subset, FS_CardinalityType DEF IInv, TypeOK
    <3>2. size' = Cardinality(nodes')
      BY <2>1, <2>2, <3>1 DEF IInv, Sized
    <3>3. QED
      BY <2>1, <3>2, SameCardinality
  <2>4. (nodes \ {key}) \cup {key} = nodes
    BY <2>2
  <2>5. Abs!Answer("add", (nodes \ {key}) \cup {key}, "CS_SUCCESS")
    BY <2>1, <2>2, <2>3, <2>4 DEF Abs!Answer
  <2>6. Abs!Insert
    BY <2>1, <2>2, <2>5 DEF Abs!Insert
  <2>7. QED
    BY <2>6 DEF Abs!Next
<1>12. CASE DeleteUnlink \/ DeleteFixup \/ DeleteFixed
  <2>1. /\ pc \in {"delete", "deleteFixup"} /\ key' = key /\ ret' = ret
        /\ nodes' = nodes /\ size' = size
        /\ pc' \in {"deleteFixup", "deleteFree", "crashed"}
    BY <1>12 DEF DeleteUnlink, DeleteFixup, DeleteFixed
  <2>2. pc' # "crashed"
    BY DEF IInv, Cursor
  <2>3. QED
    BY <2>1, <2>2 DEF Op, Emptying, Abs!vars
<1>13. CASE DeleteFree
  <2>1. /\ pc = "deleteFree" /\ nodes' = nodes \ {key}
        /\ pc' = "idle" /\ ret' = "CS_SUCCESS" /\ key' = Nil
    BY <1>13 DEF DeleteFree, Return
  <2>2. key \in nodes /\ ~ Emptying /\ ~ Emptying' /\ Op = "remove" /\ Op' = "idle"
    BY <2>1 DEF IInv, Cursor, Emptying, Op
  <2>3. size' = Abs!Cardinality(nodes')
    <3>1. Cardinality(nodes') \in Nat
      BY KeysAssumption, FS_Subset, FS_CardinalityType DEF IInv, TypeOK
    <3>2. size' = Cardinality(nodes')
      BY <2>1, <2>2, <3>1 DEF IInv, Sized
    <3>3. QED
      BY <3>2, SameCardinality
  <2>4. Abs!Answer("remove", nodes \ {key}, "CS_SUCCESS")
    BY <2>1, <2>2, <2>3 DEF Abs!Answer
  <2>5. Abs!Erase
    BY <2>1, <2>2, <2>4 DEF Abs!Erase
  <2>6. QED
    BY <2>5 DEF Abs!Next
<1>14. CASE ClearDescend \/ ClearLeaf
  <2>1. pc \in {"clear", "free"} /\ pc' = pc /\ key' = key /\ ret' = ret
    BY <1>14 DEF ClearDescend, ClearLeaf
  <2>2. QED
    BY <2>1 DEF Op, Emptying, Abs!vars
<1>15. CASE ClearDone
  <2>1. /\ pc \in {"clear", "free"} /\ pc' \in {"idle", "freed"} /\ cur = Nil
        /\ size' = 0 /\ nodes' = nodes /\ key' = key /\ ret' = ret
    BY <1>15 DEF ClearDone
  <2>2. nodes = {}
    BY <2>1, KeysAssumption DEF IInv, Cursor, TypeOK
  <2>3. QED
    BY <2>1, <2>2 DEF Op, Emptying, Abs!vars
<1>16. CASE Start
  <2>1. pc = "freed" /\ pc' = "idle" /\ size' = 0 /\ nodes' = nodes /\ key' = key /\ ret' = ret
    BY <1>16 DEF Start
  <2>2. nodes = {}
    BY <2>1 DEF IInv, Cursor
  <2>3. QED
    BY <2>1, <2>2 DEF Op, Emptying, Abs!vars
<1>17. CASE UNCHANGED vars
  BY <1>17 DEF vars, Op, Emptying, Abs!vars
<1>18. QED
  BY <1>1, <1>2, <1>3, <1>5, <1>6, <1>7, <1>8, <1>9, <1>10, <1>11, <1>12, <1>13, <1>14, <1>15,
     <1>16, <1>17 DEF Next, Run, Insert, Delete, Clear, Abs!Next

(* Between the assignments of any call, and in the middle of every fixup, the child
   that a node points to points back to it, and the root has no father. *)
THEOREM LinksAlwaysAgree == Spec => []LinksAgree
BY LinksFollow, Invariance, PTL

(* In every state the keys on the left of a node are smaller and those on its right
   larger: no rotation and no transplant brings two nodes out of order, so that a search
   finds every node. *)
THEOREM AlwaysOrdered == Spec => []Ordered
BY OrderFollows, Invariance, PTL

(* Whenever no fixup is running, no red node has a red father and every way down has
   as many black nodes, for any number of nodes: insert_fixup and delete_fixup pay what
   the insertion and the deletion have put out of balance. *)
THEOREM AlwaysBalanced == Spec => []Balanced
<1>1. IInv => Balanced
  BY RedsFollow, HeightsFollow DEF Balanced
<1>2. QED
  BY <1>1, Invariance, PTL

(* A tree of any size implements a set: its calls insert, delete and find exactly as
   the abstract specification says, each with one step that has the whole effect. *)
THEOREM Implementation == Spec => ImplementsSet
<1>1. Init => Abs!Init
  BY DEF Init, Abs!Init, Op, Emptying
<1>2. IInv /\ IInv' /\ [Next]_vars => [Abs!Next]_(Abs!vars)
  BY StepRefines
<1>3. QED
  BY <1>1, <1>2, Invariance, PTL DEF Spec, ImplementsSet, Abs!Spec

=============================================================================
