----------------------- MODULE KeyedContainersProofs -----------------------
(***************************************************************************)
(* Proofs about KeyedContainers, for any number of containers and keys: in *)
(* the kinds whose swap exchanges the attributes, the buffers and the      *)
(* entries alike, no container comes to use what another one has freed;    *)
(* and in all kinds the size field tells how many values are stored.       *)
(***************************************************************************)
EXTENDS KeyedContainers, FiniteSetTheorems, WellFoundedInduction, TLAPS

-----------------------------------------------------------------------------
(* The inductive invariant. *)

\* The part of TypeOK that ownership rests on: all but the size fields.
Typed ==
  /\ live \subseteq Containers
  /\ values \in [Containers -> [Keys -> Nat]]
  /\ ref \in [Containers -> [Keys -> Containers \cup { NoAttr }]]
  /\ attr \in [Containers -> Containers]
  /\ buf \in [Containers -> Containers]

\* No two containers in use share attributes, and none uses freed ones.
AttrsApart ==
  /\ \A c \in live : attr[c] \notin freed
  /\ \A c, d \in live : attr[c] = attr[d] => c = d

\* The buffer of a container, if it has one, and its entries point to its own
\* attributes.
OwnBuffer == kind # "multiset" => \A c \in live : buf[c] = attr[c]
OwnRefs   == \A c \in live : \A k \in Keys : values[c][k] > 0 => ref[c][k] = attr[c]

Ownership == Typed /\ AttrsApart /\ (SwapsAll => OwnBuffer /\ OwnRefs)

-----------------------------------------------------------------------------
(* The steps. *)

(* At the start every container has made its own attributes. *)
LEMMA OwnershipInit == Init => Ownership
BY DEF Init, Ownership, Typed, AttrsApart, OwnBuffer, OwnRefs

(* An operation on the entries of one container that gives each entry either
   what it had or the attributes of the container. *)
LEMMA EntriesStep ==
  ASSUME Ownership, UNCHANGED owners, Typed',
         SwapsAll => \A c \in live : \A k \in Keys : values'[c][k] > 0 =>
                       \/ values[c][k] > 0 /\ ref'[c][k] = ref[c][k]
                       \/ ref'[c][k] = attr[c]
  PROVE  Ownership'
<1>1. SwapsAll' <=> SwapsAll
  BY DEF SwapsAll, owners
<1>2. AttrsApart' /\ (SwapsAll => OwnBuffer')
  BY DEF Ownership, AttrsApart, OwnBuffer, owners
<1>3. SwapsAll => OwnRefs'
  BY DEF Ownership, OwnRefs, owners
<1>4. QED
  BY <1>1, <1>2, <1>3 DEF Ownership

(* A new entry gets the attributes of its container, from the buffer or not. *)
LEMMA InsertNewStep ==
  ASSUME Ownership, NEW c \in Containers, NEW k \in Keys, InsertNew(c, k)
  PROVE  Ownership'
<1>1. NewRef(c) \in Containers /\ (SwapsAll => NewRef(c) = attr[c])
  BY DEF Ownership, Typed, OwnBuffer, NewRef, InsertNew
<1>2. Typed'
  BY <1>1 DEF Ownership, Typed, InsertNew, owners
<1>3. ASSUME SwapsAll, NEW d \in live, NEW j \in Keys, values'[d][j] > 0
      PROVE  \/ values[d][j] > 0 /\ ref'[d][j] = ref[d][j]
             \/ ref'[d][j] = attr[d]
  BY <1>1, <1>3 DEF Ownership, Typed, InsertNew
<1>4. QED
  BY <1>2, <1>3, EntriesStep DEF InsertNew

(* Another value under a key leaves its entry alone. *)
LEMMA InsertMoreStep ==
  ASSUME Ownership, NEW c \in Containers, NEW k \in Keys, InsertMore(c, k)
  PROVE  Ownership'
<1>1. Typed'
  BY DEF Ownership, Typed, InsertMore, owners
<1>2. ASSUME NEW d \in live, NEW j \in Keys, values'[d][j] > 0
      PROVE  values[d][j] > 0 /\ ref'[d][j] = ref[d][j]
  BY <1>2 DEF Ownership, Typed, InsertMore
<1>3. QED
  BY <1>1, <1>2, EntriesStep DEF InsertMore

(* What a removal leaves behind was there before. *)
LEMMA RemoveStep ==
  ASSUME Ownership, NEW c \in Containers, NEW k \in Keys, Remove(c, k)
  PROVE  Ownership'
<1>1. values[c][k] \in Nat /\ values[c][k] > 0
  BY DEF Ownership, Typed, Remove
<1>2. values[c][k] - Removed(c, k) \in Nat
  BY <1>1 DEF Removed
<1> DEFINE left == values[c][k] - Removed(c, k)
<1>3. /\ values' = [values EXCEPT ![c][k] = left]
      /\ ref' = [ref EXCEPT ![c][k] = IF values'[c][k] = 0 THEN NoAttr ELSE @]
      /\ UNCHANGED owners
  BY DEF Remove
<1> HIDE DEF left
<1>4. values' \in [Containers -> [Keys -> Nat]]
  BY <1>2, <1>3 DEF Ownership, Typed, left
<1>5. ref' \in [Containers -> [Keys -> Containers \cup { NoAttr }]]
  BY <1>3 DEF Ownership, Typed
<1>6. Typed'
  BY <1>3, <1>4, <1>5 DEF Ownership, Typed, owners
<1>7. ASSUME NEW d \in live, NEW j \in Keys, values'[d][j] > 0
      PROVE  values[d][j] > 0 /\ ref'[d][j] = ref[d][j]
  <2>1. d \in Containers
    BY DEF Ownership, Typed
  <2>2. CASE d = c /\ j = k
    BY <1>1, <1>3, <1>7, <2>1, <2>2 DEF Ownership, Typed
  <2>3. CASE ~(d = c /\ j = k)
    BY <1>3, <1>7, <2>1, <2>3 DEF Ownership, Typed
  <2>4. QED
    BY <2>2, <2>3
<1>8. QED
  BY <1>3, <1>6, <1>7, EntriesStep

(* A container that is cleared has no entries. *)
LEMMA ClearStep ==
  ASSUME Ownership, NEW c \in Containers, Clear(c)
  PROVE  Ownership'
<1>1. Typed'
  BY DEF Ownership, Typed, Clear, owners
<1>2. ASSUME NEW d \in live, NEW j \in Keys, values'[d][j] > 0
      PROVE  values[d][j] > 0 /\ ref'[d][j] = ref[d][j]
  BY <1>2 DEF Ownership, Typed, Clear
<1>3. QED
  BY <1>1, <1>2, EntriesStep DEF Clear

(* Free takes away attributes that no other container has. *)
LEMMA FreeStep ==
  ASSUME Ownership, NEW c \in Containers, Free(c)
  PROVE  Ownership'
<1>1. Typed'
  BY DEF Ownership, Typed, Free
<1>2. AttrsApart'
  BY DEF Ownership, Typed, AttrsApart, Free
<1>3. SwapsAll' => SwapsAll /\ OwnBuffer' /\ OwnRefs'
  <2>1. SwapsAll' <=> SwapsAll
    BY DEF SwapsAll, Free
  <2>2. SwapsAll => OwnBuffer'
    BY DEF Ownership, OwnBuffer, Free
  <2>3. ASSUME SwapsAll, NEW d \in live', NEW j \in Keys, values'[d][j] > 0
        PROVE  ref'[d][j] = attr'[d]
    BY <2>3 DEF Ownership, Typed, OwnRefs, Free
  <2>4. QED
    BY <2>1, <2>2, <2>3 DEF OwnRefs
<1>4. QED
  BY <1>1, <1>2, <1>3 DEF Ownership

\* Where the swapped containers' fields come from.
Partner(c, d, x) == IF x = c THEN d ELSE IF x = d THEN c ELSE x

(* A swap of everything renames the two containers. *)
LEMMA SwapStep ==
  ASSUME Ownership, NEW c \in Containers, NEW d \in Containers, Swap(c, d)
  PROVE  Ownership'
<1>1. /\ c \in live /\ d \in live /\ live' = live /\ freed' = freed
      /\ kind' = kind /\ live \subseteq Containers
  BY DEF Swap, Ownership, Typed
<1>2. /\ values' = Exchanged(values, c, d) /\ ref' = Exchanged(ref, c, d)
      /\ attr' = Exchanged(attr, c, d)
      /\ buf' = IF kind \in SwapsBuffer THEN Exchanged(buf, c, d) ELSE buf
  BY DEF Swap
<1>3. \A x \in live : Partner(c, d, x) \in live
  BY <1>1 DEF Partner
<1>4. /\ values' \in [Containers -> [Keys -> Nat]]
      /\ \A x \in Containers : values'[x] = values[Partner(c, d, x)]
  BY <1>2 DEF Exchanged, Partner, Ownership, Typed
<1>5. /\ ref' \in [Containers -> [Keys -> Containers \cup { NoAttr }]]
      /\ \A x \in Containers : ref'[x] = ref[Partner(c, d, x)]
  BY <1>2 DEF Exchanged, Partner, Ownership, Typed
<1>6. /\ attr' \in [Containers -> Containers]
      /\ \A x \in Containers : attr'[x] = attr[Partner(c, d, x)]
  BY <1>2 DEF Exchanged, Partner, Ownership, Typed
<1>7. /\ buf' \in [Containers -> Containers]
      /\ kind \in SwapsBuffer =>
           \A x \in Containers : buf'[x] = buf[Partner(c, d, x)]
  BY <1>2 DEF Exchanged, Partner, Ownership, Typed
<1>8. Typed'
  BY <1>1, <1>4, <1>5, <1>6, <1>7 DEF Typed
<1>9. AttrsApart'
  <2>1. \A x \in live : attr'[x] \notin freed
    BY <1>1, <1>3, <1>6 DEF Ownership, AttrsApart
  <2>2. ASSUME NEW x \in live, NEW y \in live, attr'[x] = attr'[y]
        PROVE  x = y
    <3>1. Partner(c, d, x) = Partner(c, d, y)
      BY <1>1, <1>3, <1>6, <2>2 DEF Ownership, AttrsApart
    <3>2. QED
      BY <3>1 DEF Partner
  <2>3. QED
    BY <1>1, <2>1, <2>2 DEF AttrsApart
<1>10. SwapsAll => OwnRefs'
  <2>1. ASSUME SwapsAll, NEW x \in live, NEW k \in Keys, values'[x][k] > 0
        PROVE  ref'[x][k] = attr'[x]
    <3>1. Partner(c, d, x) \in live /\ values[Partner(c, d, x)][k] > 0
      BY <1>1, <1>3, <1>4, <2>1
    <3>2. ref[Partner(c, d, x)][k] = attr[Partner(c, d, x)]
      BY <2>1, <3>1 DEF Ownership, OwnRefs
    <3>3. QED
      BY <1>1, <1>5, <1>6, <3>2
  <2>2. QED
    BY <1>1, <2>1 DEF OwnRefs
<1>11. SwapsAll => OwnBuffer'
  BY <1>1, <1>3, <1>6, <1>7
  DEF Ownership, OwnBuffer, SwapsAll, SwapsBuffer
<1>12. QED
  BY <1>1, <1>8, <1>9, <1>10, <1>11 DEF Ownership, SwapsAll

-----------------------------------------------------------------------------
(* The properties. *)

(* Ownership is inductive. *)
THEOREM OwnershipInvariance == Spec => []Ownership
<1>1. Ownership /\ [Next]_vars => Ownership'
  <2> SUFFICES ASSUME Ownership, [Next]_vars
               PROVE  Ownership'
    OBVIOUS
  <2>1. CASE UNCHANGED vars
    BY <2>1
    DEF vars, Ownership, Typed, AttrsApart, OwnBuffer, OwnRefs, SwapsAll
  <2>2. CASE Next
    BY <2>2, InsertNewStep, InsertMoreStep, RemoveStep, ClearStep, FreeStep,
       SwapStep DEF Next
  <2>3. QED
    BY <2>1, <2>2
<1>2. QED
  BY <1>1, OwnershipInit, PTL DEF Spec

(* In multiset, unordered_multimap and unordered_multiset, each container in
   use owns the attributes of its own entries, after any swaps and frees. *)
THEOREM EntriesOwned == Spec => []OwnsItsEntries
<1>1. Ownership => OwnsItsEntries
  BY DEF Ownership, OwnRefs, OwnsItsEntries, Present
<1>2. QED
  BY <1>1, OwnershipInvariance, PTL

(* There, no operation of a container goes through attributes that the free
   of another one has taken away. *)
THEOREM NoneDangles == Spec => []NoDanglingWhereSwapsAll
<1>1. Ownership => NoDanglingWhereSwapsAll
  BY DEF Ownership, AttrsApart, OwnBuffer, OwnRefs, NoDanglingWhereSwapsAll,
         NoDanglingAttr, Present
<1>2. QED
  BY <1>1, OwnershipInvariance, PTL

-----------------------------------------------------------------------------
(* Sums: the fold that Entries is defined by, for any finite set. *)

(* Induction up to a bound, on the set of numbers for which a claim holds. *)
LEMMA Induction ==
  ASSUME NEW N \in Nat, NEW S, 0 \in S, \A n \in 0 .. N - 1 : n \in S => n + 1 \in S
  PROVE  \A n \in 0 .. N : n \in S
<1> SUFFICES ASSUME (0 .. N) \ S # {} PROVE FALSE
  OBVIOUS
<1>1. (0 .. N) \ S \in SUBSET Nat
  OBVIOUS
<1>2. PICK n \in (0 .. N) \ S : \A m \in (0 .. N) \ S : ~ (<< m, n >> \in OpToRel(<, Nat))
  BY <1>1, NatLessThanWellFounded, WFMin, Zenon
<1>3. \A m \in (0 .. N) \ S : ~ (m < n)
  BY <1>1, <1>2 DEF OpToRel
<1>4. n \in 1 .. N /\ n - 1 \in 0 .. N - 1 /\ n - 1 \in S
  BY <1>3
<1>5. n \in S
  BY <1>4
<1>6. QED
  BY <1>2, <1>5

\* The element of a set that the fold takes next.
Picked(s) == CHOOSE x \in s : TRUE

\* g is the fold on the sets in D.
FoldsOn(g, f, D) ==
  g = [s \in D |-> IF s = {} THEN 0 ELSE f[Picked(s)] + g[s \ {Picked(s)}]]

Sums(f, S) == CHOOSE g : FoldsOn(g, f, SUBSET S)

\* The subsets of S with at most n elements.
Small(S, n) == {s \in SUBSET S : Cardinality(s) <= n}

(* A set without one of its elements is finite and smaller by one. *)
LEMMA Smaller ==
  ASSUME NEW S, IsFiniteSet(S), NEW s \in SUBSET S
  PROVE  /\ IsFiniteSet(s) /\ Cardinality(s) \in 0 .. Cardinality(S) /\ Cardinality(S) \in Nat
         /\ \A x \in s : Cardinality(s \ {x}) = Cardinality(s) - 1
         /\ Cardinality(s) = 0 <=> s = {}
<1>1. IsFiniteSet(s) /\ Cardinality(s) <= Cardinality(S)
  BY FS_Subset
<1>2. Cardinality(s) \in Nat /\ Cardinality(S) \in Nat
  BY <1>1, FS_CardinalityType
<1>3. \A x \in s : Cardinality(s \ {x}) = Cardinality(s) - 1
  BY <1>1, FS_RemoveElement
<1>4. QED
  BY <1>1, <1>2, <1>3, FS_EmptySet

(* The fold exists: it is extended from the sets of n elements to those of n + 1. *)
LEMMA FoldExists ==
  ASSUME NEW S, IsFiniteSet(S), NEW f
  PROVE  \E g : FoldsOn(g, f, SUBSET S)
<1> DEFINE Claim == {n \in Nat : \E g : FoldsOn(g, f, Small(S, n))}
           N == Cardinality(S)
<1>1. N \in Nat
  BY Smaller
<1>2. 0 \in Claim
  <2>1. \A s \in Small(S, 0) : s = {}
    BY Smaller DEF Small
  <2>2. FoldsOn([s \in Small(S, 0) |-> 0], f, Small(S, 0))
    BY <2>1 DEF FoldsOn
  <2>3. QED
    BY <2>2
<1>3. ASSUME NEW n \in 0 .. N - 1, n \in Claim PROVE n + 1 \in Claim
  <2>1. PICK g : FoldsOn(g, f, Small(S, n))
    BY <1>3
  <2> DEFINE next(s) == IF s = {} THEN 0 ELSE f[Picked(s)] + g[s \ {Picked(s)}]
             h == [s \in Small(S, n + 1) |-> next(s)]
  <2>2. \A s \in Small(S, n) : g[s] = next(s) /\ s \in Small(S, n + 1) /\ h[s] = g[s]
    <3>1. \A s \in Small(S, n) : g[s] = next(s)
      BY <2>1 DEF FoldsOn
    <3>2. \A s \in Small(S, n) : s \in Small(S, n + 1)
      BY <1>3, Smaller DEF Small
    <3>3. QED
      BY <3>1, <3>2
  <2>3. ASSUME NEW s \in Small(S, n + 1), s # {}
        PROVE  s \ {Picked(s)} \in Small(S, n)
    <3>1. Picked(s) \in s
      BY <2>3 DEF Picked
    <3>2. QED
      BY <1>3, <3>1, Smaller DEF Small
  <2>4. \A s \in Small(S, n + 1) :
          h[s] = IF s = {} THEN 0 ELSE f[Picked(s)] + h[s \ {Picked(s)}]
    BY <2>2, <2>3
  <2>5. FoldsOn(h, f, Small(S, n + 1))
    BY <2>4 DEF FoldsOn
  <2>6. QED
    BY <1>3, <2>5
<1>4. N \in Claim
  <2> HIDE DEF Claim
  <2>1. \A n \in 0 .. N : n \in Claim
    BY <1>1, <1>2, <1>3, Induction
  <2>2. QED
    BY <1>1, <2>1
<1>5. Small(S, N) = SUBSET S
  BY Smaller DEF Small
<1>6. QED
  BY <1>4, <1>5

(* What the fold does with its pick. *)
LEMMA SumsFold ==
  ASSUME NEW S, IsFiniteSet(S), NEW f, NEW s \in SUBSET S
  PROVE  Sums(f, S)[s] = IF s = {} THEN 0 ELSE f[Picked(s)] + Sums(f, S)[s \ {Picked(s)}]
<1>1. FoldsOn(Sums(f, S), f, SUBSET S)
  BY FoldExists DEF Sums
<1> DEFINE G == Sums(f, S)
<1>2. G = [r \in SUBSET S |-> IF r = {} THEN 0 ELSE f[Picked(r)] + G[r \ {Picked(r)}]]
  BY <1>1 DEF FoldsOn
<1> HIDE DEF G
<1>3. G[s] = IF s = {} THEN 0 ELSE f[Picked(s)] + G[s \ {Picked(s)}]
  BY <1>2
<1>4. QED
  BY <1>3 DEF G

(* A sum is a number, and it does not matter which element is taken first. *)
LEMMA SumsFacts ==
  ASSUME NEW S, IsFiniteSet(S), NEW f \in [S -> Nat]
  PROVE  \A s \in SUBSET S : /\ Sums(f, S)[s] \in Nat
                             /\ \A x \in s : Sums(f, S)[s] = f[x] + Sums(f, S)[s \ {x}]
<1> DEFINE G == Sums(f, S)
           N == Cardinality(S)
           Claim == {n \in Nat : \A s \in Small(S, n) :
                       G[s] \in Nat /\ \A x \in s : G[s] = f[x] + G[s \ {x}]}
<1>1. N \in Nat
  BY Smaller
<1>2. \A s \in SUBSET S : G[s] = IF s = {} THEN 0 ELSE f[Picked(s)] + G[s \ {Picked(s)}]
  BY SumsFold
<1> HIDE DEF G
<1>3. 0 \in Claim
  BY <1>2, Smaller DEF Small
<1>4. ASSUME NEW n \in 0 .. N - 1, n \in Claim PROVE n + 1 \in Claim
  <2>1. ASSUME NEW s \in Small(S, n + 1), s # {}
        PROVE  G[s] \in Nat /\ \A x \in s : G[s] = f[x] + G[s \ {x}]
    <3> DEFINE y == Picked(s)
    <3>1. y \in s /\ G[s] = f[y] + G[s \ {y}]
      BY <1>2, <2>1 DEF Picked, Small
    <3> HIDE DEF y
    <3>2. \A x \in s : s \ {x} \in Small(S, n)
      BY <1>4, Smaller DEF Small
    <3>3. \A x \in s : x \in S /\ f[x] \in Nat
      BY DEF Small
    <3>4. \A x \in s : G[s \ {x}] \in Nat
      BY <1>4, <3>2
    <3>5. G[s] \in Nat
      <4>1. f[y] \in Nat /\ G[s \ {y}] \in Nat
        BY <3>1, <3>3, <3>4
      <4>2. QED
        BY <3>1, <4>1
    <3>6. ASSUME NEW x \in s, x # y PROVE G[s] = f[x] + G[s \ {x}]
      <4>1. G[s \ {y}] = f[x] + G[(s \ {y}) \ {x}]
        BY <1>4, <3>1, <3>2, <3>6
      <4>2. G[s \ {x}] = f[y] + G[(s \ {x}) \ {y}]
        BY <1>4, <3>1, <3>2, <3>6
      <4>3. (s \ {y}) \ {x} = (s \ {x}) \ {y}
        OBVIOUS
      <4>4. G[(s \ {x}) \ {y}] \in Nat
        <5>1. (s \ {x}) \ {y} \in Small(S, n)
          <6>1. s \ {x} \in SUBSET S /\ y \in s \ {x} /\ s \ {x} \in Small(S, n)
            BY <3>1, <3>2, <3>6 DEF Small
          <6>2. Cardinality((s \ {x}) \ {y}) = Cardinality(s \ {x}) - 1 /\ Cardinality(s \ {x}) \in Nat
            BY <6>1, Smaller
          <6>3. QED
            BY <1>4, <6>1, <6>2 DEF Small
        <5>2. QED
          BY <1>4, <5>1
      <4>5. f[x] \in Nat /\ f[y] \in Nat
        BY <3>1, <3>3
      <4> DEFINE r == G[(s \ {x}) \ {y}]
                 a == G[s \ {x}]
                 b == G[s \ {y}]
      <4>6. b = f[x] + r /\ a = f[y] + r /\ r \in Nat /\ G[s] = f[y] + b
        BY <3>1, <4>1, <4>2, <4>3, <4>4
      <4> HIDE DEF r, a, b
      <4>7. G[s] = f[x] + a
        BY <4>5, <4>6
      <4>8. QED
        BY <4>7 DEF a
    <3>7. QED
      BY <3>1, <3>5, <3>6
  <2>2. G[{}] = 0
    BY <1>2
  <2>3. ASSUME NEW s \in Small(S, n + 1)
        PROVE  G[s] \in Nat /\ \A x \in s : G[s] = f[x] + G[s \ {x}]
    <3>1. CASE s = {}
      BY <2>2, <3>1
    <3>2. QED
      BY <2>1, <3>1
  <2>4. QED
    BY <1>4, <2>3
<1>5. N \in Claim
  <2> HIDE DEF Claim
  <2>1. \A n \in 0 .. N : n \in Claim
    BY <1>1, <1>3, <1>4, Induction
  <2>2. QED
    BY <1>1, <2>1
<1>6. Small(S, N) = SUBSET S
  BY Smaller DEF Small
<1>7. QED
  BY <1>5, <1>6 DEF G

(* Sums of equal numbers are equal. *)
LEMMA SumsAgree ==
  ASSUME NEW S, IsFiniteSet(S), NEW f, NEW g,
         NEW T \in SUBSET S, \A x \in T : f[x] = g[x]
  PROVE  Sums(f, S)[T] = Sums(g, S)[T]
<1> DEFINE F == Sums(f, S)
           G == Sums(g, S)
           N == Cardinality(S)
           Claim == {n \in Nat : \A s \in Small(T, n) : F[s] = G[s]}
<1>1. N \in Nat
  BY Smaller
<1>2. \A s \in SUBSET S : /\ F[s] = IF s = {} THEN 0 ELSE f[Picked(s)] + F[s \ {Picked(s)}]
                          /\ G[s] = IF s = {} THEN 0 ELSE g[Picked(s)] + G[s \ {Picked(s)}]
  BY SumsFold
<1> HIDE DEF F, G
<1>3. 0 \in Claim
  <2>1. \A s \in Small(T, 0) : s \in SUBSET S /\ s = {}
    BY Smaller DEF Small
  <2>2. QED
    BY <1>2, <2>1
<1>4. ASSUME NEW n \in 0 .. N - 1, n \in Claim PROVE n + 1 \in Claim
  <2>1. ASSUME NEW s \in Small(T, n + 1), s # {} PROVE F[s] = G[s]
    <3>1. s \in SUBSET S /\ s \in SUBSET T /\ Picked(s) \in s
      BY <2>1 DEF Small, Picked
    <3>2. s \ {Picked(s)} \in Small(T, n)
      BY <1>4, <3>1, Smaller DEF Small
    <3>3. F[s \ {Picked(s)}] = G[s \ {Picked(s)}] /\ f[Picked(s)] = g[Picked(s)]
      BY <1>4, <3>1, <3>2
    <3>4. QED
      BY <1>2, <2>1, <3>1, <3>3
  <2>2. F[{}] = G[{}]
    BY <1>2
  <2>3. \A s \in Small(T, n + 1) : F[s] = G[s]
    BY <2>1, <2>2
  <2>4. QED
    BY <1>4, <2>3
<1>5. N \in Claim
  <2> HIDE DEF Claim
  <2>1. \A n \in 0 .. N : n \in Claim
    BY <1>1, <1>3, <1>4, Induction
  <2>2. QED
    BY <1>1, <2>1
<1>6. T \in Small(T, N)
  BY Smaller DEF Small
<1>7. QED
  BY <1>5, <1>6 DEF F, G

(* A sum of zeros is zero. *)
LEMMA SumsZero ==
  ASSUME NEW S, IsFiniteSet(S)
  PROVE  Sums([x \in S |-> 0], S)[S] = 0
<1> DEFINE z == [x \in S |-> 0]
           G == Sums(z, S)
           N == Cardinality(S)
           Claim == {n \in Nat : \A s \in Small(S, n) : G[s] = 0}
<1>1. N \in Nat
  BY Smaller
<1>2. \A s \in SUBSET S : G[s] = IF s = {} THEN 0 ELSE z[Picked(s)] + G[s \ {Picked(s)}]
  BY SumsFold
<1> HIDE DEF G
<1>3. 0 \in Claim
  BY <1>2, Smaller DEF Small
<1>4. ASSUME NEW n \in 0 .. N - 1, n \in Claim PROVE n + 1 \in Claim
  <2>1. ASSUME NEW s \in Small(S, n + 1), s # {} PROVE G[s] = 0
    <3>1. s \in SUBSET S /\ Picked(s) \in s
      BY <2>1 DEF Small, Picked
    <3>2. s \ {Picked(s)} \in Small(S, n)
      BY <1>4, <3>1, Smaller DEF Small
    <3>3. G[s \ {Picked(s)}] = 0 /\ z[Picked(s)] = 0
      BY <1>4, <3>1, <3>2
    <3>4. QED
      BY <1>2, <2>1, <3>1, <3>3
  <2>2. \A s \in Small(S, n + 1) : G[s] = 0
    <3>1. G[{}] = 0
      BY <1>2
    <3>2. QED
      BY <2>1, <3>1
  <2>3. QED
    BY <1>4, <2>2
<1>5. N \in Claim
  <2> HIDE DEF Claim
  <2>1. \A n \in 0 .. N : n \in Claim
    BY <1>1, <1>3, <1>4, Induction
  <2>2. QED
    BY <1>1, <2>1
<1>6. S \in Small(S, N)
  BY Smaller DEF Small
<1>7. QED
  BY <1>5, <1>6 DEF G

-----------------------------------------------------------------------------
(* The sizes. *)

Total(f) == Sums(f, Keys)[Keys]

(* Entries is the total of the values of a container. *)
LEMMA EntriesAreTotal == \A c \in Containers : Entries(c) = Total(values[c])
BY DEF Entries, MapThenSumSet, MapThenFoldSet, Total, Sums, FoldsOn, Picked

(* What a new number of values under one key does to the total. *)
LEMMA TotalChanges ==
  ASSUME NEW f \in [Keys -> Nat], NEW k \in Keys, NEW g \in [Keys -> Nat],
         \A x \in Keys \ {k} : g[x] = f[x]
  PROVE  /\ Total(f) \in Nat /\ Total(g) \in Nat
         /\ Total(f) - f[k] \in Nat /\ Total(g) = Total(f) - f[k] + g[k]
<1>1. IsFiniteSet(Keys)
  BY KindsAssumption
<1> DEFINE restF == Sums(f, Keys)[Keys \ {k}]
           restG == Sums(g, Keys)[Keys \ {k}]
<1>2. /\ Total(f) \in Nat /\ Total(f) = f[k] + restF /\ restF \in Nat
      /\ Total(g) \in Nat /\ Total(g) = g[k] + restG
  BY <1>1, SumsFacts DEF Total
<1>3. restF = restG
  BY <1>1, SumsAgree
<1>4. f[k] \in Nat /\ g[k] \in Nat
  OBVIOUS
<1> HIDE DEF restF, restG
<1>5. QED
  BY <1>2, <1>3, <1>4

(* A container without values has none in total. *)
LEMMA TotalOfNone == Total([k \in Keys |-> 0]) = 0
BY KindsAssumption, SumsZero DEF Total

\* What the size field has to be.
Right(s, n) == IF kind = "unordered_multimap" THEN s >= n ELSE s = n

\* The maps have one value under a key at most.
Single == kind \in Unique => \A c \in Containers, k \in Keys : values[c][k] <= 1
Sized  == \A c \in Containers : Right(size[c], Total(values[c]))

Counted == TypeOK /\ Single /\ Sized

(* All containers are empty at the start. *)
LEMMA CountedInit == Init => Counted
<1> SUFFICES ASSUME Init PROVE Counted
  OBVIOUS
<1>1. TypeOK
  BY KindsAssumption DEF Init, TypeOK
<1>2. Single /\ Sized
  BY TotalOfNone DEF Init, Single, Sized, Right
<1>3. QED
  BY <1>1, <1>2 DEF Counted

(* An operation that gives the key k of the container c another number of
   values, and its size field what keeps it right. *)
LEMMA CountedStep ==
  ASSUME Counted, NEW c \in Containers, NEW k \in Keys,
         NEW n \in 0 .. MaxValues, kind \in Unique => n <= 1,
         NEW s \in Nat, \A r \in Nat : Right(size[c], r + values[c][k]) => Right(s, r + n),
         values' = [values EXCEPT ![c][k] = n], size' = [size EXCEPT ![c] = s],
         ref' \in [Containers -> [Keys -> Containers \cup {NoAttr}]], UNCHANGED owners
  PROVE  Counted'
<1>1. /\ values \in [Containers -> [Keys -> 0 .. MaxValues]] /\ MaxValues \in Nat
      /\ size \in [Containers -> Nat] /\ kind' = kind
  BY KindsAssumption DEF Counted, TypeOK, owners
<1>2. values' \in [Containers -> [Keys -> 0 .. MaxValues]] /\ size' \in [Containers -> Nat]
  BY <1>1
<1>3. TypeOK'
  BY <1>2 DEF Counted, TypeOK, owners
<1>4. Single'
  <2>1. \A d \in Containers, j \in Keys : values'[d][j] = n \/ values'[d][j] = values[d][j]
    BY <1>1
  <2>2. QED
    BY <1>1, <2>1 DEF Counted, Single
<1>5. ASSUME NEW d \in Containers PROVE Right(size'[d], Total(values'[d]))
  <2>1. CASE d # c
    BY <1>1, <1>5, <2>1 DEF Counted, Sized
  <2>2. CASE d = c
    <3>1. /\ values[c] \in [Keys -> Nat] /\ values'[c] \in [Keys -> Nat] /\ values'[c][k] = n
          /\ \A j \in Keys \ {k} : values'[c][j] = values[c][j]
      BY <1>1, <1>2
    <3> DEFINE r == Total(values[c]) - values[c][k]
    <3>2. r \in Nat /\ Total(values'[c]) = r + n /\ Total(values[c]) = r + values[c][k]
      <4>1. values[c][k] \in Nat
        BY <3>1
      <4>2. QED
        BY <3>1, <4>1, TotalChanges
    <3> HIDE DEF r
    <3>3. Right(size[c], r + values[c][k])
      BY <3>2 DEF Counted, Sized
    <3>4. size'[c] = s
      BY <1>1
    <3>5. QED
      BY <2>2, <3>2, <3>3, <3>4
  <2>3. QED
    BY <2>1, <2>2
<1>6. Sized'
  BY <1>1, <1>5 DEF Sized, Right
<1>7. QED
  BY <1>3, <1>4, <1>6 DEF Counted

(* A new entry has one value. *)
LEMMA CountedInsertNew ==
  ASSUME Counted, NEW c \in Containers, NEW k \in Keys, InsertNew(c, k)
  PROVE  Counted'
<1> DEFINE n == 1
           s == size[c] + 1
<1>1. /\ size[c] \in Nat /\ values[c][k] = 0 /\ NewRef(c) \in Containers
      /\ n \in 0 .. MaxValues /\ (kind \in Unique => n <= 1) /\ s \in Nat
  BY KindsAssumption DEF Counted, TypeOK, InsertNew, NewRef
<1>2. ref' \in [Containers -> [Keys -> Containers \cup {NoAttr}]]
  BY <1>1 DEF Counted, TypeOK, InsertNew
<1>3. \A r \in Nat : Right(size[c], r + values[c][k]) => Right(s, r + n)
  BY <1>1 DEF Right
<1>4. values' = [values EXCEPT ![c][k] = n] /\ size' = [size EXCEPT ![c] = s] /\ UNCHANGED owners
  BY DEF InsertNew
<1> HIDE DEF n, s
<1>5. QED
  BY <1>1, <1>2, <1>3, <1>4, CountedStep

(* A further value counts one more; the maps take none. *)
LEMMA CountedInsertMore ==
  ASSUME Counted, NEW c \in Containers, NEW k \in Keys, InsertMore(c, k)
  PROVE  Counted'
<1> DEFINE n == values[c][k] + 1
           s == size[c] + 1
<1>1. /\ size[c] \in Nat /\ values[c][k] \in Nat
      /\ n \in 0 .. MaxValues /\ (kind \in Unique => n <= 1) /\ s \in Nat
  BY KindsAssumption DEF Counted, TypeOK, InsertMore
<1>2. ref' \in [Containers -> [Keys -> Containers \cup {NoAttr}]]
  BY DEF Counted, TypeOK, InsertMore
<1>3. \A r \in Nat : Right(size[c], r + values[c][k]) => Right(s, r + n)
  BY <1>1 DEF Right
<1>4. values' = [values EXCEPT ![c][k] = n] /\ size' = [size EXCEPT ![c] = s] /\ UNCHANGED owners
  BY DEF InsertMore, Counted, TypeOK
<1> HIDE DEF n, s
<1>5. QED
  BY <1>1, <1>2, <1>3, <1>4, CountedStep

(* A removal: an occurrence goes, or all values of the key, of which a map has
   one.  What multimap takes off its size is that number, and what
   unordered_multimap takes off is not more. *)
LEMMA CountedRemove ==
  ASSUME Counted, NEW c \in Containers, NEW k \in Keys, Remove(c, k)
  PROVE  Counted'
<1> DEFINE v == values[c][k]
           n == v - Removed(c, k)
           s == size[c] - SizeLost(c, k)
<1>1. /\ size[c] \in Nat /\ v \in 0 .. MaxValues /\ v > 0 /\ MaxValues \in Nat
      /\ kind \in AllKinds /\ (kind \in Unique => v <= 1)
  BY KindsAssumption DEF Counted, TypeOK, Single, Remove
<1>2. ref' \in [Containers -> [Keys -> Containers \cup {NoAttr}]]
  BY DEF Counted, TypeOK, Remove
<1>3. Removed(c, k) = (IF kind \in Occurrence THEN 1 ELSE v)
  BY DEF Removed
<1>4. SizeLost(c, k) = (IF kind = "multimap" THEN v ELSE 1)
  BY DEF SizeLost
<1>5. \E r \in Nat : Right(size[c], r + v)
  <2>1. values[c] \in [Keys -> Nat]
    BY KindsAssumption DEF Counted, TypeOK
  <2>2. Total(values[c]) - v \in Nat /\ Total(values[c]) \in Nat
    BY <2>1, TotalChanges
  <2>3. Right(size[c], (Total(values[c]) - v) + v)
    BY <1>1, <2>2 DEF Counted, Sized
  <2>4. QED
    BY <2>2, <2>3
<1>6. values' = [values EXCEPT ![c][k] = n] /\ size' = [size EXCEPT ![c] = s] /\ UNCHANGED owners
  BY DEF Remove, Counted, TypeOK
<1> HIDE DEF v
<1>7. n \in 0 .. MaxValues /\ (kind \in Unique => n <= 1)
  BY <1>1, <1>3 DEF Occurrence, Unique
<1>8. s \in Nat
  BY <1>1, <1>4, <1>5 DEF Right
<1>9. \A r \in Nat : Right(size[c], r + v) => Right(s, r + n)
  BY <1>1, <1>3, <1>4 DEF Right, AllKinds, Unique, Occurrence
<1> HIDE DEF n, s
<1>10. QED
  BY <1>2, <1>6, <1>7, <1>8, <1>9, CountedStep DEF v

(* clear and free take everything and set the size to 0. *)
LEMMA CountedEmptied ==
  ASSUME Counted, NEW c \in Containers, Clear(c) \/ Free(c)
  PROVE  Counted'
<1>1. /\ values' = [values EXCEPT ![c] = [k \in Keys |-> 0]]
      /\ ref' = [ref EXCEPT ![c] = [k \in Keys |-> NoAttr]]
      /\ size' = [size EXCEPT ![c] = 0] /\ kind' = kind /\ attr' = attr /\ buf' = buf
      /\ live' \subseteq live /\ freed' \subseteq freed \cup {attr[c]}
  BY DEF Clear, Free, owners
<1>2. TypeOK'
  BY <1>1, KindsAssumption DEF Counted, TypeOK
<1>3. \A d \in Containers : /\ d # c => values'[d] = values[d] /\ size'[d] = size[d]
                            /\ d = c => values'[d] = [k \in Keys |-> 0] /\ size'[d] = 0
  BY <1>1 DEF Counted, TypeOK
<1>4. Single'
  <2>1. \A d \in Containers, k \in Keys : values'[d][k] = values[d][k] \/ values'[d][k] = 0
    BY <1>3
  <2>2. QED
    BY <1>1, <2>1 DEF Counted, Single
<1>5. Sized'
  BY <1>1, <1>3, TotalOfNone DEF Counted, Sized, Right
<1>6. QED
  BY <1>2, <1>4, <1>5 DEF Counted

(* The sizes go with the values. *)
LEMMA CountedSwap ==
  ASSUME Counted, NEW c \in Containers, NEW d \in Containers, Swap(c, d)
  PROVE  Counted'
<1>1. /\ values' = Exchanged(values, c, d) /\ ref' = Exchanged(ref, c, d)
      /\ size' = Exchanged(size, c, d) /\ attr' = Exchanged(attr, c, d)
      /\ buf' = Exchanged(buf, c, d) \/ buf' = buf
      /\ kind' = kind /\ live' = live /\ freed' = freed
  BY DEF Swap
<1>2. TypeOK'
  BY <1>1 DEF Counted, TypeOK, Exchanged
<1>3. \A x \in Containers : \E y \in Containers : values'[x] = values[y] /\ size'[x] = size[y]
  BY <1>1 DEF Counted, TypeOK, Exchanged
<1>4. Single'
  BY <1>1, <1>3 DEF Counted, Single
<1>5. Sized'
  BY <1>1, <1>3 DEF Counted, Sized, Right
<1>6. QED
  BY <1>2, <1>4, <1>5 DEF Counted

(* The counts are inductive. *)
THEOREM CountedInvariance == Spec => []Counted
<1>1. Counted /\ [Next]_vars => Counted'
  <2> SUFFICES ASSUME Counted, [Next]_vars PROVE Counted'
    OBVIOUS
  <2>1. CASE UNCHANGED vars
    BY <2>1 DEF vars, Counted, TypeOK, Single, Sized, Right
  <2>2. CASE Next
    BY <2>2, CountedInsertNew, CountedInsertMore, CountedRemove, CountedEmptied, CountedSwap DEF Next
  <2>3. QED
    BY <2>1, <2>2
<1>2. QED
  BY <1>1, CountedInit, PTL DEF Spec

(* Every field keeps its type; a size, which is taken down without a test, never
   falls below 0, not even where it is taken down by more or less than what goes. *)
THEOREM TypeCorrect == Spec => []TypeOK
<1>1. Counted => TypeOK
  BY DEF Counted
<1>2. QED
  BY <1>1, CountedInvariance, PTL

(* The size field is the number of values in a container, occurrences in the
   multisets, for any number of keys and any history of inserts, erases, clears
   and swaps that find memory, in every kind but unordered_multimap: of its size
   the invariant only says that it is never too small. *)
THEOREM SizesCorrect == Spec => []SizeIsEntries
<1>1. Counted => SizeIsEntries
  BY EntriesAreTotal DEF Counted, TypeOK, Sized, Right, SizeIsEntries
<1>2. QED
  BY <1>1, CountedInvariance, PTL

=============================================================================
