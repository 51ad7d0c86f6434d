-------------------------- MODULE HashTableProofs --------------------------
(***************************************************************************)
(* Proofs about HashTable, for every set of elements, every hash callback  *)
(* and every first capacity: the inductive invariant IInv, the properties  *)
(* it implies, and that the table implements the set of UnorderedSetSpec.  *)
(***************************************************************************)
EXTENDS HashTable, FiniteSetTheorems, TLAPS

-----------------------------------------------------------------------------
(* Arithmetic of the probe: wrapping, home slots and cyclic ranges. *)

(* The cursor advances by one and wraps to slot 0 after the last slot. *)
LEMMA StepWraps ==
  ASSUME NEW c \in Nat \ {0}, NEW i \in 0 .. c - 1
  PROVE  /\ Step(i, c) = IF i + 1 = c THEN 0 ELSE i + 1
         /\ Step(i, c) \in 0 .. c - 1
BY DEF Step

(* The home slot of an element is a slot. *)
LEMMA HomeIsSlot ==
  ASSUME NEW k \in Keys, NEW c \in Nat \ {0}
  PROVE  Home(k, c) \in 0 .. c - 1
<1>1. Hash[k] \in Nat
  BY HashAssumption
<1>2. QED
  BY <1>1 DEF Home

(* One more step of a probe leaves one more slot behind it. *)
LEMMA RangeGrows ==
  ASSUME NEW c \in Nat \ {0}, NEW a \in 0 .. c - 1, NEW i \in 0 .. c - 1,
         NEW j \in 0 .. c - 1, InRange(a, j, Step(i, c))
  PROVE  InRange(a, j, i) \/ j = i
BY StepWraps DEF InRange

(* A slot a probe has not passed lies beyond the cursor: the way to it from
   the same home slot goes through the cursor. *)
LEMMA RangeBeyond ==
  ASSUME NEW c \in Nat \ {0}, NEW a \in 0 .. c - 1, NEW b \in 0 .. c - 1,
         NEW i \in 0 .. c - 1, i # b, ~InRange(a, i, b)
  PROVE  InRange(a, b, i)
BY DEF InRange

(* A probe about to be back at its first slot has passed every other slot. *)
LEMMA RangeComplete ==
  ASSUME NEW c \in Nat \ {0}, NEW a \in 0 .. c - 1, NEW i \in 0 .. c - 1,
         NEW j \in 0 .. c - 1, Step(i, c) = a, j # i
  PROVE  InRange(a, j, i)
BY StepWraps DEF InRange

(* No slot is behind a probe that has just begun. *)
LEMMA RangeStarts ==
  ASSUME NEW a \in Nat, NEW j \in Nat
  PROVE  ~InRange(a, j, a)
BY DEF InRange

-----------------------------------------------------------------------------
(* The elements of a table. *)

(* Under TypeOK the capacity is positive and slots hold elements or markers. *)
LEMMA CapPositive ==
  ASSUME TypeOK
  PROVE  cap \in Nat \ {0} /\ 2 * cap \in Nat \ {0} /\ cap \notin Slots
BY DEF TypeOK, Slots

(* A table without duplicates has as many live slots as elements. *)
LEMMA LiveCount ==
  ASSUME TypeOK
  PROVE  /\ IsFiniteSet(Contents)
         /\ NoDuplicates => Cardinality(Occupied) = Cardinality(Contents)
<1> DEFINE f == [i \in Occupied |-> slot[i]]
<1>1. IsFiniteSet(Occupied)
  <2>1. IsFiniteSet(Slots)
    BY CapPositive, FS_Interval DEF Slots
  <2>2. Occupied \in SUBSET Slots
    BY DEF Occupied
  <2>3. QED
    BY <2>1, <2>2, FS_Subset
<1>2. f \in Surjection(Occupied, Contents)
  BY DEF Surjection, Occupied, Contents
<1>3. IsFiniteSet(Contents)
  BY <1>1, <1>2, FS_Surjection
<1>4. ASSUME NoDuplicates
      PROVE  Cardinality(Occupied) = Cardinality(Contents)
  <2>1. f \in Injection(Occupied, Contents)
    BY <1>2, <1>4 DEF Surjection, Injection, IsInjective, NoDuplicates, Occupied
  <2>2. QED
    BY <1>1, <1>2, <2>1, FS_Surjection
<1>5. QED
  BY <1>3, <1>4

(* A probe that reaches an EMPTY slot without a match has proved that the
   element is not in the table: what the loops of find_index and add_entry
   rely on when they stop. *)
LEMMA ProbeMisses ==
  ASSUME TypeOK, ChainsUnbroken, NEW k \in Keys, NEW b \in Slots, slot[b] = Empty,
         \A j \in Slots : InRange(Home(k, cap), j, b) => slot[j] # k
  PROVE  k \notin Contents
<1>1. SUFFICES ASSUME NEW i \in Slots, slot[i] = k
               PROVE  FALSE
  BY DEF Contents
<1>2. i # b /\ ~InRange(Home(k, cap), i, b)
  BY <1>1, HashAssumption
<1>3. InRange(Home(k, cap), b, i)
  BY <1>2, CapPositive, HomeIsSlot, RangeBeyond DEF Slots
<1>4. Reachable(k, i, slot, cap)
  BY <1>1 DEF ChainsUnbroken
<1>5. QED
  BY <1>3, <1>4 DEF Reachable, Slots

-----------------------------------------------------------------------------
\* IInv is inductive: the initial table, then one lemma per kind of step.

(* The table init makes, EMPTY in every slot, satisfies IInv. *)
LEMMA InitIInv == Init => IInv
<1> SUFFICES ASSUME Init PROVE IInv
  OBVIOUS
<1>1. \A i \in Slots : slot[i] = Empty
  BY DEF Init, AllEmpty, Slots
<1>2. TypeOK
  BY CapAssumption, HashAssumption DEF Init, TypeOK, AllEmpty, Slots, Content
<1>3. Contents = {}
  BY <1>1, HashAssumption DEF Contents
<1>4. size = Cardinality(Contents)
  BY <1>3, FS_EmptySet DEF Init
<1>5. NoDuplicates /\ ChainsUnbroken
  BY <1>1, HashAssumption DEF NoDuplicates, ChainsUnbroken
<1>6. LoadBound
  BY CapAssumption DEF Init, LoadBound
<1>7. RehashPartial /\ ProbeKnows
  BY DEF Init, RehashPartial, ProbeKnows
<1>8. QED
  BY <1>2, <1>4, <1>5, <1>6, <1>7 DEF IInv

(* A step that leaves the table alone keeps what IInv says of the table. *)
LEMMA TableKept ==
  ASSUME IInv, UNCHANGED table
  PROVE  /\ Contents' = Contents /\ Slots' = Slots
         /\ size' = Cardinality(Contents')
         /\ NoDuplicates' /\ ChainsUnbroken' /\ LoadBound'
<1>1. cap' = cap /\ slot' = slot /\ size' = size
  BY DEF table
<1>2. Slots' = Slots /\ Contents' = Contents
  BY <1>1 DEF Slots, Contents
<1>3. NoDuplicates'
  BY <1>1, <1>2 DEF IInv, NoDuplicates
<1>4. ChainsUnbroken'
  BY <1>1, <1>2 DEF IInv, ChainsUnbroken, Reachable, Home
<1>5. LoadBound'
  BY <1>1 DEF IInv, LoadBound
<1>6. QED
  BY <1>1, <1>2, <1>3, <1>4, <1>5 DEF IInv

(* Beginning a call and the load check: the cursor starts at a home slot. *)
LEMMA BeginKeepsIInv ==
  ASSUME IInv,
         \/ \E k \in Keys : AddCall(k) \/ RemoveCall(k)
         \/ \E k \in Keys, op \in {"get", "count"} : LookupCall(op, k)
         \/ AddEnter
  PROVE  IInv'
<1>1. UNCHANGED table /\ UNCHANGED grow
  BY DEF AddCall, RemoveCall, LookupCall, AddEnter
<1>2. cap' = cap /\ slot' = slot /\ size' = size /\ newSlot' = newSlot /\ scan' = scan
  BY <1>1 DEF table, grow
<1>3. TypeOK'
  <2>1. CASE \E k \in Keys : AddCall(k)
    BY <1>2, <2>1, HashAssumption DEF AddCall, IInv, TypeOK, Slots, Content
  <2>2. CASE \E k \in Keys : RemoveCall(k)
    BY <1>2, <2>2, HashAssumption, CapPositive, HomeIsSlot
       DEF RemoveCall, IInv, TypeOK, Slots, Content
  <2>3. CASE \E k \in Keys, op \in {"get", "count"} : LookupCall(op, k)
    <3>1. PICK k \in Keys, op \in {"get", "count"} : LookupCall(op, k)
      BY <2>3
    <3>2. Home(k, cap) \in 0 .. cap - 1 /\ Home(key', cap') = Home(k, cap)
      BY <1>2, <3>1, CapPositive, HomeIsSlot DEF LookupCall, IInv, Home
    <3>3. QED
      BY <1>2, <3>1, <3>2, HashAssumption DEF LookupCall, IInv, TypeOK, Slots, Content
  <2>4. CASE AddEnter
    <3>1. key \in Keys
      BY <2>4 DEF AddEnter, IInv, TypeOK
    <3>2. Home(key, cap) \in 0 .. cap - 1
      BY <3>1, CapPositive, HomeIsSlot DEF IInv
    <3>3. QED
      BY <1>2, <2>4, <3>1, <3>2, HashAssumption
         DEF AddEnter, StartProbe, IInv, TypeOK, Slots, Content, NoIndex
  <2>5. QED
    BY <2>1, <2>2, <2>3, <2>4
<1>4. pc' \notin {"rehash", "reprobe"}
  BY DEF AddCall, RemoveCall, LookupCall, AddEnter, StartProbe
<1>5. pc' # "enter" => idx' = Home(key', cap')
  BY <1>2 DEF AddCall, RemoveCall, LookupCall, AddEnter, StartProbe, Home
<1>6. ProbeKnows'
  <2>1. pc' \in {"add", "remove", "get", "count"} =>
          \A j \in Slots' : ~InRange(Home(key', cap'), j, idx')
    <3>1. pc' \in {"add", "remove", "get", "count"} => idx' \in Nat
      BY <1>3 DEF TypeOK, Slots
    <3>2. \A j \in Slots' : j \in Nat
      BY <1>2 DEF Slots
    <3>3. QED
      BY <1>5, <3>1, <3>2, RangeStarts
  <2>2. pc' = "count" => count' = 0
    BY DEF AddCall, RemoveCall, LookupCall, AddEnter, StartProbe, IInv, TypeOK
  <2>3. pc' = "add" => first' = NoIndex' /\ ~NeedsRehash'
    BY <1>2 DEF AddCall, RemoveCall, LookupCall, AddEnter, StartProbe, NoIndex, NeedsRehash
  <2>4. QED
    BY <1>4, <2>1, <2>2, <2>3 DEF ProbeKnows
<1>7. QED
  BY <1>1, <1>3, <1>4, <1>6, TableKept DEF IInv, RehashPartial

(* One more iteration of a probe loop, in any of the four operations. *)
LEMMA ProbeStepKeepsIInv ==
  ASSUME IInv, AddStep \/ RemoveStep \/ GetStep \/ CountStep
  PROVE  IInv'
<1> USE DEF AddStep, RemoveStep, GetStep, CountStep
<1>1. UNCHANGED table /\ UNCHANGED grow
  OBVIOUS
<1>2. /\ cap' = cap /\ slot' = slot /\ size' = size /\ newSlot' = newSlot /\ scan' = scan
      /\ pc' = pc /\ key' = key /\ Slots' = Slots
  BY <1>1 DEF table, grow, Slots
<1>3. /\ pc \in {"add", "remove", "get", "count"} /\ idx' = Step(idx, cap)
      /\ slot[idx] # Empty /\ (pc # "count" => slot[idx] # key)
  OBVIOUS
<1>4. key \in Keys /\ idx \in Slots /\ cap \in Nat \ {0}
  BY <1>3, CapPositive DEF IInv, TypeOK
<1>5. Home(key, cap) \in Slots /\ Home(key', cap') = Home(key, cap)
  BY <1>2, <1>4, HomeIsSlot DEF Slots, Home
<1>6. idx' \in Slots
  BY <1>3, <1>4, StepWraps DEF Slots
<1>7. pc = "add" => first' \in Slots \cup {NoIndex}
  BY <1>4 DEF IInv, TypeOK
<1>8. TypeOK'
  BY <1>2, <1>3, <1>4, <1>5, <1>6, <1>7 DEF IInv, TypeOK, Content, NoIndex, Seen
<1>9. \A j \in Slots : InRange(Home(key, cap), j, idx') =>
                         InRange(Home(key, cap), j, idx) \/ j = idx
  BY <1>3, <1>4, <1>5, RangeGrows DEF Slots
<1>10. \A j \in Slots : InRange(Home(key, cap), j, idx) => slot[j] # Empty
  BY <1>3 DEF IInv, ProbeKnows
<1>11. ASSUME pc = "add", first' # NoIndex
       PROVE  slot[first'] = Tombstone /\ Reachable(key, first', slot, cap)
  <2>1. CASE first' = first
    BY <1>11, <2>1 DEF IInv, ProbeKnows
  <2>2. CASE first' = idx /\ slot[idx] = Tombstone
    BY <1>10, <2>2 DEF Reachable, Slots
  <2>3. QED
    BY <1>11, <2>1, <2>2
<1>12. ASSUME pc = "count"
       PROVE  count' = IF \E j \in Slots : InRange(Home(key, cap), j, idx') /\ slot[j] = key
                       THEN 1 ELSE 0
  \* The probe has not wrapped, so the slot it leaves is now behind it; the
  \* table holds the element once, so it was not counted before.
  <2>1. InRange(Home(key, cap), idx, idx')
    <3>1. idx' # Home(key, cap)
      BY <1>12 DEF IInv, TypeOK
    <3>2. QED
      BY <1>3, <1>4, <1>5, <3>1, StepWraps DEF InRange, Slots
  <2>2. \A j \in Slots : InRange(Home(key, cap), j, idx) => InRange(Home(key, cap), j, idx')
    <3>1. idx' # Home(key, cap)
      BY <1>12 DEF IInv, TypeOK
    <3>2. QED
      BY <1>3, <1>4, <1>5, <3>1, StepWraps DEF InRange, Slots
  <2>3. ~InRange(Home(key, cap), idx, idx)
    BY <1>4, <1>5 DEF InRange, Slots
  <2>4. \A j \in Slots : slot[j] = key /\ slot[idx] = key => j = idx
    BY <1>4 DEF IInv, NoDuplicates
  <2>5. count = IF \E j \in Slots : InRange(Home(key, cap), j, idx) /\ slot[j] = key
                THEN 1 ELSE 0
    BY <1>12 DEF IInv, ProbeKnows
  <2>6. count' = IF slot[idx] = key THEN count + 1 ELSE count
    BY <1>12 DEF Seen
  <2>7. QED
    BY <1>4, <1>9, <2>1, <2>2, <2>3, <2>4, <2>5, <2>6
<1>13. ProbeKnows'
  <2>1. \A j \in Slots : InRange(Home(key, cap), j, idx') => slot[j] # Empty
    BY <1>3, <1>9, <1>10
  <2>2. pc # "count" => \A j \in Slots : InRange(Home(key, cap), j, idx') => slot[j] # key
    BY <1>3, <1>9 DEF IInv, ProbeKnows
  <2>3. pc = "add" => ~NeedsRehash'
    BY <1>2 DEF IInv, ProbeKnows, NeedsRehash
  <2>4. Reachable(key, first', slot, cap) => Reachable(key, first, slot, cap)'
    BY <1>2 DEF Reachable, Home
  <2>5. QED
    BY <1>2, <1>3, <1>5, <1>11, <1>12, <2>1, <2>2, <2>3, <2>4 DEF ProbeKnows, NoIndex
<1>14. QED
  BY <1>1, <1>2, <1>3, <1>8, <1>13, TableKept DEF IInv, RehashPartial

(* A call that returns without having changed the table, or that crashes. *)
LEMMA ReturnKeepsIInv ==
  ASSUME IInv,
         \/ AddFound \/ RemoveAbsent \/ GetFound \/ GetAbsent \/ CountReturn
         \/ RehashNoMemory \/ RehashCrash
  PROVE  IInv'
<1> USE DEF AddFound, RemoveAbsent, GetFound, GetAbsent, CountReturn,
            RehashNoMemory, RehashCrash, Return, Stop
<1>1. UNCHANGED table /\ UNCHANGED grow
  OBVIOUS
<1>2. cap' = cap /\ slot' = slot /\ size' = size /\ Slots' = Slots
  BY <1>1 DEF table, Slots
<1>3. pc' \in {"idle", "crashed"} /\ count' = 0
  BY DEF IInv, TypeOK
<1>4. key' \in Keys \cup {NoKey} /\ (pc' = "idle" <=> key' = NoKey)
  BY HashAssumption DEF IInv, TypeOK
<1>5. TypeOK'
  BY <1>2, <1>3, <1>4 DEF IInv, TypeOK, Content
<1>6. RehashPartial' /\ ProbeKnows'
  BY <1>3 DEF RehashPartial, ProbeKnows
<1>7. QED
  BY <1>1, <1>5, <1>6, TableKept DEF IInv

(* What add_entry knows when its probe has reached an EMPTY slot: the element
   is nowhere in the table, and the slot it takes is free and reachable. *)
LEMMA TargetIsFree ==
  ASSUME IInv, pc = "add", slot[idx] = Empty
  PROVE  /\ key \in Keys /\ key \notin Contents
         /\ Target \in Slots /\ slot[Target] \in {Empty, Tombstone}
         /\ Reachable(key, Target, slot, cap)
<1>1. key \in Keys /\ idx \in Slots
  BY DEF IInv, TypeOK
<1>2. key \notin Contents
  BY <1>1, ProbeMisses DEF IInv, ProbeKnows
<1>3. CASE first = NoIndex
  <2>1. Reachable(key, idx, slot, cap)
    BY DEF IInv, ProbeKnows, Reachable, Slots
  <2>2. QED
    BY <1>1, <1>2, <1>3, <2>1 DEF Target
<1>4. CASE first # NoIndex
  <2>1. first \in Slots
    BY <1>4 DEF IInv, TypeOK
  <2>2. slot[first] = Tombstone /\ Reachable(key, first, slot, cap)
    BY <1>4 DEF IInv, ProbeKnows
  <2>3. QED
    BY <1>1, <1>2, <1>4, <2>1, <2>2 DEF Target
<1>5. QED
  BY <1>3, <1>4

(* The effect of the two steps that write one slot. *)
LEMMA AddPlaceEffect ==
  ASSUME IInv, AddPlace
  PROVE  /\ cap' = cap /\ Slots' = Slots
         /\ slot' \in [Slots -> Content]
         /\ \A i \in Slots : slot'[i] = IF i = Target THEN key ELSE slot[i]
         /\ Contents' = Contents \cup {key}
<1>1. cap' = cap /\ Slots' = Slots /\ slot' = [slot EXCEPT ![Target] = key]
  BY DEF AddPlace, Slots
<1>2. key \in Keys /\ Target \in Slots /\ slot[Target] \in {Empty, Tombstone}
  BY TargetIsFree DEF AddPlace
<1>3. slot \in [Slots -> Content]
  BY DEF IInv, TypeOK
<1>4. \A i \in Slots : slot'[i] = IF i = Target THEN key ELSE slot[i]
  BY <1>1, <1>3
<1>5. slot' \in [Slots -> Content]
  BY <1>1, <1>2, <1>3 DEF Content
<1>6. Contents' = Contents \cup {key}
  BY <1>1, <1>2, <1>4, HashAssumption DEF Contents
<1>7. QED
  BY <1>1, <1>4, <1>5, <1>6

(* add_entry writes its element into the slot it has found: the element is
   new, its slot can be reached, and a reused tombstone cuts off no chain. *)
LEMMA AddPlaceKeepsIInv ==
  ASSUME IInv, AddPlace
  PROVE  IInv'
<1> USE AddPlaceEffect
<1>1. /\ key \in Keys /\ key \notin Contents
      /\ Target \in Slots /\ slot[Target] \in {Empty, Tombstone}
      /\ Reachable(key, Target, slot, cap)
  BY TargetIsFree DEF AddPlace
<1>2. size' = size + 1 /\ pc' = "idle" /\ key' = NoKey /\ count' = 0
  BY DEF AddPlace, Return, Stop
<1>3. TypeOK'
  <2>1. cap' \in Nat /\ InitCap <= cap' /\ \E q \in 1..cap' : cap' = 4 * q
    BY DEF IInv, TypeOK
  <2>2. slot' \in [Slots' -> Content']
    BY DEF Content
  <2>3. size' \in Nat
    BY <1>2 DEF IInv, TypeOK
  <2>4. QED
    BY <1>2, <2>1, <2>2, <2>3 DEF TypeOK
<1>4. size' = Cardinality(Contents')
  BY <1>1, <1>2, LiveCount, FS_AddElement DEF IInv
<1>5. NoDuplicates'
  <2>1. \A i \in Slots : slot[i] # key
    BY <1>1 DEF Contents
  <2>2. QED
    BY <1>1, <2>1 DEF IInv, NoDuplicates
<1>6. ChainsUnbroken'
  <2>1. SUFFICES ASSUME NEW i \in Slots, slot'[i] \in Keys, NEW j \in Slots,
                        InRange(Home(slot'[i], cap), j, i)
                 PROVE  slot'[j] # Empty
    BY DEF ChainsUnbroken, Reachable, Home, Slots
  <2>2. slot[j] # Empty \/ j = Target
    BY <1>1, <2>1 DEF IInv, ChainsUnbroken, Reachable, Slots
  <2>3. QED
    BY <1>1, <2>2, HashAssumption
<1>7. LoadBound'
  <2>1. 4 * size < 3 * cap /\ size \in Nat
    BY DEF AddPlace, IInv, ProbeKnows, NeedsRehash, TypeOK
  <2>2. PICK q \in 1 .. cap : cap = 4 * q
    BY DEF IInv, TypeOK
  <2>3. QED
    BY <1>2, <2>1, <2>2 DEF LoadBound
<1>8. RehashPartial' /\ ProbeKnows'
  BY <1>2 DEF RehashPartial, ProbeKnows
<1>9. QED
  BY <1>3, <1>4, <1>5, <1>6, <1>7, <1>8 DEF IInv

(* remove_entry takes exactly its element out of the table. *)
LEMMA RemoveFoundEffect ==
  ASSUME IInv, RemoveFound
  PROVE  /\ cap' = cap /\ Slots' = Slots
         /\ key \in Contents /\ idx \in Slots
         /\ slot' \in [Slots -> Content]
         /\ \A i \in Slots : slot'[i] = IF i = idx THEN Tombstone ELSE slot[i]
         /\ Contents' = Contents \ {key}
<1>1. cap' = cap /\ Slots' = Slots /\ slot' = [slot EXCEPT ![idx] = Tombstone]
  BY DEF RemoveFound, Slots
<1>2. key \in Keys /\ idx \in Slots /\ slot[idx] = key
  BY DEF RemoveFound, IInv, TypeOK
<1>3. slot \in [Slots -> Content]
  BY DEF IInv, TypeOK
<1>4. \A i \in Slots : slot'[i] = IF i = idx THEN Tombstone ELSE slot[i]
  BY <1>1, <1>3
<1>5. slot' \in [Slots -> Content]
  BY <1>1, <1>3 DEF Content
<1>6. \A i \in Slots : slot[i] = key => i = idx
  BY <1>2 DEF IInv, NoDuplicates
<1>7. Contents' = Contents \ {key}
  BY <1>1, <1>2, <1>4, <1>6, HashAssumption DEF Contents
<1>8. QED
  BY <1>1, <1>2, <1>4, <1>5, <1>7 DEF Contents

(* The tombstone remove_entry leaves behind keeps every chain whole. *)
LEMMA RemoveFoundKeepsIInv ==
  ASSUME IInv, RemoveFound
  PROVE  IInv'
<1> USE RemoveFoundEffect
<1>1. size' = size - 1 /\ pc' = "idle" /\ key' = NoKey /\ count' = 0
  BY DEF RemoveFound, Return, Stop
<1>2. size' = Cardinality(Contents') /\ size' \in Nat
  <2>1. IsFiniteSet(Contents) /\ IsFiniteSet(Contents')
    BY LiveCount, FS_RemoveElement DEF IInv
  <2>2. size' = Cardinality(Contents')
    BY <1>1, <2>1, FS_RemoveElement DEF IInv
  <2>3. QED
    BY <2>1, <2>2, FS_CardinalityType
<1>3. TypeOK'
  <2>1. cap' \in Nat /\ InitCap <= cap' /\ \E q \in 1..cap' : cap' = 4 * q
    BY DEF IInv, TypeOK
  <2>2. slot' \in [Slots' -> Content']
    BY DEF Content
  <2>3. QED
    BY <1>1, <1>2, <2>1, <2>2 DEF TypeOK
<1>4. NoDuplicates'
  BY HashAssumption DEF IInv, NoDuplicates
<1>5. ChainsUnbroken'
  <2>1. SUFFICES ASSUME NEW i \in Slots, slot'[i] \in Keys, NEW j \in Slots,
                        InRange(Home(slot'[i], cap), j, i)
                 PROVE  slot'[j] # Empty
    BY DEF ChainsUnbroken, Reachable, Home, Slots
  <2>2. slot[j] # Empty
    BY <2>1, HashAssumption DEF IInv, ChainsUnbroken, Reachable, Slots
  <2>3. QED
    BY <2>2, HashAssumption
<1>6. LoadBound'
  BY <1>1, <1>2 DEF IInv, LoadBound, TypeOK
<1>7. RehashPartial' /\ ProbeKnows'
  BY <1>1 DEF RehashPartial, ProbeKnows
<1>8. QED
  BY <1>2, <1>3, <1>4, <1>5, <1>6, <1>7 DEF IInv

(* clear leaves an empty table of the same capacity. *)
LEMMA ClearKeepsIInv ==
  ASSUME IInv, Clear
  PROVE  IInv' /\ Contents' = {}
<1>1. /\ cap' = cap /\ Slots' = Slots /\ size' = 0 /\ pc' = "idle" /\ key' = key
      /\ count' = count /\ slot' = [i \in Slots |-> Empty]
  BY DEF Clear, Slots, AllEmpty
<1>2. Contents' = {}
  BY <1>1, HashAssumption DEF Contents
<1>3. TypeOK'
  BY <1>1 DEF Clear, IInv, TypeOK, Content
<1>4. size' = Cardinality(Contents')
  BY <1>1, <1>2, FS_EmptySet
<1>5. NoDuplicates' /\ ChainsUnbroken'
  BY <1>1, HashAssumption DEF NoDuplicates, ChainsUnbroken
<1>6. LoadBound'
  BY <1>1 DEF IInv, LoadBound, TypeOK
<1>7. RehashPartial' /\ ProbeKnows'
  BY <1>1 DEF RehashPartial, ProbeKnows
<1>8. QED
  BY <1>2, <1>3, <1>4, <1>5, <1>6, <1>7 DEF IInv

-----------------------------------------------------------------------------
\* The rehash: the new table is an exact partial copy until it is complete.

(* A rehash starts with an empty new table, a copy of no slot at all. *)
LEMMA RehashStartKeepsIInv ==
  ASSUME IInv, RehashStart
  PROVE  IInv'
<1>1. /\ UNCHANGED table /\ cap' = cap /\ slot' = slot /\ size' = size /\ Slots' = Slots
      /\ pc' = "rehash" /\ key' = key /\ scan' = 0 /\ count' = count
      /\ newSlot' = [i \in 0 .. 2 * cap - 1 |-> Empty]
  BY DEF RehashStart, table, Slots, AllEmpty
<1>2. pc = "enter" /\ key \in Keys /\ cap \in Nat \ {0}
  BY CapPositive DEF RehashStart, IInv, TypeOK
<1>3. TypeOK'
  <2>1. cap' \in Nat /\ InitCap <= cap' /\ \E q \in 1..cap' : cap' = 4 * q
    BY <1>1 DEF IInv, TypeOK
  <2>2. slot' \in [Slots' -> Content'] /\ size' \in Nat
    BY <1>1 DEF IInv, TypeOK, Content
  <2>3. count' = 0 /\ key' \in Keys /\ key' # NoKey
    BY <1>1, <1>2, HashAssumption DEF IInv, TypeOK
  <2>4. newSlot' \in [0 .. 2 * cap' - 1 -> Keys \cup {Empty}] /\ scan' \in 0 .. cap'
    BY <1>1, <1>2
  <2>5. QED
    BY <1>1, <2>1, <2>2, <2>3, <2>4 DEF TypeOK
<1>4. RehashPartial'
  BY <1>1, <1>2, HashAssumption DEF RehashPartial
<1>5. ProbeKnows'
  BY <1>1 DEF ProbeKnows
<1>6. QED
  BY <1>1, <1>3, <1>4, <1>5, TableKept DEF IInv

(* The steps of rehash that look for the next live slot or for a free one. *)
LEMMA RehashScanKeepsIInv ==
  ASSUME IInv, RehashSkip \/ RehashTake \/ RehashStep
  PROVE  IInv'
<1>1. /\ UNCHANGED table /\ cap' = cap /\ slot' = slot /\ size' = size /\ Slots' = Slots
      /\ key' = key /\ count' = count /\ newSlot' = newSlot
  BY DEF RehashSkip, RehashTake, RehashStep, table, grow, Slots
<1>2. /\ key \in Keys /\ cap \in Nat \ {0} /\ 2 * cap \in Nat \ {0} /\ scan \in 0 .. cap
      /\ newSlot \in [0 .. 2 * cap - 1 -> Keys \cup {Empty}] /\ count = 0
  BY CapPositive, HashAssumption DEF RehashSkip, RehashTake, RehashStep, IInv, TypeOK
<1>3. CASE RehashSkip
  <2>1. /\ pc = "rehash" /\ pc' = "rehash" /\ scan' = scan + 1 /\ scan \in Slots
        /\ slot[scan] \notin Keys /\ scan' \in 0 .. cap
    BY <1>1, <1>2, <1>3 DEF RehashSkip, Slots
  <2>2. TypeOK'
    <3>1. cap' \in Nat /\ InitCap <= cap' /\ \E q \in 1..cap' : cap' = 4 * q
      BY <1>1 DEF IInv, TypeOK
    <3>2. slot' \in [Slots' -> Content'] /\ size' \in Nat
      BY <1>1 DEF IInv, TypeOK, Content
    <3>3. QED
      BY <1>1, <1>2, <2>1, <3>1, <3>2, HashAssumption DEF TypeOK
  <2>3. \A k \in Keys : (\E i \in 0 .. scan - 1 : slot[i] = k)
                           <=> (\E i \in 0 .. scan' - 1 : slot'[i] = k)
    BY <1>1, <1>2, <2>1
  <2>4. RehashPartial'
    BY <1>1, <2>1, <2>3 DEF IInv, RehashPartial, Reachable, Home
  <2>5. QED
    BY <1>1, <2>1, <2>2, <2>4, TableKept DEF IInv, ProbeKnows
<1>4. CASE RehashTake
  <2>1. /\ pc = "rehash" /\ pc' = "reprobe" /\ scan' = scan /\ scan \in Slots
        /\ slot[scan] \in Keys /\ idx' = Home(slot[scan], 2 * cap)
    BY <1>1, <1>2, <1>4 DEF RehashTake, grow, Slots
  <2>2. idx' \in 0 .. 2 * cap - 1
    BY <1>2, <2>1, HomeIsSlot
  <2>3. TypeOK'
    BY <1>1, <1>2, <2>1, <2>2, HashAssumption DEF IInv, TypeOK, Content, Slots
  <2>4. RehashPartial'
    BY <1>1, <2>1 DEF IInv, RehashPartial, Reachable, Home
  <2>5. \A j \in 0 .. 2 * cap - 1 : ~InRange(Home(slot[scan], 2 * cap), j, idx')
    BY <2>1, <2>2, RangeStarts
  <2>6. ProbeKnows'
    BY <1>1, <2>1, <2>5 DEF ProbeKnows, Home
  <2>7. QED
    BY <1>1, <2>3, <2>4, <2>6, TableKept DEF IInv
<1>5. CASE RehashStep
  <2>1. /\ pc = "reprobe" /\ pc' = "reprobe" /\ scan' = scan /\ scan \in Slots
        /\ slot[scan] \in Keys /\ idx \in 0 .. 2 * cap - 1
        /\ newSlot[idx] # Empty /\ idx' = Step(idx, 2 * cap)
    BY <1>5 DEF RehashStep, grow, IInv, TypeOK
  <2>2. idx' \in 0 .. 2 * cap - 1 /\ Home(slot[scan], 2 * cap) \in 0 .. 2 * cap - 1
    BY <1>2, <2>1, StepWraps, HomeIsSlot
  <2>3. TypeOK'
    BY <1>1, <1>2, <2>1, <2>2, HashAssumption DEF IInv, TypeOK, Content, Slots
  <2>4. RehashPartial'
    BY <1>1, <2>1 DEF IInv, RehashPartial, Reachable, Home
  <2>5. \A j \in 0 .. 2 * cap - 1 :
          InRange(Home(slot[scan], 2 * cap), j, idx') => newSlot[j] # Empty
    BY <1>2, <2>1, <2>2, RangeGrows DEF IInv, ProbeKnows
  <2>6. ProbeKnows'
    BY <1>1, <2>1, <2>5 DEF ProbeKnows, Home
  <2>7. QED
    BY <1>1, <2>3, <2>4, <2>6, TableKept DEF IInv
<1>6. QED
  BY <1>3, <1>4, <1>5

(* rehash copies one entry: the new table is then a copy of one slot more,
   with the entry stored once and reachable under the new mask. *)
LEMMA RehashPlaceKeepsIInv ==
  ASSUME IInv, RehashPlace
  PROVE  IInv'
<1> DEFINE new == 0 .. 2 * cap - 1
<1> DEFINE k0 == slot[scan]
<1>1. /\ UNCHANGED table /\ cap' = cap /\ slot' = slot /\ size' = size /\ Slots' = Slots
      /\ pc = "reprobe" /\ pc' = "rehash" /\ key' = key /\ count' = count
      /\ scan' = scan + 1 /\ newSlot' = [newSlot EXCEPT ![idx] = k0]
  BY DEF RehashPlace, table, Slots
<1>2. /\ key \in Keys /\ cap \in Nat \ {0} /\ 2 * cap \in Nat \ {0}
      /\ scan \in Slots /\ k0 \in Keys /\ idx \in new /\ newSlot[idx] = Empty
      /\ newSlot \in [new -> Keys \cup {Empty}] /\ count = 0
  BY <1>1, CapPositive, HashAssumption DEF RehashPlace, IInv, TypeOK
<1>3. /\ newSlot' \in [new -> Keys \cup {Empty}]
      /\ \A i \in new : newSlot'[i] = IF i = idx THEN k0 ELSE newSlot[i]
  BY <1>1, <1>2
<1>4. TypeOK'
  <2>1. scan' \in 0 .. cap
    BY <1>1, <1>2 DEF Slots
  <2>2. QED
    BY <1>1, <1>2, <1>3, <2>1, HashAssumption DEF IInv, TypeOK, Content
<1>5. /\ \A k \in Keys : (\E i \in new : newSlot[i] = k)
                            <=> (\E i \in 0 .. scan - 1 : slot[i] = k)
      /\ \A i, j \in new : newSlot[i] \in Keys /\ newSlot[i] = newSlot[j] => i = j
      /\ \A i \in new : newSlot[i] \in Keys => Reachable(newSlot[i], i, newSlot, 2 * cap)
  BY <1>1 DEF IInv, RehashPartial
\* The element is live in one old slot only, which was not scanned before.
<1>6. \A i \in new : newSlot[i] # k0
  <2>1. \A i \in 0 .. scan - 1 : slot[i] # k0
    BY <1>2 DEF IInv, NoDuplicates, Slots
  <2>2. QED
    BY <1>2, <1>5, <2>1
<1>7. \A k \in Keys : (\E i \in new : newSlot'[i] = k)
                         <=> (\E i \in 0 .. scan' - 1 : slot'[i] = k)
  <2>1. \A k \in Keys : (\E i \in new : newSlot'[i] = k)
                           <=> (k = k0 \/ \E i \in new : newSlot[i] = k)
    BY <1>2, <1>3, HashAssumption
  <2>2. \A k \in Keys : (\E i \in 0 .. scan' - 1 : slot'[i] = k)
                           <=> (k = k0 \/ \E i \in 0 .. scan - 1 : slot[i] = k)
    BY <1>1, <1>2 DEF Slots
  <2>3. QED
    BY <1>5, <2>1, <2>2
<1>8. \A i, j \in new : newSlot'[i] \in Keys /\ newSlot'[i] = newSlot'[j] => i = j
  BY <1>3, <1>5, <1>6
<1>9. \A i \in new : newSlot'[i] \in Keys => Reachable(newSlot'[i], i, newSlot', 2 * cap)
  <2>1. SUFFICES ASSUME NEW i \in new, newSlot'[i] \in Keys, NEW j \in new,
                        InRange(Home(newSlot'[i], 2 * cap), j, i)
                 PROVE  newSlot'[j] # Empty
    BY DEF Reachable
  <2>2. CASE i = idx
    BY <1>1, <1>2, <1>3, <2>1, <2>2, HashAssumption DEF IInv, ProbeKnows
  <2>3. CASE i # idx
    BY <1>2, <1>3, <1>5, <2>1, <2>3, HashAssumption DEF Reachable
  <2>4. QED
    BY <2>2, <2>3
<1>10. RehashPartial'
  <2>1. \A i \in new : Reachable(newSlot'[i], i, newSlot', 2 * cap)
                         => Reachable(newSlot[i], i, newSlot, 2 * cap)'
    BY <1>1 DEF Reachable, Home
  <2>2. QED
    BY <1>1, <1>7, <1>8, <1>9, <2>1 DEF RehashPartial
<1>11. QED
  BY <1>1, <1>4, <1>10, TableKept DEF IInv, ProbeKnows

(* rehash installs its arrays: a complete copy, without tombstones, in which
   the insertion that caused it has room. *)
LEMMA RehashDoneKeepsIInv ==
  ASSUME IInv, RehashDone
  PROVE  IInv' /\ Contents' = Contents
<1> DEFINE new == 0 .. 2 * cap - 1
<1>1. /\ pc = "rehash" /\ pc' = "add" /\ scan = cap /\ cap' = 2 * cap /\ slot' = newSlot
      /\ size' = size /\ key' = key /\ count' = count /\ first' = 2 * cap
      /\ idx' = Home(key, 2 * cap) /\ Slots' = new
  BY DEF RehashDone, StartProbe, Slots
<1>2. /\ key \in Keys /\ cap \in Nat \ {0} /\ 2 * cap \in Nat \ {0} /\ size \in Nat
      /\ newSlot \in [new -> Keys \cup {Empty}] /\ count = 0
  BY <1>1, CapPositive, HashAssumption DEF IInv, TypeOK
<1>3. /\ \A k \in Keys : (\E i \in new : newSlot[i] = k)
                            <=> (\E i \in 0 .. scan - 1 : slot[i] = k)
      /\ \A i, j \in new : newSlot[i] \in Keys /\ newSlot[i] = newSlot[j] => i = j
      /\ \A i \in new : newSlot[i] \in Keys => Reachable(newSlot[i], i, newSlot, 2 * cap)
  BY <1>1 DEF IInv, RehashPartial
<1>4. Contents' = Contents
  BY <1>1, <1>3 DEF Contents, Slots
<1>5. idx' \in new /\ \A j \in new : ~InRange(Home(key, 2 * cap), j, idx')
  BY <1>1, <1>2, HomeIsSlot, RangeStarts
<1>6. TypeOK'
  <2>1. cap' \in Nat /\ InitCap <= cap' /\ \E q \in 1..cap' : cap' = 4 * q
    <3>1. PICK q \in 1 .. cap : cap = 4 * q
      BY DEF IInv, TypeOK
    <3>2. 2 * q \in 1 .. cap' /\ cap' = 4 * (2 * q)
      BY <1>1, <1>2, <3>1
    <3>3. InitCap <= cap'
      BY <1>1, <1>2, CapAssumption DEF IInv, TypeOK
    <3>4. QED
      BY <1>1, <1>2, <3>2, <3>3
  <2>2. slot' \in [Slots' -> Content']
    BY <1>1, <1>2 DEF Content
  <2>3. QED
    BY <1>1, <1>2, <1>5, <2>1, <2>2, HashAssumption DEF TypeOK, NoIndex
<1>7. NoDuplicates'
  BY <1>1, <1>3 DEF NoDuplicates
<1>8. ChainsUnbroken'
  <2>1. \A i \in new : Reachable(newSlot[i], i, newSlot, 2 * cap)
                         => Reachable(slot[i], i, slot, cap)'
    BY <1>1 DEF Reachable, Home
  <2>2. QED
    BY <1>1, <1>3, <2>1 DEF ChainsUnbroken
\* Twice the slots for the same elements: the load is at most 3/8.
<1>9. 4 * size' < 3 * cap'
  BY <1>1, <1>2 DEF IInv, LoadBound
<1>10. LoadBound' /\ ~NeedsRehash'
  BY <1>1, <1>2, <1>9 DEF LoadBound, NeedsRehash
<1>11. ProbeKnows'
  BY <1>1, <1>5, <1>10 DEF ProbeKnows, NoIndex, Home
<1>12. QED
  BY <1>1, <1>4, <1>6, <1>7, <1>8, <1>10, <1>11 DEF IInv, RehashPartial

(* Every step, of any operation, keeps IInv. *)
LEMMA IInvInductive == IInv /\ [Next]_vars => IInv'
<1> SUFFICES ASSUME IInv, [Next]_vars PROVE IInv'
  OBVIOUS
<1>1. CASE Clear
  BY <1>1, ClearKeepsIInv
<1>2. CASE \/ \E k \in Keys : AddCall(k) \/ RemoveCall(k)
           \/ \E k \in Keys, op \in {"get", "count"} : LookupCall(op, k)
  BY <1>2, BeginKeepsIInv
<1>3. CASE Add
  BY <1>3, BeginKeepsIInv, ProbeStepKeepsIInv, ReturnKeepsIInv, AddPlaceKeepsIInv DEF Add
<1>4. CASE Rehash
  BY <1>4, ReturnKeepsIInv, RehashStartKeepsIInv, RehashScanKeepsIInv,
     RehashPlaceKeepsIInv, RehashDoneKeepsIInv DEF Rehash
<1>5. CASE Remove
  BY <1>5, ProbeStepKeepsIInv, ReturnKeepsIInv, RemoveFoundKeepsIInv DEF Remove
<1>6. CASE Lookup
  BY <1>6, ProbeStepKeepsIInv, ReturnKeepsIInv DEF Lookup
<1>7. CASE UNCHANGED vars
  <2>1. UNCHANGED table /\ Slots' = Slots
    BY <1>7 DEF vars, table, Slots
  <2>2. TypeOK'
    BY <1>7, <2>1 DEF vars, IInv, TypeOK, Content, NoIndex, Home
  <2>3. RehashPartial'
    BY <1>7, <2>1 DEF vars, IInv, RehashPartial, Reachable, Home
  <2>4. ProbeKnows'
    BY <1>7, <2>1 DEF vars, IInv, ProbeKnows, NoIndex, NeedsRehash, Reachable, Home
  <2>5. QED
    BY <2>1, <2>2, <2>3, <2>4, TableKept DEF IInv
<1>8. QED
  BY <1>1, <1>2, <1>3, <1>4, <1>5, <1>6, <1>7 DEF Next, Run

-----------------------------------------------------------------------------
(* The theorems. *)

(* Every reachable state of the table satisfies the inductive invariant. *)
THEOREM Invariance == Spec => []IInv
<1>1. Init => IInv
  BY InitIInv
<1>2. IInv /\ [Next]_vars => IInv'
  BY IInvInductive
<1>3. QED
  BY <1>1, <1>2, PTL DEF Spec

(* The fields, slots and cursors keep their types: no probe leaves the arrays. *)
THEOREM TypeCorrect == Spec => []TypeOK
<1>1. IInv => TypeOK
  BY DEF IInv
<1>2. QED
  BY <1>1, Invariance, PTL

(* The size field always counts the live slots. *)
THEOREM SizeCorrect == Spec => []SizeIsLive
<1>1. IInv => SizeIsLive
  BY LiveCount DEF IInv, SizeIsLive
<1>2. QED
  BY <1>1, Invariance, PTL

(* No element is stored twice, whatever tombstones add has reused. *)
THEOREM Uniqueness == Spec => []NoDuplicates
<1>1. IInv => NoDuplicates
  BY DEF IInv
<1>2. QED
  BY <1>1, Invariance, PTL

(* Every live element stays reachable from its home slot. *)
THEOREM Reachability == Spec => []ChainsUnbroken
<1>1. IInv => ChainsUnbroken
  BY DEF IInv
<1>2. QED
  BY <1>1, Invariance, PTL

(* At most three quarters of the slots are live. *)
THEOREM LoadBounded == Spec => []LoadBound
<1>1. IInv => LoadBound
  BY DEF IInv
<1>2. QED
  BY <1>1, Invariance, PTL

(* A running rehash has copied exactly the slots it has scanned. *)
THEOREM RehashCorrect == Spec => []RehashPartial
<1>1. IInv => RehashPartial
  BY DEF IInv
<1>2. QED
  BY <1>1, Invariance, PTL

(* A probe in progress has met no EMPTY slot and not the element, and the
   tombstone it remembers can be reached from the element's home slot. *)
THEOREM ProbesKnow == Spec => []ProbeKnows
<1>1. IInv => ProbeKnows
  BY DEF IInv
<1>2. QED
  BY <1>1, Invariance, PTL

-----------------------------------------------------------------------------
(* The table implements the abstract set. *)

(* Where get_entry and count stop without a match, either on an EMPTY slot or
   back at the first slot, the element is nowhere in the table. *)
LEMMA LookupStopsKnowing ==
  ASSUME IInv, pc \in {"get", "count"}, slot[idx] = Empty \/ Step(idx, cap) = first,
         NEW i \in Slots, slot[i] = key
  PROVE  i = idx \/ InRange(Home(key, cap), i, idx)
<1>1. /\ key \in Keys /\ idx \in Slots /\ cap \in Nat \ {0}
      /\ first = Home(key, cap) /\ Home(key, cap) \in Slots
  BY CapPositive, HomeIsSlot DEF IInv, TypeOK, Slots
<1>2. CASE slot[idx] = Empty
  <2>1. Reachable(key, i, slot, cap)
    BY <1>1 DEF IInv, ChainsUnbroken
  <2>2. ~InRange(Home(key, cap), idx, i)
    BY <1>1, <1>2, <2>1 DEF Reachable, Slots
  <2>3. QED
    BY <1>1, <2>2, RangeBeyond DEF Slots
<1>3. CASE Step(idx, cap) = first
  BY <1>1, <1>3, RangeComplete DEF Slots
<1>4. QED
  BY <1>2, <1>3

(* The answers of find and of count are those of the set of elements. *)
LEMMA LookupAnswers ==
  ASSUME IInv
  PROVE  /\ GetFound => key \in Contents
         /\ GetAbsent => key \notin Contents
         /\ CountReturn => Seen = IF key \in Contents THEN 1 ELSE 0
<1>1. ASSUME pc \in {"get", "count"}
      PROVE  key \in Keys /\ idx \in Slots
  BY <1>1 DEF IInv, TypeOK
<1>2. ASSUME GetFound PROVE key \in Contents
  BY <1>1, <1>2 DEF GetFound, Contents
<1>3. ASSUME GetAbsent PROVE key \notin Contents
  <2>1. SUFFICES ASSUME NEW i \in Slots, slot[i] = key PROVE FALSE
    BY DEF Contents
  <2>2. pc = "get" /\ slot[idx] # key
    BY <1>1, <1>3, HashAssumption DEF GetAbsent
  <2>3. i = idx \/ InRange(Home(key, cap), i, idx)
    BY <1>3, <2>1, LookupStopsKnowing DEF GetAbsent
  <2>4. QED
    BY <2>1, <2>2, <2>3 DEF IInv, ProbeKnows
<1>4. ASSUME CountReturn PROVE Seen = IF key \in Contents THEN 1 ELSE 0
  <2>1. /\ pc = "count" /\ (slot[idx] = Empty \/ Step(idx, cap) = first)
        /\ key \in Keys /\ idx \in Slots
    BY <1>1, <1>4 DEF CountReturn
  <2>2. \A i \in Slots : slot[i] = key => i = idx \/ InRange(Home(key, cap), i, idx)
    BY <2>1, LookupStopsKnowing
  <2>3. count = IF \E j \in Slots : InRange(Home(key, cap), j, idx) /\ slot[j] = key
                THEN 1 ELSE 0
    BY <2>1 DEF IInv, ProbeKnows
  <2>4. ~InRange(Home(key, cap), idx, idx)
    BY <2>1, CapPositive, HomeIsSlot, RangeStarts DEF IInv, InRange, Slots
  <2>5. \A i \in Slots : slot[i] = key /\ slot[idx] = key => i = idx
    BY <2>1 DEF IInv, NoDuplicates
  <2>6. CASE slot[idx] = key
    BY <2>1, <2>3, <2>4, <2>5, <2>6 DEF Seen, Contents
  <2>7. CASE slot[idx] # key
    BY <2>1, <2>2, <2>3, <2>7 DEF Seen, Contents
  <2>8. QED
    BY <2>6, <2>7
<1>5. QED
  BY <1>2, <1>3, <1>4

(* The cardinality of the abstract module is the one of this module. *)
LEMMA SameCardinality == \A S : Abs!Cardinality(S) = Cardinality(S)
BY DEF Abs!Cardinality, Cardinality

(* Every step of the table is a step of the set, or changes nothing of it. *)
LEMMA StepRefines == IInv /\ [Next]_vars => [Abs!Next]_(Abs!vars)
<1> SUFFICES ASSUME IInv, [Next]_vars PROVE [Abs!Next]_(Abs!vars)
  OBVIOUS
<1>1. UNCHANGED table => Contents' = Contents /\ size' = size
                               /\ size' = Abs!Cardinality(Contents)
  BY TableKept, SameCardinality DEF table
<1>2. ASSUME NEW k \in Keys, AddCall(k) \/ RemoveCall(k)
      PROVE  \E o \in {"add", "remove"} : Abs!Call(o, k)
  BY <1>1, <1>2 DEF AddCall, RemoveCall, table, Abs!Call
<1>3. ASSUME NEW k \in Keys, NEW o \in {"get", "count"}, LookupCall(o, k)
      PROVE  Abs!Call(o, k)
  BY <1>1, <1>3 DEF LookupCall, table, Abs!Call
<1>4. ASSUME Clear PROVE Abs!Clear
  BY <1>4, ClearKeepsIInv DEF Clear, Abs!Clear
<1>5. ASSUME AddEnter \/ AddStep \/ RemoveStep \/ GetStep \/ CountStep \/ RehashStart
             \/ RehashSkip \/ RehashTake \/ RehashStep \/ RehashPlace
      PROVE  UNCHANGED Abs!vars
  BY <1>1, <1>5 DEF AddEnter, StartProbe, AddStep, RemoveStep, GetStep, CountStep,
     RehashStart, RehashSkip, RehashTake, RehashStep, RehashPlace, table, Abs!vars
<1>6. ASSUME RehashDone PROVE UNCHANGED Abs!vars
  BY <1>6, RehashDoneKeepsIInv DEF RehashDone, StartProbe, Abs!vars
<1>7. ASSUME AddFound PROVE Abs!Insert
  <2>1. key \in Contents
    BY <1>7 DEF AddFound, IInv, TypeOK, Contents
  <2>2. QED
    BY <1>1, <1>7, <2>1 DEF AddFound, Return, Abs!Insert, Abs!Answer
<1>8. ASSUME AddPlace PROVE Abs!Insert
  <2>1. key \notin Contents /\ Contents' = Contents \cup {key} /\ size' = Abs!Cardinality(Contents')
    BY <1>8, SameCardinality, TargetIsFree, AddPlaceEffect, AddPlaceKeepsIInv DEF AddPlace, IInv
  <2>2. QED
    BY <1>8, <2>1 DEF AddPlace, Return, Abs!Insert, Abs!Answer
<1>9. ASSUME RehashNoMemory PROVE Abs!Insert
  BY <1>1, <1>9 DEF RehashNoMemory, Return, Abs!Insert, Abs!Answer
<1>10. ASSUME RehashCrash PROVE Abs!Crash
  BY <1>1, <1>10 DEF RehashCrash, table, Abs!Crash
<1>11. ASSUME RemoveFound PROVE Abs!Erase
  <2>1. key \in Contents /\ Contents' = Contents \ {key} /\ size' = Abs!Cardinality(Contents')
    BY <1>11, SameCardinality, RemoveFoundEffect, RemoveFoundKeepsIInv DEF IInv
  <2>2. QED
    BY <1>11, <2>1 DEF RemoveFound, Return, Abs!Erase, Abs!Answer
<1>12. ASSUME RemoveAbsent PROVE Abs!Erase
  <2>1. key \in Keys /\ idx \in Slots
    BY <1>12 DEF RemoveAbsent, IInv, TypeOK
  <2>2. key \notin Contents
    BY <1>12, <2>1, ProbeMisses DEF RemoveAbsent, IInv, ProbeKnows
  <2>3. QED
    BY <1>1, <1>12, <2>2 DEF RemoveAbsent, Return, Abs!Erase, Abs!Answer
<1>13. ASSUME GetFound \/ GetAbsent PROVE Abs!Find
  BY <1>1, <1>13, LookupAnswers DEF GetFound, GetAbsent, Return, Abs!Find, Abs!Answer
<1>14. ASSUME CountReturn PROVE Abs!Count
  BY <1>1, <1>14, LookupAnswers DEF CountReturn, Return, Abs!Count, Abs!Answer
<1>15. ASSUME UNCHANGED vars PROVE UNCHANGED Abs!vars
  BY <1>1, <1>15 DEF vars, table, Abs!vars
<1>16. QED
  BY <1>2, <1>3, <1>4, <1>5, <1>6, <1>7, <1>8, <1>9, <1>10, <1>11, <1>12, <1>13, <1>14, <1>15
     DEF Next, Run, Add, Rehash, Remove, Lookup, Abs!Next

(* The table implements the set of UnorderedSetSpec: every answer of add,
   remove, get and count is the answer of the set, and nothing but add,
   remove and clear changes the elements. *)
THEOREM Implementation == Spec => ImplementsSet
<1>1. Init => Abs!Init
  <2> SUFFICES ASSUME Init PROVE Abs!Init
    OBVIOUS
  <2>1. Contents = {}
    BY HashAssumption DEF Init, AllEmpty, Slots, Contents
  <2>2. QED
    BY <2>1 DEF Init, Abs!Init
<1>2. IInv /\ [Next]_vars => [Abs!Next]_(Abs!vars)
  BY StepRefines
<1>3. QED
  BY <1>1, <1>2, Invariance, PTL DEF Spec, ImplementsSet, Abs!Spec

=============================================================================
