----------------------------- MODULE HashTable -----------------------------
(***************************************************************************)
(* The open-addressing hash table of include/cs/hash_table.h, the storage  *)
(* of the four unordered containers.                                       *)
(*                                                                         *)
(* The probe loops and the rehash loop are modelled one iteration per      *)
(* step, so that "the loop ends" is something to be checked and not built  *)
(* into the model.  slot[i] merges occupied[i] and keys[i]: the bytes of a *)
(* slot that is not OCCUPIED are never read.  The capacity is a power of   *)
(* two, so `h & mask` is h % cap.                                          *)
(***************************************************************************)
EXTENDS Naturals, FiniteSets

CONSTANTS
  Keys,        (* The elements; equal to the comparer means equal here.    *)
  Hash,        (* Hash[k] is the value of the hash callback on k.          *)
  InitCap,     (* CS_HASH_TABLE_INIT_CAP, the capacity of a new table.     *)
  Empty,       (* Content of a slot that is __HASH_TABLE_EMPTY.            *)
  Tombstone,   (* Content of a slot that is __HASH_TABLE_TOMBSTONE.        *)
  NoKey,       (* The argument of a call that has none.                    *)
  CallocFails  (* Whether the calloc of a rehash may return NULL.          *)

(* The hash callback is total, and the two slot markers are no elements. *)
ASSUME HashAssumption ==
  /\ Hash \in [Keys -> Nat]
  /\ Empty \notin Keys /\ Tombstone \notin Keys /\ Empty # Tombstone
  /\ NoKey \notin Keys
  /\ CallocFails \in BOOLEAN

(* A multiple of four, which makes 3/4 of it a whole number of slots. *)
ASSUME CapAssumption == InitCap \in Nat /\ \E q \in 1..InitCap : InitCap = 4 * q

(* Masking with cap - 1 takes the remainder only for a power of two. *)
ASSUME MaskAssumption == \E n \in 0..InitCap : InitCap = 2 ^ n

VARIABLES
  cap,       (* ht->cap                                                    *)
  slot,      (* ht->occupied and ht->keys                                  *)
  size,      (* ht->size                                                   *)
  pc,        (* where the current call stands, "idle" between calls        *)
  key,       (* el, the argument of the current call                       *)
  idx,       (* idx, the slot the probe looks at                           *)
  first,     (* first_tombstone in add_entry, start_idx in the lookups     *)
  count,     (* count in __hash_table_count                                *)
  newSlot,   (* new_occupied and new_keys while a rehash runs              *)
  scan,      (* i, the old slot the rehash looks at                        *)
  ret        (* what the last call returned                                *)

table == << cap, slot, size >>
grow  == << newSlot, scan >>
vars  == << cap, slot, size, pc, key, idx, first, count, newSlot, scan, ret >>

Slots       == 0 .. cap - 1
Content     == Keys \cup {Empty, Tombstone}
NoIndex     == cap                  \* __HASH_TABLE_TOMBSTONE_VALUE: no index
Home(k, c)  == Hash[k] % c
\* Mutant of Step: a stride that does not visit every slot.
StepTwo(i, c) == (i + 2) % c

Step(i, c)  == (i + 1) % c
Occupied    == {i \in Slots : slot[i] \in Keys}
Contents    == {k \in Keys : \E i \in Slots : slot[i] = k}
AllEmpty(c) == [i \in 0 .. c - 1 |-> Empty]

Return(code) == pc' = "idle" /\ ret' = code /\ key' = NoKey
Stop         == idx' = 0 /\ first' = 0 /\ count' = 0

Init ==
  /\ cap = InitCap
  /\ slot = AllEmpty(InitCap)
  /\ size = 0
  /\ pc = "idle" /\ ret = "none" /\ key = NoKey
  /\ idx = 0 /\ first = 0 /\ count = 0
  /\ newSlot = << >> /\ scan = 0

-----------------------------------------------------------------------------
(* add_entry: the load check, then the probe. *)

AddCall(k) ==
  /\ pc = "idle"
  /\ pc' = "enter" /\ key' = k /\ ret' = "none"
  /\ UNCHANGED << table, grow, idx, first, count >>

NeedsRehash == size * 4 >= cap * 3

\* Mutant of StartProbe: first_tombstone is not reset.
StartProbeStale(c) == pc' = "add" /\ idx' = Home(key, c) /\ UNCHANGED << first, count >>

\* The probe starts at the home slot, under the mask of capacity c.
StartProbe(c) ==
  /\ pc' = "add"
  /\ idx' = Home(key, c)
  /\ first' = c
  /\ UNCHANGED count

AddEnter ==
  /\ pc = "enter" /\ ~NeedsRehash
  /\ StartProbe(cap)
  /\ UNCHANGED << table, grow, key, ret >>

AddFound ==
  /\ pc = "add" /\ slot[idx] = key
  /\ Return("CS_ELEM") /\ Stop
  /\ UNCHANGED << table, grow >>

AddStep ==
  /\ pc = "add" /\ slot[idx] \notin {Empty, key}
  /\ first' = IF slot[idx] = Tombstone /\ first = NoIndex THEN idx ELSE first
  /\ idx' = Step(idx, cap)
  /\ UNCHANGED << table, grow, pc, key, count, ret >>

\* Where the new element goes: the first tombstone passed, or the empty slot.
Target == IF first # NoIndex THEN first ELSE idx

\* Mutant of AddPlace: takes the first tombstone without searching on.
AddPlaceEager ==
  /\ pc = "add" /\ slot[idx] \in {Empty, Tombstone}
  /\ slot' = [slot EXCEPT ![idx] = key]
  /\ size' = size + 1
  /\ Return("CS_SUCCESS") /\ Stop
  /\ UNCHANGED << cap, grow >>

AddPlace ==
  /\ pc = "add" /\ slot[idx] = Empty
  /\ slot' = [slot EXCEPT ![Target] = key]
  /\ size' = size + 1
  /\ Return("CS_SUCCESS") /\ Stop
  /\ UNCHANGED << cap, grow >>

-----------------------------------------------------------------------------
(* rehash: the live entries move to a table of twice the capacity. *)

RehashStart ==
  /\ pc = "enter" /\ NeedsRehash
  /\ newSlot' = AllEmpty(2 * cap)
  /\ scan' = 0
  /\ pc' = "rehash"
  /\ UNCHANGED << table, key, idx, first, count, ret >>

\* malloc of the new keys fails: the table is left as it was.
RehashNoMemory ==
  /\ pc = "enter" /\ NeedsRehash
  /\ Return("CS_MEM") /\ Stop
  /\ UNCHANGED << table, grow >>

\* calloc fails: the memset before the NULL check writes through NULL.
RehashCrash ==
  /\ CallocFails
  /\ pc = "enter" /\ NeedsRehash
  /\ pc' = "crashed"
  /\ UNCHANGED << table, grow, key, idx, first, count, ret >>

RehashSkip ==
  /\ pc = "rehash" /\ scan < cap /\ slot[scan] \notin Keys
  /\ scan' = scan + 1
  /\ UNCHANGED << table, newSlot, pc, key, idx, first, count, ret >>

\* Mutant of RehashTake: entries are placed under the old mask.
RehashTakeOldMask ==
  /\ pc = "rehash" /\ scan < cap /\ slot[scan] \in Keys
  /\ idx' = Home(slot[scan], cap)
  /\ pc' = "reprobe"
  /\ UNCHANGED << table, grow, key, first, count, ret >>

RehashTake ==
  /\ pc = "rehash" /\ scan < cap /\ slot[scan] \in Keys
  /\ idx' = Home(slot[scan], 2 * cap)
  /\ pc' = "reprobe"
  /\ UNCHANGED << table, grow, key, first, count, ret >>

RehashStep ==
  /\ pc = "reprobe" /\ newSlot[idx] # Empty
  /\ idx' = Step(idx, 2 * cap)
  /\ UNCHANGED << table, grow, pc, key, first, count, ret >>

RehashPlace ==
  /\ pc = "reprobe" /\ newSlot[idx] = Empty
  /\ newSlot' = [newSlot EXCEPT ![idx] = slot[scan]]
  /\ scan' = scan + 1
  /\ pc' = "rehash"
  /\ UNCHANGED << table, key, idx, first, count, ret >>

RehashDone ==
  /\ pc = "rehash" /\ scan = cap
  /\ cap' = 2 * cap
  /\ slot' = newSlot
  /\ newSlot' = << >> /\ scan' = 0
  /\ StartProbe(2 * cap)
  /\ UNCHANGED << size, key, ret >>

-----------------------------------------------------------------------------
(* remove_entry, through find_index, whose loop only an EMPTY slot ends. *)

RemoveCall(k) ==
  /\ pc = "idle"
  /\ pc' = "remove" /\ key' = k /\ ret' = "none"
  /\ idx' = Home(k, cap)
  /\ UNCHANGED << table, grow, first, count >>

RemoveStep ==
  /\ pc = "remove" /\ slot[idx] \notin {Empty, key}
  /\ idx' = Step(idx, cap)
  /\ UNCHANGED << table, grow, pc, key, first, count, ret >>

\* Mutant of RemoveFound: the slot becomes EMPTY.
RemoveFoundEmpties ==
  /\ pc = "remove" /\ slot[idx] = key
  /\ slot' = [slot EXCEPT ![idx] = Empty]
  /\ size' = size - 1
  /\ Return("CS_SUCCESS") /\ Stop
  /\ UNCHANGED << cap, grow >>

RemoveFound ==
  /\ pc = "remove" /\ slot[idx] = key
  /\ slot' = [slot EXCEPT ![idx] = Tombstone]
  /\ size' = size - 1
  /\ Return("CS_SUCCESS") /\ Stop
  /\ UNCHANGED << cap, grow >>

RemoveAbsent ==
  /\ pc = "remove" /\ slot[idx] = Empty
  /\ Return("CS_ELEM") /\ Stop
  /\ UNCHANGED << table, grow >>

-----------------------------------------------------------------------------
(* get_entry and count: these loops also stop when they are back at their  *)
(* first slot.                                                             *)

LookupCall(op, k) ==
  /\ pc = "idle"
  /\ pc' = op /\ key' = k /\ ret' = "none"
  /\ idx' = Home(k, cap) /\ first' = Home(k, cap)
  /\ UNCHANGED << table, grow, count >>

GetFound ==
  /\ pc = "get" /\ slot[idx] = key
  /\ Return("found") /\ Stop
  /\ UNCHANGED << table, grow >>

\* Mutant of GetAbsent: a tombstone ends the search.
GetAbsentAtTombstone ==
  /\ pc = "get" /\ slot[idx] # key
  /\ slot[idx] \in {Empty, Tombstone} \/ Step(idx, cap) = first
  /\ Return("NULL") /\ Stop
  /\ UNCHANGED << table, grow >>

\* Mutant of GetAbsent: only an EMPTY slot ends the search.
GetAbsentNoWrap ==
  /\ pc = "get" /\ slot[idx] = Empty
  /\ Return("NULL") /\ Stop
  /\ UNCHANGED << table, grow >>

GetAbsent ==
  /\ pc = "get"
  /\ \/ slot[idx] = Empty
     \/ slot[idx] # key /\ Step(idx, cap) = first
  /\ Return("NULL") /\ Stop
  /\ UNCHANGED << table, grow >>

GetStep ==
  /\ pc = "get" /\ slot[idx] \notin {Empty, key}
  /\ Step(idx, cap) # first
  /\ idx' = Step(idx, cap)
  /\ UNCHANGED << table, grow, pc, key, first, count, ret >>

\* The number of matches once the slot under the cursor has been looked at.
Seen == IF slot[idx] = key THEN count + 1 ELSE count

CountStep ==
  /\ pc = "count" /\ slot[idx] # Empty
  /\ Step(idx, cap) # first
  /\ count' = Seen
  /\ idx' = Step(idx, cap)
  /\ UNCHANGED << table, grow, pc, key, first, ret >>

CountReturn ==
  /\ pc = "count"
  /\ slot[idx] = Empty \/ Step(idx, cap) = first
  /\ Return(IF Seen = 0 THEN "zero" ELSE IF Seen = 1 THEN "one" ELSE "many")
  /\ Stop
  /\ UNCHANGED << table, grow >>

-----------------------------------------------------------------------------
(* clear frees every element and keeps the capacity. *)

Clear ==
  /\ pc = "idle"
  /\ slot' = AllEmpty(cap)
  /\ size' = 0
  /\ ret' = "void"
  /\ UNCHANGED << cap, grow, pc, key, idx, first, count >>

Add    == AddEnter \/ AddFound \/ AddStep \/ AddPlace
Rehash == \/ RehashStart \/ RehashNoMemory \/ RehashCrash \/ RehashSkip
          \/ RehashTake \/ RehashStep \/ RehashPlace \/ RehashDone
Remove == RemoveStep \/ RemoveFound \/ RemoveAbsent
Lookup == GetFound \/ GetAbsent \/ GetStep \/ CountStep \/ CountReturn

\* A call that has begun runs to its return; the caller need not call again.
Run == Add \/ Rehash \/ Remove \/ Lookup

Next ==
  \/ \E k \in Keys : AddCall(k) \/ RemoveCall(k)
  \/ \E k \in Keys, op \in {"get", "count"} : LookupCall(op, k)
  \/ Clear
  \/ Run

Spec     == Init /\ [][Next]_vars
FairSpec == Spec /\ WF_vars(Run)

-----------------------------------------------------------------------------
(* Correctness. *)

\* The slots a probe visits from a up to, and without, b.
InRange(a, j, b) == IF a <= b THEN a <= j /\ j < b ELSE a <= j \/ j < b

\* A probe for k reaches slot i of the table s of capacity c.
Reachable(k, i, s, c) == \A j \in 0 .. c - 1 : InRange(Home(k, c), j, i) => s[j] # Empty

TypeOK ==
  /\ cap \in Nat /\ InitCap <= cap /\ \E q \in 1..cap : cap = 4 * q
  /\ slot \in [Slots -> Content]
  /\ size \in Nat
  /\ pc \in {"idle", "enter", "add", "rehash", "reprobe", "remove", "get", "count", "crashed"}
  /\ key \in Keys \cup {NoKey} /\ (pc = "idle" <=> key = NoKey)
  /\ pc \in {"add", "remove", "get", "count"} => idx \in Slots
  /\ pc = "add" => first \in Slots \cup {NoIndex}
  /\ pc \in {"get", "count"} => first = Home(key, cap)
  /\ pc # "count" => count = 0
  /\ pc \in {"rehash", "reprobe"} =>
        /\ newSlot \in [0 .. 2 * cap - 1 -> Keys \cup {Empty}]
        /\ scan \in 0 .. cap
  /\ pc = "reprobe" => scan \in Slots /\ slot[scan] \in Keys /\ idx \in 0 .. 2 * cap - 1

(* The size field counts the live slots: the load check, unordered_set_size
   and the erase loops of the containers above all rely on it, and add,
   remove, rehash and clear each keep it in their own way. *)
SizeIsLive == size = Cardinality(Occupied)

(* No element is stored twice, although add reuses a tombstone that lies
   before the place where an equal element may still be. *)
NoDuplicates == \A i, j \in Slots : slot[i] \in Keys /\ slot[i] = slot[j] => i = j

(* Every live element can be reached from its home slot without meeting an
   EMPTY slot: what remove keeps with tombstones and rehash rebuilds. *)
ChainsUnbroken == \A i \in Slots : slot[i] \in Keys => Reachable(slot[i], i, slot, cap)

(* At most three quarters of the slots are live, so a quarter of them is
   EMPTY or TOMBSTONE whatever the calls were. *)
LoadBound == 4 * size <= 3 * cap

(* While a rehash runs, the new table holds exactly the live elements of the
   slots scanned so far, once each and reachable under the new mask. *)
RehashPartial ==
  pc \in {"rehash", "reprobe"} =>
    LET new == 0 .. 2 * cap - 1 IN
    /\ \A k \in Keys : (\E i \in new : newSlot[i] = k) <=> (\E i \in 0 .. scan - 1 : slot[i] = k)
    /\ \A i, j \in new : newSlot[i] \in Keys /\ newSlot[i] = newSlot[j] => i = j
    /\ \A i \in new : newSlot[i] \in Keys => Reachable(newSlot[i], i, newSlot, 2 * cap)

(* What a probe in progress knows of the slots behind it: none is EMPTY; the
   element is in none of them, or count says that it is; and the tombstone
   that add has picked can be reached from the element's home slot. *)
ProbeKnows ==
  LET behind == {j \in Slots : InRange(Home(key, cap), j, idx)} IN
  /\ pc \in {"add", "remove", "get", "count"} => \A j \in behind : slot[j] # Empty
  /\ pc \in {"add", "remove", "get"} => \A j \in behind : slot[j] # key
  /\ pc = "count" => count = IF \E j \in behind : slot[j] = key THEN 1 ELSE 0
  /\ pc = "add" /\ first # NoIndex =>
       slot[first] = Tombstone /\ Reachable(key, first, slot, cap)
  /\ pc = "add" => ~NeedsRehash
  /\ pc = "reprobe" =>
       \A j \in 0 .. 2 * cap - 1 :
         InRange(Home(slot[scan], 2 * cap), j, idx) => newSlot[j] # Empty

(* The inductive invariant.  By NoDuplicates, its size counts live slots. *)
IInv ==
  /\ TypeOK
  /\ size = Cardinality(Contents)
  /\ NoDuplicates /\ ChainsUnbroken /\ LoadBound
  /\ RehashPartial /\ ProbeKnows

(* The table implements the set: each call answers what the set would
   answer, and only add, remove and clear change the elements. *)
Abs == INSTANCE UnorderedSetSpec WITH
  elems <- Contents,
  op    <- IF pc \in {"enter", "rehash", "reprobe"} THEN "add" ELSE pc,
  arg   <- key
ImplementsSet == Abs!Spec

(* A find or a count returns whatever the table looks like. *)
LookupsReturn == pc \in {"get", "count"} ~> pc = "idle"

(* An insert or an erase returns when some slot is EMPTY (or it runs out of
   memory in the calloc of the rehash). *)
UpdatesReturnWithRoom ==
  pc \in {"enter", "remove"} /\ (\E i \in Slots : slot[i] = Empty)
    ~> pc \in {"idle", "crashed"}

(* unordered_set/README.md gives insert and erase a worst case of O(n): each
   call returns. *)
UpdatesReturn == pc \in {"enter", "add", "remove"} ~> pc \in {"idle", "crashed"}

=============================================================================
