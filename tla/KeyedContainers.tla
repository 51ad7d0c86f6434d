-------------------------- MODULE KeyedContainers --------------------------
(***************************************************************************)
(* The keyed containers that sit on the red-black tree (map, multimap,     *)
(* multiset) and on the hash table (unordered_map, unordered_multimap,     *)
(* unordered_multiset), as far as they differ from one another: how an     *)
(* entry holds several values, what each operation does to the size field, *)
(* and who owns the attributes that the entries point to.                  *)
(*                                                                         *)
(* An entry is a pair whose first_attr points to the key attributes that   *)
(* its container allocated.  Every container but multiset builds a new     *)
(* entry in a buffer that it keeps, and whose first_attr is set by init.   *)
(* The storage itself is the one promised by UnorderedSetSpec.             *)
(***************************************************************************)
EXTENDS Naturals, FiniteSets, FiniteSetsExt

CONSTANTS
  Containers, (* The containers the program has initialised.               *)
  Keys,       (* The keys.                                                 *)
  Kinds,      (* The kinds of container a behavior may be about.           *)
  NoAttr,     (* The attribute pointer of an entry that does not exist.    *)
  MaxValues,  (* Bound on the values one key holds.                        *)
  MaxSize     (* Bound on the size field, which may drift upwards.         *)

AllKinds == {"map", "multimap", "multiset",
             "unordered_map", "unordered_multimap", "unordered_multiset"}

ASSUME KindsAssumption ==
  /\ Kinds \subseteq AllKinds /\ NoAttr \notin Containers
  /\ MaxValues \in Nat \ {0} /\ MaxSize \in Nat /\ IsFiniteSet(Keys)

VARIABLES
  kind,   (* what the containers are                                       *)
  live,   (* the containers not yet freed                                  *)
  values, (* values[c][k]: how many values or occurrences k has in c       *)
  ref,    (* ref[c][k]: first_attr of the entry of k in c                  *)
  attr,   (* attr[c]: c's key_attr, named by the container that made it    *)
  buf,    (* buf[c]: first_attr of the pair in c's buffer                  *)
  size,   (* size[c]: what the size operation of c returns                 *)
  freed   (* the attributes that have been freed                           *)

vars    == << kind, live, values, ref, attr, buf, size, freed >>
entries == << values, ref, size >>
owners  == << kind, live, attr, buf, freed >>

Unique     == {"map", "unordered_map"}
Occurrence == {"multiset", "unordered_multiset"}

Init ==
  /\ kind \in Kinds
  /\ live = Containers
  /\ values = [c \in Containers |-> [k \in Keys |-> 0]]
  /\ ref = [c \in Containers |-> [k \in Keys |-> NoAttr]]
  /\ attr = [c \in Containers |-> c]
  /\ buf = [c \in Containers |-> c]
  /\ size = [c \in Containers |-> 0]
  /\ freed = {}

\* The attributes a new entry gets: multiset_insert builds it on the stack.
NewRef(c) == IF kind = "multiset" THEN attr[c] ELSE buf[c]

InsertNew(c, k) ==
  /\ c \in live /\ values[c][k] = 0 /\ size[c] < MaxSize
  /\ values' = [values EXCEPT ![c][k] = 1]
  /\ ref' = [ref EXCEPT ![c][k] = NewRef(c)]
  /\ size' = [size EXCEPT ![c] = @ + 1]
  /\ UNCHANGED owners

\* A further value under a key the container has; the maps answer CS_ELEM.
InsertMore(c, k) ==
  /\ c \in live /\ values[c][k] \in 1 .. MaxValues - 1 /\ size[c] < MaxSize
  /\ kind \notin Unique
  /\ values' = [values EXCEPT ![c][k] = @ + 1]
  /\ size' = [size EXCEPT ![c] = @ + 1]
  /\ UNCHANGED << owners, ref >>

\* How many values go.
Removed(c, k) == IF kind \in Occurrence THEN 1 ELSE values[c][k]

\* Mutant of SizeLost: the size goes down by one, whatever was removed.
SizeLostOne(c, k) == 1

\* How much the size field goes down by.
SizeLost(c, k) == IF kind = "multimap" THEN values[c][k] ELSE 1

Remove(c, k) ==
  /\ c \in live /\ values[c][k] > 0
  /\ values' = [values EXCEPT ![c][k] = @ - Removed(c, k)]
  /\ ref' = [ref EXCEPT ![c][k] = IF values'[c][k] = 0 THEN NoAttr ELSE @]
  /\ size' = [size EXCEPT ![c] = @ - SizeLost(c, k)]
  /\ UNCHANGED owners

Clear(c) ==
  /\ c \in live
  /\ values' = [values EXCEPT ![c] = [k \in Keys |-> 0]]
  /\ ref' = [ref EXCEPT ![c] = [k \in Keys |-> NoAttr]]
  /\ size' = [size EXCEPT ![c] = 0]
  /\ UNCHANGED owners

Exchanged(f, c, d) == [f EXCEPT ![c] = f[d], ![d] = f[c]]

\* Mutant of SwapsBuffer: no swap exchanges the buffers.
SwapsNoBuffer == {}

\* Only these two exchange the buffers (multiset has none).
SwapsBuffer == {"unordered_multimap", "unordered_multiset"}

\* Mutant of Swap: the attributes stay where they are.
SwapKeepsAttr(c, d) ==
  /\ c \in live /\ d \in live
  /\ values' = Exchanged(values, c, d)
  /\ ref' = Exchanged(ref, c, d)
  /\ size' = Exchanged(size, c, d)
  /\ UNCHANGED owners

Swap(c, d) ==
  /\ c \in live /\ d \in live
  /\ values' = Exchanged(values, c, d)
  /\ ref' = Exchanged(ref, c, d)
  /\ size' = Exchanged(size, c, d)
  /\ attr' = Exchanged(attr, c, d)
  /\ buf' = IF kind \in SwapsBuffer THEN Exchanged(buf, c, d) ELSE buf
  /\ UNCHANGED << kind, live, freed >>

\* The entries go first, then the attributes they pointed to, then the buffer.
Free(c) ==
  /\ c \in live
  /\ values' = [values EXCEPT ![c] = [k \in Keys |-> 0]]
  /\ ref' = [ref EXCEPT ![c] = [k \in Keys |-> NoAttr]]
  /\ size' = [size EXCEPT ![c] = 0]
  /\ live' = live \ {c}
  /\ freed' = freed \cup {attr[c]}
  /\ UNCHANGED << kind, attr, buf >>

Next ==
  \/ \E c \in Containers, k \in Keys : InsertNew(c, k) \/ InsertMore(c, k) \/ Remove(c, k)
  \/ \E c \in Containers : Clear(c) \/ Free(c)
  \/ \E c, d \in Containers : Swap(c, d)

Spec == Init /\ [][Next]_vars

-----------------------------------------------------------------------------
(* Correctness. *)

TypeOK ==
  /\ kind \in Kinds
  /\ live \subseteq Containers /\ freed \subseteq Containers
  /\ values \in [Containers -> [Keys -> 0 .. MaxValues]]
  /\ ref \in [Containers -> [Keys -> Containers \cup {NoAttr}]]
  /\ attr \in [Containers -> Containers]
  /\ buf \in [Containers -> Containers]
  /\ size \in [Containers -> Nat]

Present(c)   == {k \in Keys : values[c][k] > 0}
Entries(c)   == MapThenSumSet(LAMBDA k : values[c][k], Keys)

(* The size field, kept by hand next to the storage in the multi containers,
   is the number of values stored, through inserts, erases, swaps and clears.
   Nothing is claimed of unordered_multimap: unordered_multimap.h:14 and :202
   call its size the number of entries, but unordered_multimap.h:167 takes 1 off
   for a key and all of its values.  The size of a multiset counts occurrences
   (multiset.h:112), where multiset.h:12 and :190 have the unique elements. *)
SizeIsEntries ==
  \A c \in live : kind # "unordered_multimap" => size[c] = Entries(c)

(* The attributes behind the buffer and behind every entry of a container in
   use have not been freed: no insert, erase, find or free of it compares or
   copies through a dangling pointer (README.md, "Memory Safety"). *)
NoDanglingAttr ==
  \A c \in live :
    /\ attr[c] \notin freed
    /\ kind # "multiset" => buf[c] \notin freed
    /\ \A k \in Present(c) : ref[c][k] \notin freed

\* The containers whose swap exchanges all that points to the attributes.
SwapsAll == kind \in {"multiset", "unordered_multimap", "unordered_multiset"}

(* Where swap exchanges all of them, no use of a container goes through
   attributes that the free of another one has taken away. *)
NoDanglingWhereSwapsAll == SwapsAll => NoDanglingAttr

(* There, each container in use also owns the attributes of its own entries,
   so that freeing it takes down nothing that another one still uses. *)
OwnsItsEntries == SwapsAll => \A c \in live : \A k \in Present(c) : ref[c][k] = attr[c]

=============================================================================
