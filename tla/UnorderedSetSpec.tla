-------------------------- MODULE UnorderedSetSpec --------------------------
(***************************************************************************)
(* What an unordered set promises its caller, with no hashing in sight: a  *)
(* finite set of elements, a size that is its cardinality, and the codes   *)
(* listed in unordered_set/README.md.  A call begins, and returns with its *)
(* whole effect in one step.                                               *)
(***************************************************************************)
EXTENDS Naturals, FiniteSets

CONSTANTS
  Keys,       (* The elements.                                             *)
  NoKey,      (* The argument of a call that has none.                     *)
  CallocFails (* Whether the environment may fail the calloc of a rehash.  *)

VARIABLES
  elems,  (* the elements in the set                                       *)
  size,   (* unordered_set_size                                            *)
  op,     (* the call in progress, "idle" between calls                    *)
  arg,    (* its argument                                                  *)
  ret     (* what the last call returned                                   *)

vars == << elems, size, op, arg, ret >>

Init ==
  /\ elems = {} /\ size = 0
  /\ op = "idle" /\ arg = NoKey /\ ret = "none"

Call(o, k) ==
  /\ op = "idle"
  /\ op' = o /\ arg' = k /\ ret' = "none"
  /\ UNCHANGED << elems, size >>

Answer(o, es, code) ==
  /\ op = o
  /\ op' = "idle" /\ arg' = NoKey /\ ret' = code
  /\ elems' = es /\ size' = Cardinality(es)

Insert ==
  \/ arg \notin elems /\ Answer("add", elems \cup {arg}, "CS_SUCCESS")
  \/ arg \in elems /\ Answer("add", elems, "CS_ELEM")
  \/ Answer("add", elems, "CS_MEM")

Erase ==
  \/ arg \in elems /\ Answer("remove", elems \ {arg}, "CS_SUCCESS")
  \/ arg \notin elems /\ Answer("remove", elems, "CS_ELEM")

Find  == Answer("get", elems, IF arg \in elems THEN "found" ELSE "NULL")
Count == Answer("count", elems, IF arg \in elems THEN "one" ELSE "zero")

\* Out of memory in the one place where the code does not survive it.
Crash ==
  /\ CallocFails /\ op = "add"
  /\ op' = "crashed"
  /\ UNCHANGED << elems, size, arg, ret >>

Clear ==
  /\ op = "idle"
  /\ elems' = {} /\ size' = 0 /\ ret' = "void"
  /\ UNCHANGED << op, arg >>

Next ==
  \/ \E k \in Keys, o \in {"add", "remove", "get", "count"} : Call(o, k)
  \/ Insert \/ Erase \/ Find \/ Count \/ Crash \/ Clear

Spec == Init /\ [][Next]_vars

=============================================================================
