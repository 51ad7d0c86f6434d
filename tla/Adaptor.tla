------------------------------ MODULE Adaptor ------------------------------
(***************************************************************************)
(* What priority_queue.c, flat_set.c, stack.c and queue.c have in common:  *)
(* an adaptor is a type and the address of a container of that type, which *)
(* init allocates and every call hands over to.  A container is here the   *)
(* sequence that it implements, and the ways its calls may fail.           *)
(*                                                                         *)
(* A container is at one of these points of its life:                      *)
(*   free  - no container is allocated at this address                     *)
(*   live  - it works                                                      *)
(*   raw   - vector_init found no memory for the array: it has no elements *)
(*           and no magic number, and refuses them (list_init cannot fail) *)
(*   gone  - deque_init found no memory and has freed the container        *)
(*   nobuf - a deque found no memory for a buffer when it was empty: a block *)
(*           of it has none, though elements may have followed in others     *)
(*   lost  - deque_push found no memory for a larger array of blocks       *)
(* A call answers "undefined" where the C code is; nothing happens after.  *)
(***************************************************************************)
EXTENDS AdaptorState, SequencesExt

CONSTANTS
  Null,       (* no address                                                *)
  Types,      (* the types of container that the adaptor offers            *)
  Elems,      (* the elements                                              *)
  AllocFails, (* whether malloc and realloc may fail                       *)
  MaxSize     (* MaxSize[c]: bound on the elements of the container at c   *)

vars == << adaptor, obj, mem, work, ret >>

NoContainer == [life |-> "free", type |-> "none", s |-> << >>, exact |-> TRUE]
Made(type, life) == [life |-> life, type |-> type, s |-> << >>, exact |-> TRUE]

Init ==
  /\ obj = [o \in Objects |-> [type |-> "none", at |-> Null]]
  /\ mem = [c \in Addresses |-> NoContainer]
  /\ work = NoWork /\ ret = "CS_SUCCESS"

\* The program calls with adaptors whose init has not reported CS_MEM.
Usable(o) == work = NoWork /\ ret # "undefined" /\ obj[o].at # Null
Roomy(o) == Len(Here(o).s) < MaxSize[obj[o].at]

Answer(rc, q) == [rc |-> rc, q |-> q]
Done(q) == Answer("CS_SUCCESS", q)
Undefined(q) == {Answer("undefined", q)}
MayFail(q) == IF AllocFails THEN {Answer("CS_MEM", q)} ELSE {}

\* The call on o returns an answer, or goes on with `locals`.
Reply(o, r) ==
  mem' = [mem EXCEPT ![obj[o].at] = r.q] /\ ret' = r.rc /\ work' = NoWork /\ UNCHANGED obj
Continue(o, q, locals) ==
  mem' = [mem EXCEPT ![obj[o].at] = q] /\ work' = locals /\ UNCHANGED << obj, ret >>

-----------------------------------------------------------------------------
(* The containers: the answers each call may give. *)

\* A call that changes a deque with a block that has no buffer may go through
\* NULL, or come by this block and find or open another one: `t` is then what
\* was to become of the elements, and what has become of them is not known.
NoBuffer(q, t) ==
  Undefined(q) \cup {Done([q EXCEPT !.s = t, !.exact = FALSE])}
    \cup MayFail(q) \cup MayFail([q EXCEPT !.life = "lost"])

\* An array of blocks that could not be enlarged is lost, the call returns.
PushBack(q, e) ==
  CASE q.life = "live" ->
         {Done([q EXCEPT !.s = Append(@, e)])} \cup MayFail(q)
           \cup (IF q.type = "deque" THEN MayFail([q EXCEPT !.life = "lost"]) ELSE {})
    [] q.life = "raw" -> {Answer("CS_NULL", q)}
    [] q.life = "nobuf" -> NoBuffer(q, Append(q.s, e))
    [] OTHER -> Undefined(q)

\* An empty deque pops nothing, whatever has become of its blocks.
Pop(q, rest) ==
  CASE q.life = "raw" -> {Answer("CS_NULL", q)}
    [] q.life = "gone" -> Undefined(q)
    [] q.life # "gone" /\ q.life # "raw" /\ q.s = << >> -> {Answer("CS_EMPTY", q)}
    [] q.life = "lost" /\ q.s # << >> -> Undefined(q)
    [] q.life = "nobuf" /\ q.s # << >> -> NoBuffer(q, rest)
    [] q.life = "live" /\ q.s # << >> -> {Done([q EXCEPT !.s = rest])}

\* pop_back of the only element of a deque may need a buffer.
PopBack(q) ==
  Pop(q, IF q.s = << >> THEN q.s ELSE Front(q.s)) \cup
  (IF q.type = "deque" /\ q.life = "live" /\ Len(q.s) = 1
     THEN MayFail([q EXCEPT !.s = << >>, !.life = "nobuf"]) ELSE {})

PopFront(q) == Pop(q, IF q.s = << >> THEN q.s ELSE Tail(q.s))

\* deque_insert_at in the front half, when the push it begins with has failed.
Overwritten(s, e, i) == InsertAt(RemoveAt(s, 2), i + 1, e)

\* Inside a deque an insertion ignores that its first push has failed: in the
\* back half, or if the array of blocks is lost, it goes on through NULL.
InsertElem(q, e, i) ==
  LET inside == q.type = "deque" /\ i \in 1 .. Len(q.s) - 1
      done   == Done([q EXCEPT !.s = InsertAt(@, i + 1, e)])
  IN CASE q.life # "live" \/ ~inside ->
            {IF r.rc = "CS_SUCCESS" THEN [r EXCEPT !.q.s = done.q.s] ELSE r : r \in PushBack(q, e)}
       [] q.life = "live" /\ inside ->
            {done} \cup
            (IF ~AllocFails THEN {}
             ELSE IF i >= Len(q.s) \div 2 THEN Undefined(q)
             ELSE Undefined(q) \cup {Done([q EXCEPT !.s = Overwritten(@, e, i), !.exact = FALSE])})

\* Inside a deque an erasure needs memory for the element.
EraseElem(q, i) ==
  LET inside == q.type = "deque" /\ i \in 1 .. Len(q.s) - 2 IN
  IF q.life = "nobuf" THEN NoBuffer(q, RemoveAt(q.s, i + 1))
  ELSE {Done([q EXCEPT !.s = RemoveAt(@, i + 1)])} \cup (IF inside THEN MayFail(q) ELSE {})

\* clear returns nothing; a list is not checked for being empty.
Cleared(q) ==
  CASE q.life \in {"live", "nobuf"} /\ q.type = "deque" ->
         {Done(Made("deque", life)) : life \in {"live"} \cup (IF AllocFails THEN {"nobuf"} ELSE {})}
    [] q.life = "live" /\ q.type = "list" /\ q.s = << >> -> Undefined(q)
    [] q.life = "live" /\ q.type # "deque" /\ ~(q.type = "list" /\ q.s = << >>) ->
         {Done(Made(q.type, "live"))}
    [] q.life = "raw" -> {Done(q)}
    [] OTHER -> Undefined(q)

\* vector_free, deque_free and list_free free the struct too; only that of a
\* raw vector returns before.
FreedInside(q) == IF q.life = "raw" THEN q ELSE NoContainer

\* The adaptor then frees the struct itself.
Freed(q) == IF FreedInside(q).life = "free" THEN Undefined(NoContainer) ELSE {Done(NoContainer)}

-----------------------------------------------------------------------------
(* init, clear, swap and free, the same in all adaptors but for their names. *)

\* init returns what the init of the container returns, as a code: the address
\* of the container, which is none of the codes, or NULL, which is CS_SUCCESS.
Inits(type) ==
  {Answer("pointer", Made(type, "live"))} \cup
  (IF ~AllocFails \/ type = "list" THEN {}
   ELSE {Answer("CS_SUCCESS", Made(type, IF type = "vector" THEN "raw" ELSE "gone"))})

Start(o, type) ==
  /\ work = NoWork /\ ret # "undefined" /\ obj[o].at = Null
  /\ \/ \E c \in Addresses, r \in Inits(type) :
          /\ mem[c].life = "free"
          /\ obj' = [obj EXCEPT ![o] = [type |-> type, at |-> c]]
          /\ mem' = [mem EXCEPT ![c] = r.q] /\ ret' = r.rc
     \/ AllocFails /\ ret' = "CS_MEM" /\ UNCHANGED mem
          /\ obj' = [obj EXCEPT ![o].type = type]
  /\ UNCHANGED work

Clear(o) == Usable(o) /\ \E r \in Cleared(Here(o)) : Reply(o, r)

\* Mutant of Swap: the types stay where they are.
SwapKeepsType(o, p) ==
  /\ Usable(o) /\ Usable(p)
  /\ obj' = [obj EXCEPT ![o].at = obj[p].at, ![p].at = obj[o].at]
  /\ ret' = "CS_SUCCESS" /\ UNCHANGED << mem, work >>

Swap(o, p) ==
  /\ Usable(o) /\ Usable(p)
  /\ obj' = [obj EXCEPT ![o] = obj[p], ![p] = obj[o]]
  /\ ret' = "CS_SUCCESS" /\ UNCHANGED << mem, work >>

\* An adaptor that has been freed may be initialised again.
Free(o) ==
  /\ Usable(o)
  /\ \E r \in Freed(Here(o)) :
       /\ mem' = [mem EXCEPT ![obj[o].at] = r.q] /\ ret' = r.rc
       /\ obj' = [obj EXCEPT ![o].at = Null] /\ UNCHANGED work

Manage ==
  \/ \E o \in Objects : (\E type \in Types : Start(o, type)) \/ Clear(o) \/ Free(o)
  \/ \E o, p \in Objects : Swap(o, p)

-----------------------------------------------------------------------------
(* Correctness. *)

(* As long as allocation succeeds, every call does what its README says, the
   free at the end of each quick start included ("Frees stack and underlying
   container", stack/README.md): none has undefined behaviour. *)
CallsAreDefined == ret # "undefined"

=============================================================================
