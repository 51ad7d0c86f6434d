---------------------------- MODULE AdaptorSpec ----------------------------
(***************************************************************************)
(* What stack.h, queue.h, priority_queue.h and flat_set.h promise, for the *)
(* adaptors of one kind.  A stack and a queue hold a sequence, a priority  *)
(* queue a bag, a flat set a set with one element of each key.  The two    *)
(* codes that flat_set.h names and no header defines are parameters.       *)
(***************************************************************************)
EXTENDS Integers, Sequences, SequencesExt

CONSTANTS
  Objects,    (* the adaptors of the program                               *)
  Elems,      (* the elements                                              *)
  Key(_),     (* what attr.comp compares                                   *)
  PresentCode,(* the CS_EXISTS of an insertion that finds an equal element *)
  AbsentCode, (* the CS_NOT_FOUND of an erasure that finds none            *)
  MayBreak    (* whether calls may be undefined and memory may run out     *)

VARIABLES
  discipline,(* "lifo", "fifo", "priority" or "set"                        *)
  live,      (* the adaptors that are initialised                          *)
  content,   (* content[o]: what is in adaptor o                           *)
  ret        (* what the last call returned                                *)

vars == << discipline, live, content, ret >>

Disciplines == {"lifo", "fifo", "priority", "set"}

Nothing == CASE discipline \in {"lifo", "fifo"} -> << >>
             [] discipline = "priority" -> [e \in Elems |-> 0]
             [] discipline = "set" -> {}

Init ==
  /\ discipline \in Disciplines /\ live = {} /\ ret = "CS_SUCCESS"
  /\ content = [o \in Objects |-> Nothing]

Becomes(o, c) == /\ ret' = "CS_SUCCESS" /\ UNCHANGED << discipline, live >>
                 /\ content' = [content EXCEPT ![o] = c]
Refuse(code)  == ret' = code /\ UNCHANGED << discipline, live, content >>

InBag(o)  == {e \in Elems : content[o][e] > 0}
Equals(o, e) == {x \in content[o] : Key(x) = Key(e)}

Put(o, e) ==
  /\ o \in live
  /\ \/ discipline \in {"lifo", "fifo"} /\ Becomes(o, Append(content[o], e))
     \/ discipline = "priority" /\ Becomes(o, [content[o] EXCEPT ![e] = @ + 1])
     \/ /\ discipline = "set"
        /\ \/ Equals(o, e) # {} /\ Refuse(PresentCode)
           \/ Equals(o, e) = {} /\ Becomes(o, content[o] \cup {e})
           \/ MayBreak /\ Refuse("undefined")

\* The element that goes is the last, the first, or one of the largest.
Take(o) ==
  /\ o \in live /\ discipline # "set"
  /\ IF content[o] = Nothing THEN Refuse("CS_EMPTY")
     ELSE \/ discipline = "lifo" /\ Becomes(o, Front(content[o]))
          \/ discipline = "fifo" /\ Becomes(o, Tail(content[o]))
          \/ /\ discipline = "priority"
             /\ \E e \in InBag(o) :
                  /\ \A x \in InBag(o) : Key(x) <= Key(e)
                  /\ Becomes(o, [content[o] EXCEPT ![e] = @ - 1])

Discard(o, e) ==
  /\ o \in live /\ discipline = "set"
  /\ IF Equals(o, e) = {} THEN Refuse(AbsentCode) ELSE Becomes(o, content[o] \ Equals(o, e))

Find(o, e) ==
  /\ o \in live /\ discipline = "set"
  /\ Refuse(IF Equals(o, e) = {} THEN "absent" ELSE "found")

\* A call that reports CS_MEM has had no effect.
NoMemory(o) == o \in live /\ Refuse("CS_MEM")

Clear(o) ==
  /\ o \in live
  /\ \/ Becomes(o, Nothing)
     \/ MayBreak /\ content[o] = Nothing /\ Refuse("undefined")

Swap(o, p) ==
  /\ o \in live /\ p \in live
  /\ content' = [content EXCEPT ![o] = content[p], ![p] = content[o]]
  /\ ret' = "CS_SUCCESS" /\ UNCHANGED << discipline, live >>

Start(o) ==
  /\ o \notin live
  /\ \/ live' = live \cup {o} /\ ret' = "CS_SUCCESS" /\ UNCHANGED << discipline, content >>
     \/ Refuse("CS_MEM")

Free(o) ==
  /\ o \in live /\ live' = live \ {o}
  /\ content' = [content EXCEPT ![o] = Nothing]
  /\ ret' = "CS_SUCCESS" \/ (MayBreak /\ ret' = "undefined")
  /\ UNCHANGED discipline

\* A failed allocation costs a container its state: nothing is promised from
\* then on, of the kind of the adaptors only that it stays.
Break  == MayBreak /\ ret' = "lost" /\ UNCHANGED discipline
Broken == ret = "lost" /\ UNCHANGED discipline

Next ==
  \/ \E o \in Objects :
       \/ Take(o) \/ NoMemory(o) \/ Clear(o) \/ Start(o) \/ Free(o)
       \/ \E e \in Elems : Put(o, e) \/ Discard(o, e) \/ Find(o, e)
       \/ \E p \in Objects : Swap(o, p)
  \/ Break \/ Broken

Spec == Init /\ [][Next]_vars

=============================================================================
