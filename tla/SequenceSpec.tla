---------------------------- MODULE SequenceSpec ----------------------------
(***************************************************************************)
(* What vector.h, list.h, forward_list.h and deque.h promise: one sequence *)
(* of elements per initialised container.  A call that is refused, with    *)
(* the code that the header announces, has had no effect, nor has one that *)
(* answers CS_MEM.  Nothing is promised from an undefined answer on.       *)
(***************************************************************************)
EXTENDS Integers, Sequences, SequencesExt

CONSTANTS
  Objects,  (* the containers of the program                               *)
  Elems,    (* the elements                                                *)
  Orders,   (* the orders that a sort may go by                            *)
  Key(_, _),(* Key(e, by): the place of e in the order `by`                *)
  Stable,   (* whether a sort keeps elements of the same key in order      *)
  Skips,    (* whether a sort may do nothing, for want of memory           *)
  MayBreak, (* whether a call may have an undefined answer                 *)
  EmptyCode,(* the code for a container without elements                   *)
  PosCode   (* the code for an index outside of the container              *)

VARIABLES
  live,     (* the containers between init and free                        *)
  order,    (* order[c]: the order that a sort of c goes by                *)
  content,  (* content[c]: the elements of c, front first                  *)
  ret       (* what the last call returned                                 *)

vars == << live, order, content, ret >>

Init == /\ live \subseteq Objects /\ order \in [Objects -> Orders]
        /\ content = [c \in Objects |-> << >>] /\ ret = "CS_SUCCESS"

Becomes(c, s) == /\ content' = [content EXCEPT ![c] = s]
                 /\ ret' = "CS_SUCCESS" /\ UNCHANGED << live, order >>
Refuse(code)  == ret' = code /\ UNCHANGED << live, order, content >>

\* An element goes in before the one at index i; an index outside is refused.
Insert(c, e, i) ==
  /\ c \in live
  /\ IF i \in 0 .. Len(content[c])
       THEN Becomes(c, InsertAt(content[c], i + 1, e)) \/ Refuse("CS_MEM")
       ELSE Refuse(PosCode)

Erase(c, i) ==
  /\ c \in live
  /\ IF i \in 0 .. Len(content[c]) - 1
       THEN Becomes(c, RemoveAt(content[c], i + 1)) \/ Refuse("CS_MEM")
       ELSE Refuse(PosCode) \/ (content[c] = << >> /\ Refuse(EmptyCode))

Replace(c, e, i) ==
  /\ c \in live
  /\ IF i \in 0 .. Len(content[c]) - 1
       THEN Becomes(c, ReplaceAt(content[c], i + 1, e))
       ELSE Refuse(IF content[c] = << >> THEN EmptyCode ELSE PosCode)

PopFront(c) == /\ c \in live
               /\ IF content[c] = << >> THEN Refuse(EmptyCode) ELSE Becomes(c, Tail(content[c]))
PopBack(c)  == /\ c \in live
               /\ IF content[c] = << >> THEN Refuse(EmptyCode) ELSE Becomes(c, Front(content[c]))

Clear(c) == c \in live /\ Becomes(c, << >>)

\* r holds the elements of s, in the order `by`: r[i] is the p[i]th of s.
IsSorting(s, r, by) ==
  /\ Len(r) = Len(s)
  /\ \E p \in Bijection(DOMAIN s, DOMAIN s) :
       /\ \A i \in DOMAIN s : r[i] = s[p[i]]
       /\ \A i, j \in DOMAIN s :
            i < j => \/ Key(r[i], by) < Key(r[j], by)
                     \/ Key(r[i], by) = Key(r[j], by) /\ (Stable => p[i] < p[j])

Sort(c) ==
  /\ c \in live
  /\ Becomes(c, content'[c])
  /\ IsSorting(content[c], content'[c], order[c]) \/ (Skips /\ UNCHANGED content)

\* Capacity is not part of the promise.
Resize(c) == c \in live /\ \E code \in {"CS_SUCCESS", "CS_MEM", "CS_SIZE"} : Refuse(code)

Swap(c, d) ==
  /\ {c, d} \subseteq live
  /\ content' = [content EXCEPT ![c] = content[d], ![d] = content[c]]
  /\ order' = [order EXCEPT ![c] = order[d], ![d] = order[c]]
  /\ ret' = "CS_SUCCESS" /\ UNCHANGED live

\* The order of a container that is not live says nothing.
Free(c) == /\ c \in live /\ live' = live \ {c}
           /\ \E by \in Orders : order' = [order EXCEPT ![c] = by]
           /\ content' = [content EXCEPT ![c] = << >>] /\ ret' = "CS_SUCCESS"
Start(c) == /\ c \notin live
            /\ \/ /\ live' = live \cup {c} /\ \E by \in Orders : order' = [order EXCEPT ![c] = by]
                  /\ ret' = "CS_SUCCESS" /\ UNCHANGED content
               \/ Refuse("CS_MEM")

Break  == MayBreak /\ ret' = "undefined"
Broken == ret = "undefined"

Next ==
  \/ \E c \in Objects :
       \/ PopFront(c) \/ PopBack(c) \/ Clear(c) \/ Sort(c) \/ Resize(c) \/ Free(c) \/ Start(c)
       \/ \E i \in -1 .. Len(content[c]) + 1 :
            Erase(c, i) \/ \E e \in Elems : Insert(c, e, i) \/ Replace(c, e, i)
  \/ \E c, d \in Objects : Swap(c, d)
  \/ Break \/ Broken

Spec == Init /\ [][Next]_vars

=============================================================================
