------------------------------- MODULE Deque -------------------------------
(***************************************************************************)
(* deque.h and deque.c: a deque is an array of block_cap block headers, of *)
(* which front .. back own a buffer of block_size elements; a header keeps *)
(* the used range front .. back - 1 of its buffer.  The array grows by a   *)
(* half, or shifts its blocks to the middle, when a push runs off an end.  *)
(*                                                                         *)
(* Cells and headers outside the used ranges are never read again: they    *)
(* are set to NoElem and NoBlock.  An access outside of a buffer or of the *)
(* array is undefined in C: the deque is then marked `fault` and its       *)
(* behavior stops.                                                         *)
(***************************************************************************)
EXTENDS Integers, Sequences, SequencesExt, FiniteSets

CONSTANTS
  Deques,   (* the deques of the program                                   *)
  Elems,    (* the elements                                                *)
  NoElem,   (* the content of a cell not in use                            *)
  NoBlock,  (* the content of a header not in use                          *)
  Programs  (* the programs, each a record of:                             *)
            (*   deques: those of Deques it uses                           *)
            (*   min_cap, block_size: the dq_attr it gives to init         *)
            (*   fails: which of "malloc" and "realloc" may fail           *)
            (*   max_size: bound on the elements of a deque                *)
            (*   max_edit: bound on the size of a deque edited inside      *)
            (*   elems: those of Elems it inserts                          *)
            (*   front, back: which it pushes there: "any", "none" or      *)
            (*     "count" (on from the element now there, modulo 3)       *)

\* The headers in use whose buffers have n cells.
Headers(n) == [front : Nat, back : Nat, cell : [0 .. n - 1 -> Elems \cup {NoElem}] \cup {<< >>}]

ASSUME ProgramsAssumption ==
  /\ Programs \subseteq [deques : SUBSET Deques, min_cap : Nat \ {0}, block_size : Nat \ {0},
                          fails : SUBSET {"malloc", "realloc"}, max_size : Nat, max_edit : Nat, elems : SUBSET Elems,
                          front : {"any", "count", "none"}, back : {"any", "count", "none"}]
  /\ NoElem \notin Elems
  /\ \A p \in Programs : /\ "count" \in {p.front, p.back} => 0 .. 2 \subseteq Elems /\ Elems \subseteq Int
                         /\ NoBlock \notin Headers(p.block_size)

VARIABLES
  prog, (* the program that runs                                           *)
  dq,   (* dq[d]: the structure, with heap the number of buffers allocated *)
  ret   (* what the last call returned                                     *)

vars == << prog, dq, ret >>

BlockSize == prog.block_size
Fails == prog.fails

Block(offset)  == [front |-> offset, back |-> offset, cell |-> [o \in 0 .. BlockSize - 1 |-> NoElem]]
\* Headers whose buffer could not be allocated.  The range is left over; all
\* that matters is whether front is 0 and back is block_size.
NullBlocks == [front : {0, BlockSize}, back : {0, BlockSize}, cell : {<< >>}]
One(cap, block) == [i \in 0 .. cap - 1 |-> IF i = cap \div 2 THEN block ELSE NoBlock]

Fresh(cap) ==
  [live |-> TRUE, fault |-> FALSE, cap |-> cap, front |-> cap \div 2, back |-> cap \div 2,
   size |-> 0, heap |-> 1, blocks |-> One(cap, Block(cap \div 2))]
Freed == [live |-> FALSE, fault |-> FALSE, cap |-> 0, front |-> 0, back |-> 0,
          size |-> 0, heap |-> 0, blocks |-> << >>]

Init ==
  /\ prog \in Programs /\ ret = "CS_SUCCESS"
  /\ dq = [d \in Deques |-> IF d \in prog.deques THEN Fresh(prog.min_cap) ELSE Freed]

Fault(q)       == [q EXCEPT !.fault = TRUE]
Answer(rc, q)  == [rc |-> rc, q |-> q]
Done(q)        == Answer("CS_SUCCESS", q)
MayFail(how, q) == IF how \in Fails THEN {Answer("CS_MEM", q)} ELSE {}

-----------------------------------------------------------------------------
(* The array of blocks. *)

\* The active blocks moved to start at header f.
Moved(q, f) ==
  LET by == f - q.front IN
  IF f \in DOMAIN q.blocks /\ q.back + by \in DOMAIN q.blocks
    THEN [q EXCEPT !.front = f, !.back = @ + by,
                   !.blocks = [i \in DOMAIN @ |-> IF i \in f .. q.back + by
                                                    THEN q.blocks[i - by] ELSE NoBlock]]
    ELSE Fault(q)

Recentred(q) == Moved(q, (q.cap - (q.back - q.front + 1)) \div 2)

Enlarged(q) ==
  LET cap == q.cap + q.cap \div 2 IN
  [q EXCEPT !.cap = cap,
            !.blocks = [i \in 0 .. cap - 1 |-> IF i \in DOMAIN q.blocks THEN q.blocks[i] ELSE NoBlock]]

\* realloc's result replaces the only pointer to the array, NULL included.
Lost(q) == [q EXCEPT !.cap = @ + @ \div 2, !.blocks = << >>, !.fault = TRUE]

\* The result of malloc is written to header i before it is looked at.
Reached(q, i) == IF i \in DOMAIN q.blocks THEN q ELSE Fault(q)

\* Mutant of Opened: every new block starts in its middle.
OpenedMiddle(q, i, offset) ==
  IF q.fault THEN q
  ELSE [q EXCEPT !.blocks[i] = Block(BlockSize \div 2), !.heap = @ + 1]

Opened(q, i, offset) ==
  IF q.fault THEN q ELSE [q EXCEPT !.blocks[i] = Block(offset), !.heap = @ + 1]

\* _deque_grow_internal to the back: the answers it may give.
GrownBack(q) ==
  LET atEnd  == q.back + 1 >= q.cap
      shifts == q.front > q.cap \div 4
      moved  == IF ~atEnd THEN q ELSE IF shifts THEN Recentred(q) ELSE Enlarged(q)
      roomy  == Reached(moved, moved.back + 1)
  IN  {Done([Opened(roomy, roomy.back + 1, 0) EXCEPT !.back = @ + 1])}
      \cup MayFail("malloc", roomy)
      \cup (IF atEnd /\ ~shifts THEN MayFail("realloc", Lost(q)) ELSE {})

\* ... and to the front, where the blocks of a larger array go to its end.
GrownFront(q) ==
  LET atStart == q.front - 1 < 0
      shifts  == q.cap - q.back > q.cap \div 4
      larger  == Enlarged(q)
      moved   == IF ~atStart THEN q
                 ELSE IF shifts THEN Recentred(q)
                 ELSE Moved(larger, q.front + larger.cap - q.cap)
      roomy   == Reached(moved, moved.front - 1)
  IN  {Done([Opened(roomy, roomy.front - 1, BlockSize) EXCEPT !.front = @ - 1])}
      \cup MayFail("malloc", roomy)
      \cup (IF atStart /\ ~shifts THEN MayFail("realloc", Lost(q)) ELSE {})

-----------------------------------------------------------------------------
(* The two ends. *)

Cell(q, b, o) == o \in DOMAIN q.blocks[b].cell

PutBack(q, e) ==
  LET b == q.back  o == q.blocks[b].back IN
  IF q.fault \/ ~Cell(q, b, o) THEN Fault(q)
  ELSE [q EXCEPT !.blocks[b].cell[o] = e, !.blocks[b].back = o + 1, !.size = @ + 1]

PutFront(q, e) ==
  LET b == q.front  o == q.blocks[b].front - 1 IN
  IF q.fault \/ ~Cell(q, b, o) THEN Fault(q)
  ELSE [q EXCEPT !.blocks[b].cell[o] = e, !.blocks[b].front = o, !.size = @ + 1]

PushedBack(q, e) ==
  LET full == q.blocks[q.back].back >= BlockSize IN
  {IF g.rc = "CS_SUCCESS" THEN Done(PutBack(g.q, e)) ELSE g :
     g \in IF full THEN GrownBack(q) ELSE {Done(q)}}

PushedFront(q, e) ==
  LET full == q.blocks[q.front].front <= 0 IN
  {IF g.rc = "CS_SUCCESS" THEN Done(PutFront(g.q, e)) ELSE g :
     g \in IF full THEN GrownFront(q) ELSE {Done(q)}}

\* Mutant of Dropped: the buffer is not freed.
DroppedNotFreed(q, b) == [q EXCEPT !.blocks[b] = NoBlock]

\* The buffer of block b is freed.
Dropped(q, b) == [q EXCEPT !.blocks[b] = NoBlock, !.heap = @ - 1]

\* The deque that pop_back makes when it has freed the last buffer.
Renewed(q, block) ==
  IF q.cap \div 2 \notin DOMAIN q.blocks THEN Fault(q)
  ELSE [q EXCEPT !.front = q.cap \div 2, !.back = q.cap \div 2,
                 !.blocks = [i \in DOMAIN @ |-> IF i = q.cap \div 2 THEN block ELSE NoBlock]]

PoppedBack(q) ==
  LET b == q.back
      o == q.blocks[b].back - 1
      p == [q EXCEPT !.blocks[b].cell[o] = NoElem, !.blocks[b].back = o, !.size = @ - 1]
  IN  IF q.fault \/ ~Cell(q, b, o) THEN {Done(Fault(q))}
      ELSE IF o > 0 THEN {Done(p)}
      ELSE IF b > q.front
        THEN {Done([Dropped(p, b) EXCEPT !.back = b - 1])}
      ELSE {Done(Renewed(p, Block(BlockSize \div 2)))} \cup
           UNION {MayFail("malloc", [Renewed(p, left) EXCEPT !.heap = @ - 1]) : left \in NullBlocks}

PoppedFront(q) ==
  LET b == q.front
      o == q.blocks[b].front
      p == [q EXCEPT !.blocks[b].cell[o] = NoElem, !.blocks[b].front = o + 1, !.size = @ - 1]
  IN  IF q.fault \/ ~Cell(q, b, o) THEN {Done(Fault(q))}
      ELSE IF o + 1 < BlockSize THEN {Done(p)}
      ELSE IF b < q.back
        THEN {Done([Dropped(p, b) EXCEPT !.front = b + 1])}
      ELSE {Done([p EXCEPT !.blocks[b] = Block(q.cap \div 2)])}

-----------------------------------------------------------------------------
(* Access by index. *)

\* deque_at: the header and the offset of element i, if the code can tell.
At(q, i) ==
  LET first == q.blocks[q.front].back - q.blocks[q.front].front
      rest  == i - first
  IN  IF i < first THEN << q.front, q.blocks[q.front].front + i >>
      ELSE << q.front + 1 + rest \div BlockSize, rest % BlockSize >>

Readable(q, i) == LET at == At(q, i) IN
  /\ i \in 0 .. q.size - 1
  /\ at[1] \in DOMAIN q.blocks /\ q.blocks[at[1]] # NoBlock /\ Cell(q, at[1], at[2])

Read(q, i) == LET at == At(q, i) IN
  IF Readable(q, i) THEN q.blocks[at[1]].cell[at[2]] ELSE NoElem

\* q with the elements at the indices of val replaced.
Rewritten(q, val) ==
  IF q.fault \/ \E i \in DOMAIN val : ~Readable(q, i) THEN Fault(q)
  ELSE [q EXCEPT !.blocks = [b \in DOMAIN q.blocks |->
         IF q.blocks[b] = NoBlock THEN NoBlock
         ELSE [q.blocks[b] EXCEPT !.cell = [o \in DOMAIN q.blocks[b].cell |->
                LET here == {i \in DOMAIN val : At(q, i) = << b, o >>} IN
                IF here = {} THEN q.blocks[b].cell[o] ELSE val[CHOOSE i \in here : TRUE]]]]]

\* Mutant of Inserted: the elements in between are not shifted.
InsertedUnshifted(q, e, i) ==
  {Done(Rewritten(r.q, [j \in {i} |-> e])) :
     r \in IF i < q.size \div 2 THEN PushedFront(q, Read(q, 0))
                                ELSE PushedBack(q, Read(q, q.size - 1))}

\* deque_insert_at inside the deque duplicates the end that is nearer, whose
\* return code it ignores, and moves the elements between.
Inserted(q, e, i) ==
  IF i < q.size \div 2
    THEN {Done(Rewritten(r.q, [j \in 1 .. i |-> IF j = i THEN e ELSE Read(r.q, j + 1)])) :
            r \in PushedFront(q, Read(q, 0))}
    ELSE {Done(Rewritten(r.q, [j \in i .. q.size |-> IF j = i THEN e ELSE Read(r.q, j - 1)])) :
            r \in PushedBack(q, Read(q, q.size - 1))}

\* deque_erase inside the deque moves the element to the nearer end.
Erased(q, i) ==
  MayFail("malloc", q) \cup
  IF i < q.size \div 2
    THEN PoppedFront(Rewritten(q, [j \in 0 .. i |-> Read(q, IF j = 0 THEN i ELSE j - 1)]))
    ELSE PoppedBack(Rewritten(q, [j \in i .. q.size - 1 |->
                                    Read(q, IF j = q.size - 1 THEN i ELSE j + 1)]))

-----------------------------------------------------------------------------
(* The operations. *)

Content(q) ==
  LET used(block) == [o \in 1 .. block.back - block.front |-> block.cell[block.front + o - 1]]
      upTo[b \in q.front - 1 .. q.back] ==
        IF b < q.front THEN << >> ELSE upTo[b - 1] \o used(q.blocks[b])
  IN  upTo[q.back]

Usable(d) == dq[d].live /\ ~dq[d].fault

Reply(d, answers) ==
  \E r \in answers : dq' = [dq EXCEPT ![d] = r.q] /\ ret' = r.rc /\ UNCHANGED prog
Refuse(code) == ret' = code /\ UNCHANGED << prog, dq >>

\* The elements that the program pushes next to e, step apart from it.
Pushes(how, e, step) ==
  CASE how = "any" -> prog.elems
    [] how = "count" -> {IF e = NoElem THEN 0 ELSE (e + step) % 3}
    [] how = "none" -> {}

PushBack(d) ==
  /\ Usable(d) /\ dq[d].size < prog.max_size
  /\ \E e \in Pushes(prog.back, Read(dq[d], dq[d].size - 1), 1) : Reply(d, PushedBack(dq[d], e))

PushFront(d) ==
  /\ Usable(d) /\ dq[d].size < prog.max_size
  /\ \E e \in Pushes(prog.front, Read(dq[d], 0), 2) : Reply(d, PushedFront(dq[d], e))

PopBack(d) ==
  /\ Usable(d)
  /\ IF dq[d].size = 0 THEN Refuse("CS_EMPTY") ELSE Reply(d, PoppedBack(dq[d]))

PopFront(d) ==
  /\ Usable(d)
  /\ IF dq[d].size = 0 THEN Refuse("CS_EMPTY") ELSE Reply(d, PoppedFront(dq[d]))

\* Index 0 and index size are push_front and push_back.
InsertAtIndex(d, i, e) ==
  LET q == dq[d] IN
  /\ Usable(d) /\ q.size < prog.max_edit /\ q.size < prog.max_size
  /\ IF i \notin 0 .. q.size THEN Refuse("CS_POS")
     ELSE Reply(d, CASE i = 0 -> PushedFront(q, e)
                     [] i = q.size /\ i > 0 -> PushedBack(q, e)
                     [] OTHER -> Inserted(q, e, i))

EraseIndex(d, i) ==
  LET q == dq[d] IN
  /\ Usable(d) /\ q.size <= prog.max_edit
  /\ IF i \notin 0 .. q.size - 1 THEN Refuse("CS_POS")
     ELSE Reply(d, CASE i = 0 -> PoppedFront(q)
                     [] i = q.size - 1 /\ i > 0 -> PoppedBack(q)
                     [] OTHER -> Erased(q, i))

\* All buffers go and one new one comes; clear has no return code.
Clear(d) ==
  LET q == [dq[d] EXCEPT !.size = 0, !.heap = 1] IN
  /\ Usable(d)
  /\ Reply(d, {Done(Renewed(q, Block(q.cap \div 2)))} \cup
              (IF "malloc" \in Fails
                 THEN {Done([Renewed(q, left) EXCEPT !.heap = 0]) : left \in NullBlocks}
                 ELSE {}))

\* Everything changes hands but block_cap.
Swap(c, d) ==
  /\ Usable(c) /\ Usable(d) /\ c # d
  /\ dq' = [dq EXCEPT ![c] = [dq[d] EXCEPT !.cap = dq[c].cap],
                      ![d] = [dq[c] EXCEPT !.cap = dq[d].cap]]
  /\ ret' = "CS_SUCCESS" /\ UNCHANGED prog

Free(d) == Usable(d) /\ Reply(d, {Done(Freed)})

Start(d) ==
  /\ d \in prog.deques /\ ~dq[d].live
  /\ Reply(d, {Done(Fresh(prog.min_cap))} \cup MayFail("malloc", Freed))

Edit(d) ==
  \/ \E e \in prog.elems, i \in -1 .. dq[d].size + 1 : InsertAtIndex(d, i, e)
  \/ \E i \in -1 .. dq[d].size : EraseIndex(d, i)

Next ==
  \/ \E d \in Deques : \/ PushBack(d) \/ PushFront(d) \/ PopBack(d) \/ PopFront(d)
                       \/ Edit(d) \/ Clear(d) \/ Free(d) \/ Start(d)
  \/ \E c, d \in Deques : Swap(c, d)

Spec == Init /\ [][Next]_vars

-----------------------------------------------------------------------------
(* Correctness. *)

TypeOK ==
  /\ ret \in {"CS_SUCCESS", "CS_MEM", "CS_EMPTY", "CS_POS"}
  /\ \A d \in Deques :
       /\ dq[d].live \in BOOLEAN /\ dq[d].fault \in BOOLEAN
       /\ dq[d].size \in 0 .. prog.max_size /\ dq[d].heap \in Nat /\ dq[d].cap \in Nat

(* The range of every block in use lies in its buffer (deque.h, the comments
   on the fields front and back of deque_block_t). *)
RangesInBuffer ==
  \A d \in Deques : Usable(d) =>
    \A b \in dq[d].front .. dq[d].back : LET block == dq[d].blocks[b] IN
      0 <= block.front /\ block.front <= block.back /\ block.back <= BlockSize

\* Every block in use has a buffer.
Whole(q) == \A b \in q.front .. q.back : q.blocks[b].cell # << >>

(* deque_at finds by arithmetic, on the assumption that all blocks behind the
   first are filled from offset 0, what a walk over the blocks finds. *)
AtFindsContent ==
  \A d \in Deques : Usable(d) /\ Whole(dq[d]) =>
    [i \in 1 .. dq[d].size |-> Read(dq[d], i - 1)] = Content(dq[d])

(* Every buffer allocated and not yet freed is the buffer of a block in use:
   no operation leaks one, or frees one that is still in use. *)
NoLeak ==
  \A d \in Deques : Usable(d) =>
    dq[d].heap = Cardinality({b \in dq[d].front .. dq[d].back : dq[d].blocks[b].cell # << >>})

\* A pop_back or a clear has reported a block that it could not allocate.
Broken == Fails # {} /\ \E d \in Deques : \E b \in DOMAIN dq[d].blocks :
                            dq[d].blocks[b] # NoBlock /\ dq[d].blocks[b].cell = << >>

(* The deques implement sequences of elements: what a call answers and leaves
   behind is what the same call on a sequence does, a failed push has changed
   nothing but the place of the blocks, and no access is outside of the array
   or of a buffer (a deque marked `fault` has no content). *)
NoOrder(e, by) == 0

Abs == INSTANCE SequenceSpec WITH
  Objects <- Deques, Orders <- {"none"}, Key <- NoOrder, Stable <- TRUE, Skips <- FALSE,
  MayBreak <- \E p \in Programs : p.fails # {}, EmptyCode <- "CS_EMPTY", PosCode <- "CS_POS",
  order <- [d \in Deques |-> "none"],
  live <- {d \in Deques : dq[d].live},
  content <- [d \in Deques |-> IF dq[d].live /\ ~dq[d].fault /\ Whole(dq[d])
                                 THEN Content(dq[d]) ELSE << >>],
  ret <- IF Broken THEN "undefined" ELSE IF \E d \in Deques : dq[d].fault THEN "fault" ELSE ret

ImplementsSequence == Abs!Spec

=============================================================================
