# Verification of C-Structures

TLA+ specifications of the containers of the C-Structures library, model-checked
with TLC on small instances and, for the hash table, the red-black tree, the vector, both
lists, the deque, the logger, the argument parser, the priority queue, the flat set and the
keyed containers, proved with TLAPS for every size. This file says what the library consists of, which
module models which part, what each run and each theorem shows, and what is left out.

All paths are relative to the repository: `hash_table.h` is
`src/include/cs/hash_table.h`, `deque.c` is `src/deque/deque.c`, and so on.

## 1. Inventory

The library is sequential C with callbacks for copying, freeing, comparing and
hashing; only the logger is meant for several threads, and has a lock. Nothing but
the log persists, and there is no network. What is hard in this code is long
histories: loops over linked or probed structures
that end only if an invariant holds, arrays that grow, shift and shrink, links
that several assignments rewire, failed allocations half way through an
operation, and structures that share memory after a swap.

| Component | State | Operations | What makes it correct |
|---|---|---|---|
| hash table (`hash_table.h`) | `capacity`, `occupied[]` (EMPTY, OCCUPIED, TOMBSTONE), `keys[]`, `size` | add, remove, get, count, rehash, clear, swap | no element twice; every element reachable by its probe; size right; every probe ends; growth loses nothing |
| unordered_set | a hash table | the same, handed over | implements a finite set |
| red-black tree (`rbt.h`) | nodes with `left`, `right`, `father`, `color`; `root`, `size` | insert, delete, find, clear, free, swap | links agree; search order; red and black rules; clear frees every node |
| set | a tree | the same, handed over | implements a finite set |
| map, multimap, multiset | a tree of pairs, key and value attributes, a buffer pair, `size` | insert, erase, find, swap, clear, free | size counts values; attributes outlive their users |
| unordered_map, -multimap, -multiset | a hash table of pairs, attributes, a buffer, `size` | the same | the same |
| deque | array of block headers, `front`, `back`, `block_cap`; per block a used range | push/pop at both ends, insert_at, erase, at, swap, clear, free | implements a sequence; ranges in buffers; no buffer leaked |
| vector | one array, `size`, `cap` | push, pop, insert_at, erase, reserve, shrink_to_fit, sort, swap | implements a sequence; size never above cap |
| list | a ring of nodes, `front`, `size` | push and pop at both ends, insert_at, erase, sort, swap, clear, free | next and prev agree; size right; sort is stable and keeps every node |
| forward_list | a chain of nodes, `head`, `tail`, `size` | push_front, pop_front, sort, swap, clear, free | tail is the last node; size right; sort keeps every node |
| priority_queue, flat_set | a `type` and a vector or deque of it | push and pop with sift; insert, erase and find by binary search; clear, swap, free | heap order; sorted and unique; loops end; one owner per container |
| stack, queue | a `type` and a vector, deque or list of it (a queue has no vector) | push, pop, clear, free; queue_swap | last in, first out; first in, first out; each call reaches the operation of the container's type |
| pair, universal | two values in one allocation; macros | set, free, copy | ownership of the two values |
| cargs | registered arguments, parsed values | add_arg, parse, get_arg | a value follows its name and belongs to one option; nothing is overlooked; required options have values; free frees what parse allocated |
| clogger | `FILE`, mutex, level and flags | init, log, assert, close | whole lines; a message is on disk when its call returns; mutex and file released |

How they interact. `set`, `map`, `multimap`, `multiset` call the tree;
`unordered_*` call the hash table; `multimap` and `unordered_multimap` store
vectors of values; the adaptors `priority_queue`, `flat_set`, `stack` and `queue` own a
container that `init` makes, and every call switches on `type` to the operation of a vector,
a deque or a list. All calls are synchronous; user callbacks are called in the middle of an operation, and are
taken to be pure functions of the elements here.

Behaviours that are hard to test, with the line where each bites and the
property that watches it, are listed under `hazards` in PROJECT.json.

## 2. Modules

| Module | Models | How |
|---|---|---|
| `UnorderedSetSpec` | what `unordered_set/README.md` and `set/README.md` promise | a finite set; a call begins, and returns with its whole effect in one step |
| `HashTable` | `hash_table.h` | one step per loop iteration of a probe and of the rehash scan |
| `RBTree` | `rbt.h` | one step per turn of each loop: search, both fixups, the stackless walk of clear |
| `SequenceSpec` | what `vector.h`, `list.h`, `forward_list.h` and `deque.h` promise | a sequence per container; one step per call; sorts by what the result must satisfy |
| `Deque` | `deque.h`, `deque.c` | one step per operation; the block array, header by header |
| `Narrowing` | the temporaries of type `int` through which swaps pass sizes and capacities | `ThroughInt`, for any INT_MAX and SIZE_MAX |
| `Vector` | `vector.h`, `vector.c` | one step per operation, one per byte of the radix sort; the array, cell by cell |
| `List`, `ForwardList` | `list.h`, `list.c`; `forward_list.h`, `forward_list.c` | one step per operation; a heap of nodes, link by link |
| `MergeSort` | the bottom-up merge sort of both lists | functions on sequences of nodes |
| `KeyedContainers` | map, multimap, multiset and their unordered kin | one step per operation; number of values per key, and which attributes each entry, buffer and container points to |
| `AdaptorSpec` | what `stack.h`, `queue.h`, `priority_queue.h` and `flat_set.h` promise | a sequence, a bag or a set per adaptor; one step per call |
| `AdaptorState` | the state of the adaptors of a program, and what must hold of it | extended by `Adaptor` and by `MCWrappers` |
| `Adaptor` | what the four adaptors share: init, clear, swap, free, and the containers as they see them | a container is the sequence it holds, and the ways its calls fail |
| `PriorityQueue`, `FlatSet`, `Stack`, `Queue` | `priority_queue.c`, `flat_set.c`, `stack.c`, `queue.c` | extend `Adaptor`; one step per turn of each loop |
| `Cargs` | `cargs.h`, `cargs.c` | one step per option registered, per token, and per option compared with it |
| `Logger` | `clogger.h`, `clogger.c` | threads; one step per `fprintf`, lock, flush and unlock, each write of which may fail |
| `MCHashTable`, `MCRBTree`, `MCDeque`, `MCKeyedContainers`, `MCPriorityQueue`, `MCCargs`, `MCLogger` | | instances for TLC |
| `Containers` | | composes `Vector`, `List` and `ForwardList`: a behavior picks one kind |
| `MCSequences` | | the instance of `Containers` for TLC |
| `MCWrappers` | | composes `KeyedContainers` and the four adaptors in the same way, for TLC |
| `HashTableProofs`, `RBTreeProofs`, `ContainersProofs`, `DequeProofs`, `KeyedContainersProofs`, `AdaptorProofs`, `CargsProofs`, `LoggerProofs` | | the theorems of section 5 |

**HashTable.** `slot[i]` folds `occupied[i]` and `keys[i]` into one value: an
element, `Empty` or `Tombstone`. `pc`, `key`, `idx`, `first` and `count` are the
locals of the call that is running; `newSlot` and `scan` those of `rehash`. A hash
function is any function `Hash` from elements to naturals; `Home(k, c)` is
`hash & (capacity - 1)`, written `%`, for `init` rounds the capacity up to a power
of two. The load check is `NeedsRehash`; `AddStep` passes an occupied slot or
remembers the first tombstone; `AddPlace` is the EMPTY branch; `RehashTake`,
`RehashStep`, `RehashPlace`, `RehashDone` are the loop and the installation of the
new arrays; `GetAbsent` and `CountReturn` have the test for being back at the first
slot, `AddStep` and `RemoveStep` do not, as in the code.
`RehashNoMemory` is the failed malloc of the keys, `RehashCrash` the failed calloc,
whose memset comes before the NULL check.

**RBTree.** A node is named by the key it holds, which the code never moves
between nodes. `child[side]` and `father` are the pointers; the mirrored halves
of the rotations and of the fixups are one definition with a side. `cur` and
`prev` are `node`/`x` and `prev`/`x_father`. `DeleteUnlink` is the whole relinking
in `delete_internal` up to the call of the fixup; `DeleteFixup` is one turn of its
loop with all four cases, `ClearDescend` and `ClearLeaf` one turn of the walk
that needs no stack because it cuts the links behind it.

**Deque.** `blocks[i]` is a header with its buffer, `NoBlock` when unused; cells
outside the used range are `NoElem`. An access outside of the array or of a buffer
sets `fault` and ends the behaviour of that deque; the refinement does not allow
it. `GrownBack` and `GrownFront` are the two directions of `_deque_grow_internal`
with shift, enlargement and each allocation that may fail; `Reached` is the write of malloc's
result to the next header, which happens before the result is looked at. A buffer that could
not be allocated is `<< >>`, and the range of its header is whatever was there: `NullBlocks`
tells apart only what the code compares (`front` with 0, `back` with `block_size`). `prog`, chosen by `Init` and never
changed, is the program that uses the deques: how many there are, their attributes, which
allocations may fail and what is pushed, so that one run covers several of them.

**SequenceSpec.** `content[o]` is the sequence that container `o` holds, `live` and
`ret` its life and the last return code. `Sort` says what a sort may leave: the same
elements, in order of one of `Orders`, with equal elements in their places if
`Stable`; `Skips` admits a sort that could not allocate and did nothing. From a call
that the library leaves undefined (`MayBreak`) nothing is promised any more. `EmptyCode` and
`PosCode` are the codes for a container without elements and for an index outside of it, on which the
headers differ: `list.h` announces CS_SIZE for both.

**Vector.** `vec[v].buf` is the array with `cap` cells. `Realloc`
is a realloc that succeeds or leaves everything as it was, `Room` the growth by two of a
full array, `Shrunk` the division by `shrink_factor` after a removal. `vector_sort` without a comparator is the radix
sort: `RadixStart`, one `RadixPass` per byte, which counts, accumulates and places
(`CountedPlace`) into the other buffer, and `RadixEnd`. Elements are numbers, and
`Weight[k]` is what a 1 in byte k stands for, so that byte k is a quotient and a remainder. With a comparator it
is `qsort`, an external function modelled by its contract. `vector_swap` passes size and capacity through
variables of type `int`: `ThroughInt` is what comes out, and `Bounded` keeps arrays below INT_MAX elements, from
where on a vector would come out of a swap with another size.

**List and ForwardList.** `heap` maps the addresses in use to their nodes; malloc
takes any free one or fails. A list is its `front`, and its last node is
`front->prev`; a forward list has `head` and `tail`. `Linked` and `Unlinked` are the
pointer assignments of pushes, inserts and erases. A sort reads the nodes into a
sequence, merges in `MergeSort`'s bins as the code does, and links the result. `clear` of an
empty list dereferences NULL and ends the program (`ret` is "crash"). The codes that the list answers
where `list.h` announces CS_SIZE are read as that code by `Announced` (section 4).
`forward_list_swap` passes the size through an `int`, as `vector_swap` does.

**Logger.** `call[t]` is the `clogger_log` that thread `t` is in: the line, and
the parts still to print (`Parts` lists the `fprintf` in the order of the macro).
`mutex[l]` is NULL, free, or its holder. `buffer[s]` is what stdio holds of a stream,
`disk[s]` what has been written. `due` records, for the properties only, which calls have
returned. The failures of `clogger_init` are two actions, before and after the file is open.
`FprintfFails` and `FlushFails` are a write that fails, as on a full disk: the macro looks at neither result, some
beginning of the buffer may have been written, and the rest is lost (`WriteFails`). `failed` records, again for the
properties only, which streams that has happened to. `InCall`, in the guard of `Close`, is not in the code: it is what
the program has to see to, namely to close a logger only when no thread is in a call on it.

**KeyedContainers.** Storage is reduced to how many values a key has. What is
kept in full is what the six copies of this code differ in: what each operation
does to `size`, whose attributes a new entry points to (the buffer's, or those of
the container), and what swap exchanges.

**AdaptorState and Adaptor.** `adaptor` is the kind of adaptor a program uses, which never changes. `obj[o]` is the struct of adaptor `o`, its `type` and the address of its
container; `mem[c]` is the container at address `c`. What a container does is taken from the
modules of the containers: it is the sequence it holds, and a `life` that tells the states that
a failed allocation leaves behind (the list is at the head of the module). A call on it yields one
of a set of answers; where C leaves the call undefined the answer is "undefined", after which
nothing happens. `exact` is history for the properties: FALSE once a failed allocation has left an
element in the wrong place. `NoBuffer` is a call on a deque with a block that has lost its buffer: it may go
through NULL, or come by that block and succeed. `init` returns what the init of the container returns, as a
`cs_codes`: the container's address, or NULL, whose value is that of CS_SUCCESS.
`FreedInside` and `Freed` are the two frees of one struct.

**PriorityQueue and FlatSet.** `work` holds the locals of the call in progress. `SiftUp` and
`SiftDown` are a turn of the loops of push and pop, with indices from 1 as in the code; `GoLeft`, `GoRight`,
`Found` and `Absent` are a turn and the three ends of the binary search, which insert,
erase and find each spell out.

**AdaptorSpec.** `content[o]` is a sequence, a bag or a set, by `discipline`; `live` are the
adaptors that are initialised. A pop from a priority queue may take any of the largest
elements. The return codes are those of the headers; for two of them, which no header defines, there are the
parameters `PresentCode` and `AbsentCode`. Once a failed allocation has cost a container its state (`Break`) nothing is
promised of any adaptor. `MCWrappers` says how the code's answers are read: `Announced` takes the address that init
returns for CS_SUCCESS, and `Lost` tells from the containers whether anything has broken.

**Cargs.** A token or a name is a record of its dashes and its parts (what lies between later
dashes); `ShortName` is the loop that takes the first letter of each part. `i` and `j` are the
counters of the two loops of `parse`; as in the code `OptionValue` moves `i` in the middle of the
loop over `j`. The value of an option is the place of its token in argv, a number below 1 for a default
value or none, so that the text of a value and its conversion do not matter.

## 3. Runs

| Run | States | Shows |
|---|---|---|
| `table` | 353 248 | the parts of the inductive invariant; refinement of the set; lookups always return, updates return while some slot is EMPTY |
| `table_full` | violation | inserts and erases alone fill the table with tombstones; the next update of an absent key never returns |
| `tree` | ~250 000 | tree invariants at every turn of every loop; every call returns; refinement of the set, with clear and free leaving no node behind |
| `deque` | 48 826 | every operation on small deques, blocks drifting over the whole array; shift and enlargement at both ends; swap at any time with malloc failing at any time: access by index, no buffer leaked, refinement of the sequence |
| `deque_offset` | violation | with `min_cap` = `block_size` (as in the defaults, 64 and 64) two enlargements and a clear put the first element outside of its block |
| `sequences` | 150 413 (up to symmetry) | two vectors grown, shrunk, reserved, fitted, swapped and sorted; two lists, or two forward lists, on one heap; allocations fail at any time: the array covers the elements, rings and chains are intact, no node leaked; refinement of the sequence, with sorts |
| `logger` | 1 047 645 | writes to one of the files may fail: whole lines; returned calls are on disk; no file leaked by a failed init; a mutex taken is released |
| `wrappers` | 578 777 | the size field in the keyed containers but unordered_multimap, and ownership of attributes where swap is complete; heap order, sorted sets, what a search brackets, one owner of its type per container; refinement of the stack, queue, bag and set; the loops end |
| `keyed_swap` | violation | after a swap and a free, map, multimap and unordered_map use freed attributes |
| `adaptor_free` | violation | even if no allocation fails, `priority_queue_free` frees the struct of its container twice |
| `cargs` | 138 515 | with options that share short names and any command line: values freed, values placed, names overlooked, required options |
| `cargs_help` | violation | `-h` ends the program with its help although the option host goes by it, as in the example of `cargs/README.md` |

**Bounds.** *Hash table*: the first capacity is 4, so a third live element makes the
table grow to 8 and a sixth to 16; six elements with hash values chosen to
collide, to wrap around the end and to separate when the table doubles give every
order of live, erased and empty slots on a probe. The code's smallest capacity is
larger, but nothing depends on it; the theorems hold for every capacity.
*Tree*: with seven keys in any order every case of both fixups occurs, with
both sides; a second turn of the insertion fixup needs eight keys, of the deletion
fixup ten, and these trees are grown in ascending order and then deleted from in
any order. *Deque*: eight headers of five cells let the used range reach both ends
of the array; seven elements span three blocks (`Drifting`). In `Growing` a caller pushes the
numbers modulo 3 in order, which keeps 44 elements tractable and still tells a
misplaced one. `max_edit` bounds the size at which insert_at and erase are called.
In `Swapping` two elements per deque are enough to make a block be opened, dropped
and renewed between any two swaps. `Square`, of `deque_offset`, is `Growing` with as many
blocks as elements in a block. *Vector*: one vector with `min_cap` 1, `shrink_factor` 2 and a comparator opposed to the
bytes, one with `min_cap` 2 that never shrinks and is sorted by radix; four elements in
all reach capacity 8 and every way back. Elements are two bytes of two values: the low
bytes differ, so that the pass over the high byte must keep the order of the first. INT_MAX is 8 and SIZE_MAX
63, so that no capacity of the run is lost in an `int`.
*Lists*: four nodes in all, three elements of two keys; four nodes put a run of
two in a bin and merge it, and equal keys tell a stable sort from another one. Nodes are a
symmetric set, as an address is never compared but for equality. *Logger*: two threads, of
two calls and one; two levels; three loggers that differ in mutex, mode, flags and
stream; three calls of init, so that one can be reopened, fail, or close stdout. Writes fail to the file that is
appended to (`MayFail`), at any time and any number of times. *Keyed*: two containers, two keys, three values
per key; `MaxSize` cuts off the size that drifts upwards in unordered_multimap.
*Adaptors*: two adaptors and two containers, so that they can be swapped, freed and made anew in
the other's place; one container holds up to five elements, which gives a heap three levels and
an only child, and a search three turns, the other none (stacks and queues: four and two), and deques
insert in both halves. Of the five elements of a flat set two are equal.
In `adaptor_free` three elements and a single queue do. *Cargs*: command lines of up to
four tokens, which is two options with values, or one that takes the name of another for
its value, over options that share a short name, have none, have a name of two parts, or are
flags.

**Fairness.** The library runs in its caller's thread: a call that has begun goes on
to its return, so `FairSpec` has weak fairness of `Run`, the steps of a call in
progress. The caller is never obliged to call. No fairness is put on one branch
against another. In `MCWrappers` the same is said of `Turn`, a turn of a loop of a priority
queue or a flat set. `Cargs` has no fairness and no liveness property: the two loops of parse only count up.
In `Logger` each thread that is inside a call and not blocked goes on:
weak fairness per thread. It is not claimed that a waiting thread gets the mutex, for a
pthread mutex is not fair; only that a holder lets go.

**Deadlock** is checked in every run but those where the program really may
stop: `table` and `table_full` (the process ends on a write through NULL), `deque` and `sequences`
(the same, and all containers freed), `wrappers`, `keyed_swap` and `adaptor_free` (all containers
freed, or an undefined call), `cargs` and `cargs_help` (the program has ended or freed its parser),
`logger` (the calls are used up).

**Types.** Every component module but those of the adaptors has a `TypeOK`. Those of the hash table,
the tree, the keyed containers and the logger are theorems (`TypeCorrect`), those of the vector and the lists
another (`TypesCorrect`), and the typing of the adaptors (`Typed`) and the deque (`Struct`) is part of the
invariants of section 5. TLC confirms the others in the instances above, but no run lists
them: the properties of a run are kept for what can really go wrong.

## 4. What the code does not keep

Five runs refute what the repository says of itself (`findings` in PROJECT.json): `table_full`,
`deque_offset`, `keyed_swap`, `adaptor_free` and `cargs_help`. The models also follow
the code where no run is about it:

- `hash_table.h:80`: rehash clears `new_occupied` before it checks it for NULL
  (`RehashCrash`).
- `deque.c:31`: with fewer than eight headers the shift of a full array can be a
  shift by zero, and the new block is header -1; with one header, `deque.c:18` enlarges
  by zero.
- `deque.c:193`: swap leaves `block_cap` behind. The program `Swapping` gives both deques the
  same capacity; the model, and the theorems about it, follow what happens to deques whose
  `block_cap` is not the length of their array.
- `deque.c:119` and `132`: insert_at ignores a failed push. In the front half it then overwrites an
  element, which may also put a flat set out of order, and answers CS_SUCCESS; in the back
  half it copies through NULL. `Swapping` therefore makes no insertions inside; `Adaptor` has
  both outcomes.
- `deque.h:149` and `deque.c:231`: pop_back and clear that cannot allocate leave a
  NULL buffer behind. `SequenceSpec` promises nothing from there on (`Break`).
- `unordered_multimap.h:167`: removing a key takes 1 off `size`, whatever the number of
  its values. The header (lines 14 and 202) and `unordered_multimap/README.md:63` call it the number of entries.
  `SizeIsEntries` claims nothing of this kind.
- `multiset.h:112`: `size` counts occurrences; the header (lines 12 and 190) and `multiset/README.md:59` call it the
  number of unique elements. `SizeIsEntries` claims what the code does. `unordered_multiset.h:164` erases one occurrence; the header says all.
- `list.c:178`: clear of an empty list dereferences its NULL front.
- `vector.c:15`: the radix sort returns unsorted when its buffer cannot be allocated, and
  `vector_sort` has no return code to say so.
- `vector.h:269` and `vector/README.md:80` require a comparator for a sort; without one
  the code sorts by the bytes, low byte first.
- `list.h` (lines 93, 123 and 151) and `list/README.md:100-102` announce CS_SIZE for a pop from an empty list and for
  an erase at a bad position; the code answers CS_EMPTY (`list.h:98` and `128`) and CS_EMPTY or CS_POS (`list.c:78-79`).
  `ListImplements` claims that such a call is refused without an effect, with either code.
- `vector.c:255` and `256`, `forward_list.c:146`: a swap keeps a size and a capacity of type `size_t` in an `int`. Above
  INT_MAX they come back as other numbers. The model follows that (`ThroughInt`); what is claimed of vectors and forward lists
  is claimed up to that size.
- `forward_list.c:130` merges the later run first: the sort is not stable, `list_sort` is.
- `clogger.c:22` and `29`: when the mutex cannot be made, `clogger_init` closes its stream
  even if that is stdout, which `clogger_close` takes care not to do. Every failure after
  the first malloc leaks the struct (lines 13 to 31). If it happens twice stdout is closed twice, which is
  undefined in C; programs are not followed beyond that.
- `clogger.h:117`, and every `fprintf` of the macro: the result is not looked at. When a write fails, say on a full disk, the call
  returns as ever and its message is lost. `ReturnedIsOnDisk` claims nothing of a stream from its first failed write on.
- `stack_init`, `queue_init`, `priority_queue_init` and `flat_set_init` return the pointer that the
  container's init returns, as a code, where `stack.h:23`, `flat_set.h:22` and the READMEs promise a code and
  `stack_unittest.h:19-26` and `flat_set_unittest.h:19-26` expect CS_SUCCESS: success looks like an error, and a vector or deque
  that found no memory like CS_SUCCESS. `AdaptorImplements` takes the address for CS_SUCCESS. `deque_init` has then freed the struct the adaptor goes on to use.
- `flat_set.h:30` and `38` announce CS_EXISTS for an element that is there and CS_NOT_FOUND for one that is not.
  `universal.h` defines neither; the code answers CS_ELEM to both.
- `priority_queue.c:75`: a push that finds no memory for its swap buffer answers CS_MEM and
  leaves the element stored, and the heap out of order.
- `multimap.c:37`, `set.c:13`, `unordered_multiset.c:37`: an init that fails for want of memory frees
  the struct it was to fill, even if that is a pool the caller passed; `set_init` given no pool and
  attributes of size 0 leaks the struct.
- `multimap.h:66` (and `unordered_multimap.h`): the copy of an entry does not check the malloc of its
  vector of values: the push of the first value, at line 107, then writes through NULL.
- `cargs.c`: an option registered without leading dashes is never matched by its name, and
  `get_arg`, which adds dashes to the name it is asked for, does not find it. That is how `cargs.h:47` and `59` and
  `cargs/README.md:31-39` show its use; the tests register names with their dashes. `RequiredHaveValues` speaks of those.
- `cargs.c:150-160`: the short name of an option is made of the first letters of all its words, `-nr` for `--num-runs`;
  `cargs/README.md:81-83` says the first letter. An option is therefore not found by the short form of the README, and
  `NothingMissed` does not count that form as a name.
- `cargs.c`: the value of one option may be the name of a later one; an option at the end of the
  command line without its value, and one that is repeated, are ignored silently;
  `get_arg` returns the first of several options of one name. `cargs/README.md` says that strings
  point into argv; they are copied.
- `Makefile`: the four adaptors are in none of its SUBDIRS, and `unittest.c` has their tests
  commented out.
- `clogger.h:63` documents return codes of `clogger_init`, which returns a pointer.

## 5. Theorems

`HashTableProofs` proves, for every finite or infinite set of elements, every hash
function and every initial capacity that is a multiple of four
(`HashAssumption` and the assumptions on the markers), that

- `TypeCorrect`, `SizeCorrect`, `Uniqueness`, `Reachability`, `LoadBounded`,
  `RehashCorrect`, `ProbesKnow`: the invariants the run `table` checks;
- `Implementation`: the table implements `UnorderedSetSpec`, return codes included.

All follow from one inductive invariant, `IInv` (`Invariance`). Uniqueness alone is
not inductive: that `AddPlace` stores no second copy rests on what its probe has
seen. `ProbeKnows` records it: no slot behind the cursor is EMPTY, none holds the
element, and the remembered tombstone is reachable from the home slot. When the
cursor meets an EMPTY slot, `ChainsUnbroken` says that an element beyond it would be
cut off from its home slot, so the element is nowhere in the table
(`ProbeMisses`). `RehashPartial` plays the same part for a growth: the new table
holds exactly the scanned elements, once and reachable, so that installing it
changes no content. The steps of a probe are arithmetic on `InRange`, the slots
between home and cursor around the end of the array (`RangeGrows`,
`RangeBeyond`, `RangeComplete`); there is one lemma per kind of step, and
`StepRefines` maps each step to one of the set or to a stutter.

`RBTreeProofs` proves, for every finite set of keys (`KeysAssumption`) and every history of
calls, that

- `LinksAlwaysAgree`: children and fathers agree and lead to the root, between any two turns
  of any loop;
- `AlwaysOrdered`: all keys on the left of a node are smaller, all on its right larger;
- `AlwaysBalanced`: no red below a red and equal black heights, up to the node that a fixup is at;
- `SiblingAlwaysExists`: `delete_fixup` never dereferences a sibling that is not there;
- `Implementation`: the tree implements `UnorderedSetSpec`, including the walk of clear and free.

What the runs check of a tree speaks of all nodes above a node (`Line`), and no rotation leaves
that as it was. The inductive invariant, `IInv` (`Invariance`), says the same things locally.
`Shape` gives every node two bounds `lo` and `hi`, keys or NULL: a left child has the `lo` of its
father, and the father as its `hi`; a right child the other way round (`Bounded`). With it go
`Joined`, children and fathers agree, and `Acyclic`, every set of nodes has one whose father is not in it.
`Heights` gives every node a black height, the one that each of its children has, plus one if that child is black.
A rotation changes the bounds of two nodes and the heights of two (`TurnShape`, `TurnHeights`), and
a transplant widens the bounds of the subtree that comes up (`SpliceShape`).
`Colours` names the nodes that may be red below a red, and `Heights` the one edge on
which a black node is owed: `insert_fixup` moves the pair of reds up (`Coloured`), `delete_fixup`
the debt (`Levelled`), and each of their last rotations settles it. That the sibling exists follows
from the heights, for the side that owes nothing has a black node more (`SiblingThere`). `Cursor` says where the
loops stand, `Clean` that a freed node keeps no links, and `At` that the key of a search lies inside the bounds
of the place it has reached, which is why an insertion keeps the order and why a search that ends has
seen all there is to see. What `Line(k)` says is recovered at the end (`LineFacts`): it is the least set
that has k and the fathers of its nodes (`Up`), and also the set of nodes whose bounds contain k, with k itself
(`Around`). The order follows from the second, and the black heights from counting along the
first (`LineGrows`).

The successor (`Minimum`) and the line of a node are walks along a pointer, defined by a recursive function
(`Steps`). Induction over the number of steps is done on sets: the least number outside of a
set of naturals (`LeastNat`, from `WFMin` and the well-foundedness of `<`), because the induction
theorems of the library take an operator as a parameter.

`LoggerProofs` proves, for any threads, loggers, options and bounds
(`LoggerAssumption`: no two loggers open the same file), that

- `TypeCorrect`, `FilesOwned`: types, and that every way through init and close leaves
  open exactly the files that a logger owns;
- `MutualExclusion`: no two threads are between lock and unlock of one logger;
- `WholeLines`: the lines of a thread-safe logger with a stream of its own are whole, also where writes fail;
- `ReturnedDurable`: whether or not a logger is thread-safe, the message of a call that has returned is on disk,
  each once and in the order of the calls of its thread, on streams to which no write has failed and which no failed
  init has closed (as it does stdout).

Whole lines are not inductive by themselves. `LastLine` adds that what follows the first
part of a line in progress is that line, which survives other threads because of
`Exclusive`; it starts to hold at the lock, because a waiting thread has printed nothing
(`Unprinted`), which in turn rests on no line number being used twice (`Fresh`). A flush
leaves a text as it is, a truncation cuts off its beginning and a failed write its end, so all steps but an
`fprintf` that succeeds are one case, `Rest` (`TextStep`).

Durability speaks of one thread's messages in a text that all threads write. `Keeps` says where they are:
those of returned calls on disk; that of the call in progress nowhere, in the buffer or, because any
thread's flush writes everything, already on disk. `CallsReady` says that a call has one message to print
and returns only when it has printed all its parts, and `DueEarlier` that no returned call is the one in progress.
`Selected` is a recursive function, of which the lemmas show, by induction on the length of a sequence, what it
does with the last element, with a concatenation and with a selection of its own.

`KeyedContainersProofs` proves, for any number of containers and keys
(`KindsAssumption`), `EntriesOwned` and `NoneDangles`: in the kinds whose swap exchanges
attributes, buffers and entries alike, a container uses only attributes of its own, and
none that has been freed. The invariant (`OwnershipInvariance`) adds that no two
containers in use share attributes (`AttrsApart`), without which a free would take down
another's, and that the buffer points to the owner's (`OwnBuffer`), without which the next
insert would store a foreign pointer; it is `OwnBuffer` that the other three kinds lose in
a swap. A swap is a renaming of two containers (`Partner`).

In all kinds but unordered_multimap, `SizesCorrect`: the size field is the number of entries, an occurrence of an
element being one, for any finite set of keys and as long as memory can be had
(`CountedInvariance`: with at most one value per key in the unique kinds). The number of entries is a
fold over the keys. The lemmas show by induction on the cardinality of the set that the function behind the fold
exists and does not depend on the order of the keys (`FoldExists`, `SumsAgree`), so that a change
at one key changes the total by as much (`TotalChanges`).

`ContainersProofs` proves, for any number of vectors and lists, any attributes and elements, and every pattern of
failed allocations, that

- `CapacityCorrect`: the array of a vector is never empty and covers the elements, through growth,
  shrinking, reserve, swap and sorts;
- `RadixSorts`: when the radix sort ends, the vector holds the elements it held, in ascending
  order, for any number of elements, bytes and values of a byte;
- `MergeSortSorts`, `MergeSortStable`: both merge sorts yield the nodes they were given in the order of
  their keys, and the one of `list.c` leaves nodes with equal keys in the order they had;
- `ListsStayIntact`, `ForwardListsStayIntact`: the nodes of each list form one ring in both directions, or one
  chain from head to tail, of as many nodes as `size` says, and every node allocated is in exactly one list;
- `VectorsAreSequences`, `ListsAreSequences`, `ForwardListsAreSequences`: each implements `SequenceSpec`,
  return codes and sorts included;
- `TypesCorrect`: every field keeps its range.

What is assumed is `VectorAssumption` (integer keys, elements that have `ElemSize` bytes, and first and reserved capacities that
an `int` can hold) and `ListsAssumption`:
integer keys, NULL is not a node, and there are fewer than 2^32 nodes and no more than an `int` can count. `Bounded` keeps the arrays
of vectors to such capacities too: beyond INT_MAX a swap would falsify `CapacityCorrect` and both refinements
(`IntsHold` says that up to it the detour through `int` is harmless). The bound of 2^32 is what a sort needs: it
has 32 bins (list.c:124), and bin i holds 2^(i-1) nodes; with more of them the run in the last bin is
overwritten (`Carried`), and its nodes are lost.

*Vectors.* The invariant is `Good` for every structure and, during a radix sort, `Radix`: after k passes the buffer is a
permutation of the vector (`Permuted`) that is in order by the k low bytes (`SortedBelow`). That
a pass keeps the first rests on `CountedPlace` being a bijection: places differ because the counts
of elements that go before are strictly increasing in the order of the pass, and an injection of a finite set
into itself is onto. That it extends the second is division with remainder: two elements with the same
byte k keep their places, and otherwise byte k decides. `Weight` is a constant with
its recurrence as an assumption because the prover does not know exponentiation. For the refinement two
facts are added (`Attached`): a freed vector is empty, and a sort in progress is one of a vector in use without a
comparator. What a vector holds, `Content`, depends on the used cells only, so growth and shrinking
leave it (`VectorKeeps`), and cells moved up or down are an insertion or a removal (`OpenedContent`, `ClosedContent`). The
start and the passes of a radix sort are stutters, and its end is the sort.

*Merge sorts.* A merge is described by two recursive functions, how many of the first k nodes come from the first run
and which they are; both are shown to exist, with the induction on sets that `RBTreeProofs` uses.
Each bin holds a run in order, an empty one or one of the length it stands for, and every node of a higher bin was put
in before those of the lower bins, so a merge that prefers the node of the higher bin is stable. "In order" and "in order, and
stably" are the same lemmas for two relations; the second is `Stably`, the pairs of nodes that the sort must leave in order.

*Lists.* Invariants that speak of walks along pointers are hard to carry from one heap to the next. The inductive
ones, `RingInv` and `ChainInv`, say instead that there is a sequence of nodes for each list such that
neighbours in it are linked (`Ringed`, `Chained`), the sequences have no node in common and together are the whole heap. The
walks that the model defines follow these sequences (`RingIs`), so what the run checks, and
what the abstract sequence holds (`Contents`), are read off them. An operation changes the sequence of one list and nodes of its own
(`RingFrame`), and there is one lemma for each kind of change: a node spliced in, a node unlinked, all nodes
freed, and the nodes of a sort linked in their new order. On these rests a lemma per operation that
gives both the invariant and the step of the abstract sequence. A clear of an empty list ends the claim of
`ListImplements`, as section 4 says, but not that of `ListsStayIntact`.

`DequeProofs` proves, for any programs (`ProgramsAssumption`: any number of deques, any
`min_cap`, `block_size`, bounds and failures), that

- `AtIsRight`: where every block in use has its buffer, `deque_at` finds for each index what a walk
  over the blocks finds there;
- `NothingLeaks`: the buffers allocated are those of the blocks in use, failed allocations included.

Both are about deques whose accesses have all been inside the array (`Usable`): that they always are is false,
as section 4 says. The invariant (`Invariance`) is `Shapes`: `front .. back` is a `Window` of
headers in use, `heap` is the number of their buffers, and if none is missing the elements are
`Packed`, that is, the range of every block but the first starts at 0, that of every block but the last
reaches the end of its buffer, and `size` is the total. That a range is never longer than its buffer is *not* part of
it (`RangesInBuffer`, which `deque_offset` refutes): an empty block may start behind its buffer, and the
invariant says so (`front < back` is what bounds `back`). A window that is shifted or enlarged
is the same window elsewhere (`HeldMoved`), so growth is proved apart from the pushes that need it. `ReadBlock` is the
division with remainder by which `deque_at` finds a block; `ContentRead` compares it with
the walk, whose recursive function is shown to exist and to be the only one.

`AdaptorProofs` proves of `PriorityQueue` and `FlatSet`, for any
number of adaptors, any keys and bounds and every failed allocation (`Parameters`: keys
are integers, and no container is at NULL), that

- `HeapCorrect`: between calls a priority queue is a heap;
- `SortedCorrect`, `SearchCorrect`: a flat set is strictly ascending, and a search narrows down to
  the one place where its element is or belongs;
- `QueuesOwn`, `SetsOwn`: each container has exactly one owner, which knows its type.

`Shared` is the part of both invariants that concerns containers and owners: types, that only a live
or lost container has elements (`AllFilled`), that nothing goes on after an undefined call
(`Over`), that a call in progress has a container (`Busy`), and single owners (`Sole`).
A heap is out of order while a call moves an element, at one place only: `Rising` (all but the
moved one are no larger than their parents) and `Sinking` (all but its children are), each with
`Bridged`: the children of the moved element are no larger than its parent. Without it
the exchange of an element with its parent could leave the old children out of order.
For the search neighbours in order are not enough: `Ascending` compares every pair, so that one look at the
middle tells about all elements beyond it. An element overwritten by a failed insertion ends `exact`,
and with it what is claimed of that container.

`CargsProofs` proves, for any programs, options and command lines, that

- `ValuesOwned`: the two bits that free looks at tell exactly which values were allocated;
- `ValuesPlaced`: a value stands behind its name, and no token is the value of two options;
- `NamesSeen`: a token that is a name of an option without a value is one of those that `NothingMissed` lists: taken
  as a value, last and without a value behind it, or a short name shared with an earlier option;
- `RequiredFound`: when parse returns, `get_arg` finds every required option that was registered with two dashes, provided that no two options
  have the same name and none is `--help` (`NamesDistinct`): `get_arg` returns the first of a name, which
  may be an option that is not required.

The invariant (`IInv`) carries each of these through the loops: `Placed` and `Unshared` say that all values
lie at or before the token the search has come to, so that the token behind is free to be taken;
`NoneMissed` restricts the list of excuses to pairs of an option and a token that parse has compared or passed
over (`Past`), of which the skip in the middle of the inner loop is the hard case: the token skipped is past
for the options before, which were compared with the token of the name instead.

Only model-checked: that calls return and a mutex is released (liveness is out of
reach of the prover), and that the deque and the adaptors
implement their abstract specifications (of the deque, that is true only of programs in which no access leaves the
array, which is what the programs of the run `deque` are).

## 6. Not modelled

Printing; iterators and lookups that only read, unless a property is about them; the
timing and test programs; user callbacks that fail, block or call back into the
container, among them the `fr` and `copy` callbacks of elements; allocation failures
inside copy callbacks; `unordered_set_swap` and `set_swap`, which exchange one pointer
each. Of the logger: what the text says; a close while another thread is in a call on
the logger, which the program must prevent; what becomes of a program that closes stdout twice;
two loggers on one file; a call that logs again while the arguments of
a message are evaluated, which would wait for its own mutex; `clogger_print_stacktrace`
called by the program itself, without the mutex. Of cargs: the text of the help, the
conversions of values (`atoi`, `atof`, `strcpy`), and allocation failures other than that of a
short name, the only one that is checked. Of the adaptors: `top`, `size` and the other lookups that only read,
and callers that go on after an init that answered CS_MEM. pair and universal appear only in the
containers that use them.

## 7. Plan

What remains worth doing, in this order:

1. The refinement of stacks and queues as a theorem, for which the lemmas of `AdaptorProofs` are the base.
2. The refinement of the sequence by a deque up to its first access outside of the array.
3. `pair_set` and the copies of entries, with allocation failures inside the copy callbacks of the keyed
   containers.
