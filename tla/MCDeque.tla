------------------------------ MODULE MCDeque ------------------------------
(***************************************************************************)
(* The programs that use deques.  Counting callers push the numbers 0, 1,  *)
(* 2, 0, 1, 2, ... at the back and backwards at the front, which makes     *)
(* large deques tractable and still tells a misplaced element from the     *)
(* right one.                                                              *)
(***************************************************************************)
EXTENDS Deque

CONSTANTS d1, d2

\* Any calls on a small deque whose blocks drift over the whole array.
Drifting == [deques |-> {d1}, min_cap |-> 8, block_size |-> 5, fails |-> {},
             max_size |-> 7, max_edit |-> 7, elems |-> {0, 1},
             front |-> "any", back |-> "any"]

\* A deque whose array shifts at both ends and is enlarged at both ends.
Growing == [deques |-> {d1}, min_cap |-> 8, block_size |-> 7, fails |-> {},
            max_size |-> 44, max_edit |-> 0, elems |-> {0, 1, 2},
             front |-> "count", back |-> "count"]

\* Two deques that exchange their contents, while malloc fails.
Swapping == [deques |-> {d1, d2}, min_cap |-> 6, block_size |-> 4, fails |-> {"malloc"},
             max_size |-> 2, max_edit |-> 0, elems |-> {0, 1, 2},
             front |-> "none", back |-> "count"]

\* As many blocks as elements in a block, as the defaults are.
Square == [deques |-> {d1}, min_cap |-> 8, block_size |-> 8, fails |-> {},
           max_size |-> 120, max_edit |-> 0, elems |-> {0, 1, 2},
             front |-> "count", back |-> "count"]

Sound   == {Drifting, Growing, Swapping}
Default == {Square}

=============================================================================
