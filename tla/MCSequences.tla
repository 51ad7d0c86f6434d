---------------------------- MODULE MCSequences ----------------------------
(***************************************************************************)
(* Two vectors, two lists or two forward lists.  One vector shrinks by     *)
(* half and has a comparator, the other never shrinks and has none.  The   *)
(* comparator is opposed to the order of the bytes; in binary, the         *)
(* elements differ in the low byte only.  Of the elements of lists, 1 and  *)
(* 3 have the same key, and 2 a smaller one.  Any free node may be         *)
(* allocated, and no code compares addresses, so nodes are symmetric.  An  *)
(* int counts to 8, as far as the arrays grow.                             *)
(***************************************************************************)
EXTENDS Containers, TLC

CONSTANTS v1, v2, l1, l2, n1, n2, n3, n4

Attrs == [v \in Vectors |->
            IF v = v1 THEN [min_cap |-> 1, shrink_factor |-> 2, comp |-> TRUE]
                      ELSE [min_cap |-> 2, shrink_factor |-> 1, comp |-> FALSE]]

Weights == [k \in 0 .. ElemSize |-> Base ^ k]
Backwards(e) == 3 - e
Odd(e) == e % 2

Symmetry == Permutations(Nodes)

=============================================================================
