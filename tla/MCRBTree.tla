------------------------------ MODULE MCRBTree ------------------------------
(***************************************************************************)
(* Small trees under any calls, and deep ones under callers that insert in *)
(* ascending order and delete anything.  The keys of the two never meet in *)
(* one tree.  Insertion fixups take more than one turn from eight keys on, *)
(* deletion fixups from ten on.                                            *)
(***************************************************************************)
EXTENDS RBTree

CONSTANTS Any, Deep

AnyOrAscending(ns) ==
  LET all == {"insert", "delete", "find"} \X Any
      asc == ({"delete", "find"} \X ns) \cup
             ({"insert"} \X {k \in Deep : (\A n \in ns : n < k) /\ (k - 1 \in Deep => k - 1 \in ns)})
  IN  CASE ns = {} -> all \cup asc
        [] ns # {} /\ ns \subseteq Any -> all
        [] OTHER -> asc

=============================================================================
