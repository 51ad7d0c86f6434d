------------------------- MODULE MCKeyedContainers -------------------------
(***************************************************************************)
(* Two containers of one kind, two keys, up to three values for a key:     *)
(* enough to swap, free one side and go on with the other.                 *)
(***************************************************************************)
EXTENDS KeyedContainers

CONSTANTS c1, c2, k1, k2

\* The containers whose buffer stays behind in a swap.
Buffered == {"map", "multimap", "unordered_map"}

=============================================================================
