---------------------------- MODULE MCHashTable ----------------------------
(***************************************************************************)
(* Small instances of HashTable for TLC: a first capacity of four, so that *)
(* three live elements make the table grow, and hash values that collide,  *)
(* wrap around the end of the table, and separate when it doubles.         *)
(***************************************************************************)
EXTENDS HashTable, TLC

CONSTANTS k1, k2, k3, k4, k5, k6

\* k1, k2 and k5 collide in every table; k3 collides with them until it grows;
\* k4 starts at the last slot and k6 next to it, so that probes wrap around.
Mixed      == k1 :> 2 @@ k2 :> 2 @@ k3 :> 6 @@ k4 :> 7 @@ k5 :> 18 @@ k6 :> 6
HashMixed  == [k \in Keys |-> Mixed[k]]
\* One home slot for each element of a table of four.
HashSpread == k1 :> 0 @@ k2 :> 1 @@ k3 :> 2 @@ k4 :> 3



=============================================================================
