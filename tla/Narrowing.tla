----------------------------- MODULE Narrowing -----------------------------
(***************************************************************************)
(* A number that goes through a variable of a narrower type.               *)
(***************************************************************************)
EXTENDS Integers

CONSTANTS
  IntMax,  (* INT_MAX  *)
  SizeMax  (* SIZE_MAX *)

\* What a size_t holds when it gets its number n back from an int: n, if an int
\* can hold it, or else the low bits of n with the sign that they give it.
ThroughInt(n) ==
  LET low == n % (2 * (IntMax + 1))
  IN  IF n <= IntMax THEN n
      ELSE IF low <= IntMax THEN low ELSE SizeMax + 1 - (2 * (IntMax + 1) - low)

=============================================================================
