----------------------------- MODULE MergeSort -----------------------------
(***************************************************************************)
(* The bottom-up merge sort of list.c and forward_list.c, on sequences of  *)
(* nodes, key[n] being the key of node n: bin i is empty or holds a sorted *)
(* run of 2^(i-1) nodes.                                                   *)
(***************************************************************************)
EXTENDS Integers, Sequences, SequencesExt, FiniteSetsExt

Bins == [i \in 1 .. 32 |-> << >>]

\* Mutant of Merge: of two equal nodes, the one of b goes first.
MergeLess(a, b, key) ==
  LET all == Len(a) + Len(b)
      ofA[k \in 0 .. all] ==
        IF k = 0 THEN 0
        ELSE LET i == ofA[k - 1]  j == k - 1 - i IN
             IF i < Len(a) /\ (j = Len(b) \/ key[a[i + 1]] < key[b[j + 1]]) THEN i + 1 ELSE i
      merged[k \in 0 .. all] ==
        IF k = 0 THEN << >>
        ELSE Append(merged[k - 1], IF ofA[k] > ofA[k - 1] THEN a[ofA[k]] ELSE b[k - ofA[k]])
  IN  merged[all]

\* merge_iterative: ofA[k] of the first k nodes come from a.  Of two equal
\* nodes, the one of a goes first.
Merge(a, b, key) ==
  LET all == Len(a) + Len(b)
      ofA[k \in 0 .. all] ==
        IF k = 0 THEN 0
        ELSE LET i == ofA[k - 1]  j == k - 1 - i IN
             IF i < Len(a) /\ (j = Len(b) \/ key[a[i + 1]] <= key[b[j + 1]]) THEN i + 1 ELSE i
      merged[k \in 0 .. all] ==
        IF k = 0 THEN << >>
        ELSE Append(merged[k - 1], IF ofA[k] > ofA[k - 1] THEN a[ofA[k]] ELSE b[k - ofA[k]])
  IN  merged[all]

\* Node n is carried through the full bins into the first empty one, or into
\* the last bin, whose run it would replace.
Carried(bins, n, key) ==
  LET to == Min({i \in DOMAIN bins : bins[i] = << >> \/ i = Len(bins)})
      run[i \in 0 .. to - 1] == IF i = 0 THEN << n >> ELSE Merge(bins[i], run[i - 1], key)
  IN  [i \in DOMAIN bins |-> IF i < to THEN << >> ELSE IF i = to THEN run[to - 1] ELSE bins[i]]

Collected(nodes, key) ==
  LET bins[k \in 0 .. Len(nodes)] ==
        IF k = 0 THEN Bins ELSE Carried(bins[k - 1], nodes[k], key)
  IN  bins[Len(nodes)]

\* list_sort: the later a bin, the earlier its nodes stood in the list.
Sorted(nodes, key) ==
  LET bins == Collected(nodes, key)
      result[i \in 0 .. Len(bins)] ==
        IF i = 0 THEN << >> ELSE Merge(bins[i], result[i - 1], key)
  IN  result[Len(bins)]

\* Mutant of ForwardSorted: the runs are strung together without a merge.
ForwardStrung(nodes, key) ==
  LET bins == Collected(nodes, key)
      result[i \in 0 .. Len(bins)] == IF i = 0 THEN << >> ELSE result[i - 1] \o bins[i]
  IN  result[Len(bins)]

\* forward_list_sort merges the later bin second.
ForwardSorted(nodes, key) ==
  LET bins == Collected(nodes, key)
      result[i \in 0 .. Len(bins)] ==
        IF i = 0 THEN << >> ELSE Merge(result[i - 1], bins[i], key)
  IN  result[Len(bins)]

=============================================================================
