------------------------------- MODULE ListOps -------------------------------
(***************************************************************************)
(* The list algorithms shared by the in-memory store and by the server's   *)
(* scan fallback: the 1-based page window and the stable, type-aware sort. *)
(* A list is a sequence; a sort key is a natural number (the place of the  *)
(* stored value in its attribute's order) or NoKey when a resource has no  *)
(* value at the sort path.                                                 *)
(***************************************************************************)
EXTENDS Integers, Sequences, SequencesExt, Selection

CONSTANT MaxInt   \* the largest int

ASSUME IntAssumption == MaxInt \in Nat

NoKey == -1

(* Go's int wraps around.                                                  *)
Wrapped(n) == IF n > MaxInt THEN n - 2 * (MaxInt + 1) ELSE n

(* The end of the window is computed before it is cut to the list's        *)
(* length: a sum beyond the largest int is negative, and slicing up to a   *)
(* negative end panics.  A list has its window otherwise.                  *)
WindowWraps(list, startIndex, count) ==
  LET from == IF startIndex < 1 THEN 0 ELSE startIndex - 1
  IN  count > 0 /\ from < Len(list) /\ Wrapped(from + count) < 0

(* memstore's paginate: startIndex below 1 counts as 1, Count 0 (or less)  *)
(* is a count-only query, a start beyond the end is an empty page; for a    *)
(* window that does not wrap.                                              *)
Paginate(list, startIndex, count) ==
  LET from == IF startIndex < 1 THEN 0 ELSE startIndex - 1
  IN  IF count <= 0 THEN <<>>
      ELSE SubSeq(list, from + 1, Min({from + count, Len(list)}))

(* sortCompare as a strict order: missing keys last in either direction.   *)
SortsBefore(a, b, ascending) ==
  \/ a # NoKey /\ b = NoKey
  \/ /\ a # NoKey /\ b # NoKey
     /\ IF ascending THEN a < b ELSE b < a

(* slices.SortStableFunc: equal keys keep their relative order.            *)
SortResources(list, key, ascending) ==
  LET Before(i, j) == LET a == key[list[i]]
                          b == key[list[j]]
                      IN  \/ SortsBefore(a, b, ascending)
                          \/ ~SortsBefore(b, a, ascending) /\ i < j
      perm == CHOOSE p \in [DOMAIN list -> DOMAIN list] :
                \A k, l \in DOMAIN list : k < l => Before(p[k], p[l])
  IN  [k \in DOMAIN list |-> list[perm[k]]]

==============================================================================
