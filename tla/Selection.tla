------------------------------ MODULE Selection ------------------------------
(***************************************************************************)
(* The loop that keeps some elements of a list in their order: the store's *)
(* and the server's filters, the values a patch removes, the empty values  *)
(* coercion drops.  The elements are named by their positions; Sequences'  *)
(* SelectSeq, which says the same of a test, has no definition a prover    *)
(* can expand.                                                             *)
(***************************************************************************)
EXTENDS Integers, Sequences, SequencesExt

Selected(list, places) ==
  FoldLeftDomain(LAMBDA out, i : IF i \in places THEN Append(out, list[i]) ELSE out, <<>>, list)

==============================================================================
