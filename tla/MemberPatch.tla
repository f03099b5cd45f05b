----------------------------- MODULE MemberPatch -----------------------------
(***************************************************************************)
(* What one PATCH operation does to one attribute, as far as the stores    *)
(* and the request handlers can tell.  The attribute is the set of its     *)
(* values; elements of a multi-valued complex attribute are identified by  *)
(* their "value" sub-attribute.                                            *)
(*                                                                         *)
(*   add      "path": attr,                  "value": v                    *)
(*   set      op replace, "path": attr,      "value": v                    *)
(*   clear    op remove,  "path": attr                                     *)
(*   remove   op remove,  "path": attr[value eq v]                         *)
(*   strip    op remove,  "path": attr[value eq v].value                   *)
(*   replace  op replace, "path": attr[value eq v].value, "value": with    *)
(***************************************************************************)

PatchOp(Values) ==
  [kind : {"add", "set", "clear", "remove", "strip", "replace"},
   value : Values, with : Values]

(* replaceValuePath: a value filter that selects nothing is noTarget.      *)
NoTarget(elems, op) == op.kind = "replace" /\ op.value \notin elems

(* appendNew skips an element already present; removeValuePath keeps the   *)
(* survivors; an element removeSubFromElements empties is dropped;         *)
(* writeToElements sets the sub-attribute on the match.                    *)
Applied(elems, op) ==
  CASE op.kind = "add"     -> elems \cup {op.value}
    [] op.kind = "set"     -> {op.value}
    [] op.kind = "clear"   -> {}
    [] op.kind \in {"remove", "strip"} -> elems \ {op.value}
    [] op.kind = "replace" -> (elems \ {op.value}) \cup {op.with}

(* setTracked: an operation that leaves the stored form as it was is not a *)
(* change.                                                                 *)
Changes(elems, op) == Applied(elems, op) # elems

==============================================================================
