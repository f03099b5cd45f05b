---------------------------- MODULE ResourceRules -----------------------------
(***************************************************************************)
(* What a schema makes of a write, for any resource type: the merge of a   *)
(* PUT body into the current resource, the mutability rules of PATCH, and  *)
(* the validation both end with.  The contents of a resource map each      *)
(* attribute to the set of its values, {} when it is unassigned.           *)
(***************************************************************************)
EXTENDS MemberPatch, Naturals

CONSTANTS
  Ids, Attrs, Values,
  Nil,         \* no resource
  ReadOnly,    \* attributes only the server's embedding program writes
  Immutable,   \* attributes that keep their first value
  Required,    \* attributes that must be assigned
  Unique,      \* attributes no two resources may share a value of
  Canonical    \* attribute -> the values strict mode accepts

Content  == [Attrs -> SUBSET Values]
Resource == [attrs : Content, version : Nat]

ASSUME RulesAssumption ==
  /\ ReadOnly \cup Immutable \cup Required \cup Unique \subseteq Attrs
  /\ Canonical \in Content
  /\ Nil \notin Resource

(* The If-Match or If-None-Match a request carries: none, "*", or the tag  *)
(* of a resource its client was handed.                                    *)
NoMatch == [form |-> "none", version |-> 0]
AnyTag  == [form |-> "any", version |-> 0]
TagOf(r) == [form |-> "tag", version |-> r.version]

(* etagMatch, for a request that carries the header.                       *)
Matches(match, r) == match.form = "tag" => match.version = r.version

(* The store's uniqueness rules.                                           *)
Clash(items, id, attrs) ==
  \E other \in Ids \ {id}, a \in Unique :
     items[other] # Nil /\ attrs[a] \cap items[other].attrs[a] # {}

Merge_DropsImmutable(body, cur) ==
  [a \in Attrs |-> IF a \in ReadOnly THEN cur[a] ELSE body[a]]

(* mergePut: readOnly attributes come from the current resource (decode    *)
(* dropped the client's), an omitted immutable one is retained.            *)
Merge(body, cur) ==
  [a \in Attrs |-> IF a \in ReadOnly \/ (a \in Immutable /\ body[a] = {})
                   THEN cur[a] ELSE body[a]]

(* mergeImmutable: match or error, once assigned.                          *)
MergeRefused(body, cur) ==
  \E a \in Immutable \ ReadOnly : cur[a] # {} /\ body[a] \notin {{}, cur[a]}

(* validateResource: required attributes always (a readOnly one is not the *)
(* client's to send), canonical values in strict mode.                     *)
Valid(attrs, strict) ==
  /\ \A a \in Required \ ReadOnly : attrs[a] # {}
  /\ strict => \A a \in Attrs : attrs[a] \subseteq Canonical[a]

(* checkMutable: a path below an assigned immutable attribute is refused   *)
(* outright, a whole-attribute write only when it would change the value;  *)
(* a required attribute is never removed whole, nor (removeValuePath) all  *)
(* its elements; emptying them one sub-attribute at a time passes.         *)
PatchRefused(p, cur) ==
  \/ p.attr \in ReadOnly
  \/ /\ p.attr \in Immutable /\ cur[p.attr] # {}
     /\ p.op.kind \in {"add", "set"} => Changes(cur[p.attr], p.op)
  \/ /\ p.attr \in Required
     /\ p.op.kind = "clear" \/ (p.op.kind = "remove" /\ cur[p.attr] = {p.op.value})

Patched(p, cur) == [cur EXCEPT ![p.attr] = Applied(cur[p.attr], p.op)]

(* The error patch.Apply ends with, or "none".                             *)
ApplyError(p, cur) ==
  CASE PatchRefused(p, cur)           -> "mutability"
    [] ~PatchRefused(p, cur) /\ NoTarget(cur[p.attr], p.op) -> "noTarget"
    [] OTHER                          -> "none"

(* The error of a PUT of body over cur after its precondition, or "none".  *)
PutError(body, cur, strict) ==
  CASE MergeRefused(body, cur) -> "mutability"
    [] ~MergeRefused(body, cur) /\ ~Valid(Merge(body, cur), strict) -> "invalidValue"
    [] OTHER -> "none"

PatchError_Unvalidated(p, cur, strict) == ApplyError(p, cur)

(* The error of a PATCH over cur when its outcome is validated, or "none". *)
PatchError(p, cur, strict) ==
  IF ApplyError(p, cur) = "none" /\ Patched(p, cur) # cur /\ ~Valid(Patched(p, cur), strict)
  THEN "invalidValue" ELSE ApplyError(p, cur)

==============================================================================
