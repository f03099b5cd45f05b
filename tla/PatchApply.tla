------------------------------ MODULE PatchApply ------------------------------
(***************************************************************************)
(* What one decoded PATCH operation does (package patch): the tables of    *)
(* add, remove and replace over AttrData's values.  Done(x) is a stored    *)
(* attribute or a resource, Fail(e) the operation's error.                 *)
(***************************************************************************)
EXTENDS AttrData

CONSTANT AttrOrder    \* the attributes, in the folded order of their keys

Errors == {"invalidSyntax", "invalidPath", "invalidValue", "noTarget", "mutability"}

(* A value filter: eq clauses on sub-attributes (Null is "eq null"), all   *)
(* of which hold, or under a "not".                                        *)
Filter == [eqs : [Subs -> Scalars \cup {Nil, Null}], negated : BOOLEAN]

ASSUME ApplyAssumption ==
  /\ AttrOrder \in Seq(Attrs) /\ Nil \notin Errors \cup Filter
  /\ Bad \notin [Subs -> Scalars \cup {Nil, Null, Bad}]
  (* a stored form compares as what was sent for it (compareValue)         *)
  /\ \A t \in Types, x \in Scalars : Convert[t][x] # Bad => Fold[Convert[t][x]] = Fold[x]

(* An attribute that is not one of Attrs resolves nowhere; object is what  *)
(* an operation without a path carries.                                    *)
PathOf(a, s, f) == [attr |-> a, sub |-> s, filter |-> f]
Op(kind, path, value, object) == [kind |-> kind, path |-> path, value |-> value, object |-> object]

Done(x) == [ok |-> TRUE, val |-> x]
Fail(e) == [ok |-> FALSE, val |-> e]

ElementIn(v) == IF v.list \/ v.elems[1].form # "object" THEN Bad ELSE v.elems[1].at
Multi(a)     == Schema[a].multi
Writable(a, s) == Schema[a].subs[s].mutability # "readOnly"
Immutable(a, s) == Schema[a].subs[s].mutability = "immutable"

(* coerceOpValue, setTracked: the form to store, or invalidValue.          *)
Stored(x) == IF x = Bad THEN Fail("invalidValue") ELSE Done(x)

(* demoteOthers: the elements in keep win over every other primary.        *)
DemoteOthers(list, keep) ==
  IF keep \cap Primaries(list) = {} THEN list
  ELSE [i \in DOMAIN list |-> IF i \in Primaries(list) \ keep
                              THEN [list[i] EXCEPT !["primary"] = Convert["boolean"]["false"]]
                              ELSE list[i]]

(* hasDuplicateElement: by "value" when the new element has one.           *)
Duplicate(list, e) ==
  \E i \in DOMAIN list : IF e["value"] # Nil THEN list[i]["value"] = e["value"] ELSE list[i] = e

AppendNew_NoDedupe(old, incoming) == DemoteOthers(old \o incoming, DOMAIN (old \o incoming) \ DOMAIN old)

AppendNew(old, incoming) ==
  LET out == FoldLeft(LAMBDA list, e : IF Duplicate(list, e) THEN list ELSE Append(list, e), old, incoming)
  IN  DemoteOthers(out, DOMAIN out \ DOMAIN old)

Merged(old, incoming) ==
  IF old = <<>> \/ incoming = <<>> THEN old \o incoming
  ELSE <<[s \in Subs |-> IF incoming[1][s] # Nil THEN incoming[1][s] ELSE old[1][s]]>>

(* wrapElements: a bare element is a list of one.                          *)
Wrap(v) == [v EXCEPT !.list = TRUE]

AddToAttribute(a, old, v) ==
  LET new == Coerce(a, IF Multi(a) THEN Wrap(v) ELSE v)
  IN  IF new = Bad THEN Fail("invalidValue")
      ELSE Done(CASE Multi(a) /\ (old = <<>> \/ new = <<>>) -> old \o new
                  [] Multi(a) /\ old # <<>> /\ new # <<>>   -> AppendNew(old, new)
                  [] ~Multi(a) /\ Schema[a].complex         -> Merged(old, new)
                  [] ~Multi(a) /\ ~Schema[a].complex        -> new)

ReplaceAttribute_Appends(a, old, v) == AddToAttribute(a, old, v)

ReplaceAttribute(a, old, v) ==
  IF Multi(a) THEN Stored(Coerce(a, Wrap(v))) ELSE AddToAttribute(a, old, v)

WouldChange(a, kind, old, new) ==
  IF new = <<>> THEN kind = "replace"
  ELSE old # CASE Multi(a) /\ kind = "add"             -> AppendNew(old, new)
               [] ~Multi(a) /\ Schema[a].complex       -> Merged(old, new)
               [] OTHER                                -> new

-----------------------------------------------------------------------------
(* Mutability.  Nil when nothing is refused, else the error.               *)

(* checkImmutableAttr, for a write of the whole attribute.                 *)
ImmutableRefusal(a, kind, old, v) ==
  IF Schema[a].mutability # "immutable" \/ old = <<>> THEN Nil
  ELSE IF kind = "remove" THEN "mutability"
  ELSE LET new == Coerce(a, v)
       IN  IF new = Bad THEN "invalidValue"
           ELSE IF WouldChange(a, kind, old, new) THEN "mutability" ELSE Nil

SubRefusal_TypeOnly(a, s, have, x) == IF CoerceScalar(a, s, x) = Bad THEN "invalidValue" ELSE Nil

(* checkElemImmutable: a sub-attribute that has a value keeps it.          *)
SubRefusal(a, s, have, x) ==
  IF ~Immutable(a, s) \/ have = Nil \/ CoerceScalar(a, s, x) = have THEN Nil
  ELSE IF CoerceScalar(a, s, x) = Bad THEN "invalidValue" ELSE "mutability"

Resolves(p) ==
  p.attr \in Attrs /\ (p.sub # Nil => Schema[p.attr].complex /\ p.sub \in SubsOf(p.attr))

(* checkMutable, in the order of its checks.                               *)
MutableRefusal(a, op, old) ==
  LET s == op.path.sub
      whole == s = Nil /\ op.path.filter = Nil
      have == IF old = <<>> THEN Nil ELSE old[1][s]
  IN  IF Schema[a].mutability = "readOnly" \/ (s # Nil /\ ~Writable(a, s)) THEN "mutability"
      ELSE IF whole
      THEN LET refused == ImmutableRefusal(a, op.kind, old, op.value)
           IN  IF refused = Nil /\ op.kind = "remove" /\ Schema[a].required THEN "mutability" ELSE refused
      ELSE IF Schema[a].mutability = "immutable" /\ old # <<>> THEN "mutability"
      ELSE IF s # Nil /\ op.path.filter = Nil
      THEN SubRefusal(a, s, have, IF op.kind = "remove" THEN Nil ELSE ScalarOf(op.value))
      ELSE Nil

(* resolveOpTarget.                                                        *)
TargetRefusal(op, res) ==
  IF \/ ~Resolves(op.path)
     \/ Multi(op.path.attr) /\ op.path.sub # Nil /\ op.path.filter = Nil
  THEN "invalidPath" ELSE MutableRefusal(op.path.attr, op, res[op.path.attr])

-----------------------------------------------------------------------------
(* Elements selected by a value filter.                                    *)

(* MatchElement: what is not there equals null only.                       *)
Holds(f, e) ==
  LET all == \A s \in Subs : f.eqs[s] # Nil =>
               IF f.eqs[s] = Null THEN e[s] = Nil ELSE e[s] # Nil /\ Fold[e[s]] = Fold[f.eqs[s]]
  IN  all # f.negated

Matches(f, list) == {i \in DOMAIN list : Holds(f, list[i])}

SetElements(a, list) == Stored(CoerceElems(a, list))

(* The first refusal among those of the selected elements.                 *)
AnyRefusal(refusals) ==
  IF refusals \subseteq {Nil} THEN Nil ELSE CHOOSE r \in refusals : r # Nil

(* mergeElemKeys: members that are readOnly are skipped, null ones unset.  *)
MergedElem(a, e, at) ==
  [s \in Subs |-> IF at[s] = Nil \/ s \notin SubsOf(a) \/ ~Writable(a, s) THEN e[s] ELSE at[s]]

WriteToElements(a, old, hit, s, v) ==
  LET at  == IF s = Nil THEN ElementIn(v) ELSE [NoSubs EXCEPT ![s] = ScalarOf(v)]
      new == [i \in DOMAIN old |->
               IF i \notin hit THEN old[i]
               ELSE IF s = Nil THEN MergedElem(a, old[i], at) ELSE [old[i] EXCEPT ![s] = at[s]]]
      refused == AnyRefusal({SubRefusal(a, t, old[i][t], at[t]) :
                               i \in hit, t \in {u \in SubsOf(a) : at[u] # Nil}})
  IN  IF at = Bad THEN Fail("invalidValue")
      ELSE IF refused # Nil THEN Fail(refused)
      ELSE SetElements(a, DemoteOthers(new, hit))

(* replaceValuePath of whole elements, with checkReplacedElement.          *)
ReplaceElements(a, old, hit, v) ==
  LET at == ElementIn(v)
      refused == AnyRefusal({SubRefusal(a, t, old[i][t], at[t]) : i \in hit, t \in SubsOf(a)})
  IN  IF at = Bad THEN Fail("invalidValue")
      ELSE IF refused # Nil THEN Fail(refused)
      ELSE SetElements(a, DemoteOthers([i \in DOMAIN old |-> IF i \in hit THEN at ELSE old[i]], hit))

(* synthesizeElement: the filter's eq clauses seed an element.             *)
Synthesize(a, old, f, s, v) ==
  LET seed == [t \in Subs |-> IF f.eqs[t] = Null THEN Nil ELSE f.eqs[t]]
      at   == ElementIn(v)
      new  == IF s # Nil THEN [seed EXCEPT ![s] = ScalarOf(v)]
              ELSE [t \in Subs |-> IF at[t] # Nil THEN at[t] ELSE seed[t]]
  IN  IF f.negated THEN Fail("noTarget")
      ELSE IF s = Nil /\ at = Bad THEN Fail("invalidValue")
      ELSE SetElements(a, DemoteOthers(Append(old, new), {Len(old) + 1}))

RemoveElements(a, old, f) ==
  LET kept == Selected(old, DOMAIN old \ Matches(f, old))
  IN  IF Schema[a].required /\ kept = <<>> THEN Fail("mutability") ELSE Done(kept)

RemoveSub(a, old, hit, s) ==
  IF Immutable(a, s) /\ \E i \in hit : old[i][s] # Nil THEN Fail("mutability")
  ELSE SetElements(a, [i \in DOMAIN old |-> IF i \in hit THEN [old[i] EXCEPT ![s] = Nil] ELSE old[i]])

(* addValuePath, replaceValuePath and removeValuePath.                     *)
ApplyFiltered(a, op, old, profile) ==
  LET hit == Matches(op.path.filter, old)
      s   == op.path.sub
  IN  IF ~Multi(a) \/ ~Schema[a].complex THEN Fail("invalidPath")
      ELSE IF op.kind = "remove"
      THEN IF hit = {} THEN Done(old)
           ELSE IF s # Nil THEN RemoveSub(a, old, hit, s) ELSE RemoveElements(a, old, op.path.filter)
      ELSE IF hit = {}
      THEN IF IF op.kind = "add" THEN profile.SynthesizeAddValuePath ELSE profile.ReplaceNoTargetAsAdd
           THEN Synthesize(a, old, op.path.filter, s, op.value) ELSE Fail("noTarget")
      ELSE IF op.kind = "replace" /\ s = Nil THEN ReplaceElements(a, old, hit, op.value)
      ELSE WriteToElements(a, old, hit, s, op.value)

-----------------------------------------------------------------------------
(* Whole operations.                                                       *)

(* Resource.Set through a sub-attribute's path.                            *)
SetSub(a, old, s, x) ==
  IF CoerceScalar(a, s, x) = Bad THEN Fail("invalidValue") ELSE Done(WithSub(old, s, CoerceScalar(a, s, x)))

ApplyPathed(op, res, profile) ==
  LET a == op.path.attr  s == op.path.sub
      refused == TargetRefusal(op, res)
      new == CASE op.path.filter # Nil -> ApplyFiltered(a, op, res[a], profile)
               [] op.path.filter = Nil /\ s # Nil ->
                    SetSub(a, res[a], s, IF op.kind = "remove" THEN Nil ELSE ScalarOf(op.value))
               [] op.path.filter = Nil /\ s = Nil ->
                    CASE op.kind = "add"     -> AddToAttribute(a, res[a], op.value)
                      [] op.kind = "replace" -> ReplaceAttribute(a, res[a], op.value)
                      [] op.kind = "remove"  -> Done(<<>>)
  IN  IF refused # Nil THEN Fail(refused)
      ELSE IF ~new.ok THEN new ELSE Done([res EXCEPT ![a] = new.val])

(* applyPathlessAttr: readOnly attributes are skipped.                     *)
ApplyKey(op, res, a) ==
  LET v == op.object[a]
      refused == ImmutableRefusal(a, op.kind, res[a], v)
      new == IF op.kind = "replace" THEN ReplaceAttribute(a, res[a], v) ELSE AddToAttribute(a, res[a], v)
  IN  IF v = Nil \/ Schema[a].mutability = "readOnly" THEN Done(res)
      ELSE IF refused # Nil THEN Fail(refused)
      ELSE IF ~new.ok THEN new ELSE Done([res EXCEPT ![a] = new.val])

(* applyAdd, applyRemove, applyReplace; addPathless visits keys in order.  *)
Perform(op, res, profile) ==
  IF op.path # Nil THEN ApplyPathed(op, res, profile)
  ELSE IF op.kind = "remove" THEN Fail("noTarget")
  ELSE IF op.object = Nil THEN Fail("invalidValue")
  ELSE FoldLeft(LAMBDA r, a : IF r.ok THEN ApplyKey(op, r.val, a) ELSE r, Done(res), AttrOrder)

(* Apply: the operations in turn, up to the first that fails.              *)
ApplyAll(ops, res, profile) ==
  FoldLeft(LAMBDA r, op : IF r.ok THEN Perform(op, r.val, profile) ELSE r, Done(res), ops)

===============================================================================
