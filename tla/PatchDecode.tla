------------------------------ MODULE PatchDecode -----------------------------
(***************************************************************************)
(* From a PatchOp message to operations (patch/decode.go, normalize.go).   *)
(* A raw operation has a kind, spelled exactly or in another case; a path, *)
(* Nil or Malformed; and a value, Nil when absent.  One without a path has *)
(* an object instead, when its value is one: attribute -> value, the       *)
(* extension's attributes inside their container's key, and flat, its      *)
(* flattened keys as a sequence of paths with their values, in key order.  *)
(***************************************************************************)
EXTENDS PatchApply

CONSTANTS
  Unquote,        \* type -> scalar -> the scalar it spells as a string
  Malformed, Container,
  MaxOperations

ASSUME DecodeAssumption ==
  /\ \A t \in Types, x \in Scalars : Unquote[t][x] \in Scalars
  (* only strings are rewritten, and only for types that store none         *)
  /\ \A t \in Types, x \in Scalars : Convert[t][x] # Bad => Unquote[t][x] = x
  /\ MaxOperations \in Nat /\ Nil \notin [Attrs -> RawValue \cup {Nil}]

Kinds == {"add", "remove", "replace"}

RawOp(kind, exact, path, value, object, flat) ==
  [kind |-> kind, exact |-> exact, path |-> path, value |-> value, object |-> object, flat |-> flat]

Paths == [attr : Attrs \cup {Container}, sub : Subs \cup {Nil}, filter : Filter \cup {Nil}]

RawOps ==
  {op \in [kind : STRING, exact : BOOLEAN, path : Paths \cup {Nil, Malformed}, value : RawValue \cup {Nil},
           object : [Attrs -> RawValue \cup {Nil}] \cup {Nil}, flat : Seq([path : Paths, value : RawValue])] :
     op.object # Nil => op.path = Nil /\ op.value = Nil}

Knobs == {"CaseInsensitiveOps", "CoerceStringPrimitives", "ExpandPathlessReplace",
          "RemoveValueAsSelector", "ReplaceNoTargetAsAdd", "SynthesizeAddValuePath"}

Strict  == [k \in Knobs |-> FALSE]
Default == [k \in Knobs |-> k \notin {"ReplaceNoTargetAsAdd", "SynthesizeAddValuePath"}]
Entra   == [k \in Knobs |-> TRUE]

KindKnown(raw, profile) == raw.kind \in Kinds /\ (raw.exact \/ profile.CaseInsensitiveOps)

EmptyObject == [list |-> FALSE, elems |-> <<[form |-> "object", at |-> NoSubs]>>]

(* A key that is a path of its own: splitFlattenedKeys also takes the      *)
(* extension container's key for one, which no attribute answers to.       *)
ContainerKey(raw) ==
  IF raw.object # Nil /\ \E a \in Attrs : Schema[a].ext /\ raw.object[a] # Nil
  THEN <<[path |-> PathOf(Container, Nil, Nil), value |-> EmptyObject]>> ELSE <<>>

(* expandPathlessReplace: flattened keys become operations of their own.   *)
Expand(raw, profile) ==
  LET keys  == ContainerKey(raw) \o raw.flat
      plain == [a \in Attrs |-> IF Schema[a].ext /\ ContainerKey(raw) # <<>> THEN Nil ELSE raw.object[a]]
      Pathed(k) == RawOp(raw.kind, raw.exact, k.path, k.value, Nil, <<>>)
  IN  IF \/ ~profile.ExpandPathlessReplace \/ ~KindKnown(raw, profile)
         \/ raw.kind # "replace" \/ raw.path # Nil \/ raw.object = Nil
      THEN <<raw>>
      ELSE (IF plain = [a \in Attrs |-> Nil] THEN <<>> ELSE <<RawOp(raw.kind, raw.exact, Nil, Nil, plain, <<>>)>>)
           \o [i \in DOMAIN keys |-> Pathed(keys[i])]

HasValue(raw) == raw.object # Nil \/ (raw.value # Nil /\ ~IsNull(raw.value))

(* buildOp: the first thing wrong with one operation.                      *)
BuildRefusal(raw, profile) ==
  IF ~KindKnown(raw, profile) THEN "invalidSyntax"
  ELSE IF raw.path = Malformed THEN "invalidPath"
  ELSE IF raw.kind # "remove" /\ ~HasValue(raw) THEN "invalidValue"
  ELSE IF raw.kind = "remove" /\ raw.value # Nil /\ ~profile.RemoveValueAsSelector THEN "invalidValue"
  ELSE Nil

(* selectorFilter: an element's members that are not null, as eq clauses.  *)
SelectorOf(e) == [s \in Subs |-> IF e.at[s] = Null THEN Nil ELSE e.at[s]]

Selectable(e) == e.form # "null" /\ SelectorOf(e) # NoSubs /\ \A s \in Subs : e.at[s] # Bad

RewriteRemove_EmptyIsWhole(raw) ==
  LET es == raw.value.elems
  IN  IF raw.path = Nil \/ raw.path.filter # Nil \/ raw.path.sub # Nil THEN Fail("invalidPath")
      ELSE IF \E i \in DOMAIN es : ~Selectable(es[i]) THEN Fail("invalidValue")
      ELSE IF es = <<>> THEN Done(<<Op("remove", raw.path, Nil, Nil)>>)
      ELSE Done([i \in DOMAIN es |->
                  Op("remove", [raw.path EXCEPT !.filter = [eqs |-> SelectorOf(es[i]), negated |-> FALSE]],
                     Nil, Nil)])

(* rewriteRemoveSelectors: one filtered remove for each element.           *)
RewriteRemove(raw) ==
  LET es == raw.value.elems
  IN  IF raw.path = Nil \/ raw.path.filter # Nil \/ raw.path.sub # Nil THEN Fail("invalidPath")
      ELSE IF \E i \in DOMAIN es : ~Selectable(es[i]) THEN Fail("invalidValue")
      ELSE Done([i \in DOMAIN es |->
                  Op("remove", [raw.path EXCEPT !.filter = [eqs |-> SelectorOf(es[i]), negated |-> FALSE]],
                     Nil, Nil)])

(* unwrapSimple: {"value": x}, alone or in a list of one, is x.            *)
Wrapper(e) == e.form = "object" /\ e.at["value"] \in Scalars /\ \A s \in Subs \ {"value"} : e.at[s] \in {Nil, Null}

UnwrapElem(e) == IF Wrapper(e) THEN [form |-> "scalar", at |-> [NoSubs EXCEPT !["value"] = e.at["value"]]] ELSE e

Unwrap_Complex(path, v) == [v EXCEPT !.elems = [i \in DOMAIN v.elems |-> UnwrapElem(v.elems[i])]]

Unwrap(path, v) ==
  LET simple == Resolves(path) /\ (path.sub # Nil \/ ~Schema[path.attr].complex)
  IN  IF ~simple THEN v
      ELSE [list  |-> v.list /\ (Len(v.elems) # 1 \/ (Multi(path.attr) /\ path.sub = Nil)),
            elems |-> IF v.list /\ Len(v.elems) # 1 /\ ~(Multi(path.attr) /\ path.sub = Nil)
                      THEN v.elems ELSE [i \in DOMAIN v.elems |-> UnwrapElem(v.elems[i])]]

(* coerceScalar: a string that spells a boolean or a number is one.        *)
Unquoted(a, s, x) == IF x \in Scalars THEN Unquote[Schema[a].subs[s].type][x] ELSE x

UnquoteElem(a, e) == [e EXCEPT !.at = [s \in Subs |-> IF s \in SubsOf(a) THEN Unquoted(a, s, e.at[s]) ELSE e.at[s]]]

UnquoteValue(a, s, v) ==
  IF v = Nil THEN Nil
  ELSE [v EXCEPT !.elems = [i \in DOMAIN v.elems |->
         IF s = Nil THEN UnquoteElem(a, v.elems[i])
         ELSE [v.elems[i] EXCEPT !.at["value"] = Unquoted(a, s, v.elems[i].at["value"])]]]

(* coerceStringPrimitives, after unwrapValueObjects.                       *)
Typed(op) ==
  IF op.kind = "remove" THEN op
  ELSE IF op.path = Nil
  THEN IF op.object = Nil THEN op
       ELSE [op EXCEPT !.object = [a \in Attrs |-> UnquoteValue(a, Nil, op.object[a])]]
  ELSE IF ~Resolves(op.path) THEN op
  ELSE [op EXCEPT !.value = UnquoteValue(op.path.attr, op.path.sub, Unwrap(op.path, op.value))]

(* buildOp, rewriteRemoveSelectors and the typing, of one raw operation.   *)
Build(raw, profile) ==
  LET refused == BuildRefusal(raw, profile)
      op == Op(raw.kind, raw.path, IF raw.kind = "remove" THEN Nil ELSE raw.value, raw.object)
  IN  IF refused # Nil THEN Fail(refused)
      ELSE IF raw.kind = "remove" /\ raw.value # Nil /\ ~IsNull(raw.value) THEN RewriteRemove(raw)
      ELSE Done(<<IF profile.CoerceStringPrimitives THEN Typed(op) ELSE op>>)

(* Decode: every operation is expanded and built before the first selector *)
(* is rewritten, so a later operation's error may come first.              *)
Decode(msg, profile) ==
  LET raws  == FlattenSeq([i \in DOMAIN msg |-> Expand(msg[i], profile)])
      built == [i \in DOMAIN raws |-> Build(raws[i], profile)]
      Early(i) == BuildRefusal(raws[i], profile) # Nil
      First(I) == CHOOSE i \in I : \A j \in I : i <= j
      early == {i \in DOMAIN raws : Early(i)}
      late  == {i \in DOMAIN raws : ~built[i].ok}
  IN  IF msg = <<>> \/ Len(msg) > MaxOperations THEN Fail("invalidSyntax")
      ELSE IF early # {} THEN built[First(early)]
      ELSE IF late # {} THEN built[First(late)]
      ELSE Done(FlattenSeq([i \in DOMAIN raws |-> built[i].val]))

===============================================================================
