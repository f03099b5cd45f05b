------------------------------- MODULE AttrData -------------------------------
(***************************************************************************)
(* The values attributes hold (scim/value.go, scim/resource.go).  What is  *)
(* stored of an attribute is a sequence of elements, <<>> when it is       *)
(* unassigned: any number for a multi-valued attribute, at most one for    *)
(* another.  An element maps sub-attributes to scalars, Nil where it has   *)
(* none; of a simple attribute it has the sub-attribute "value" only.      *)
(***************************************************************************)
EXTENDS Naturals, Sequences, FiniteSets, SequencesExt, Selection

CONSTANTS
  Attrs, Subs,
  Schema,     \* attribute -> what the resource type's schemas say of it
  Scalars,    \* JSON scalars and stored ones
  Convert,    \* type -> scalar -> its stored form, Bad when it has none
  Fold,       \* scalar -> what a filter takes it for, its case folded
  Nil,        \* unassigned, or not there
  Null,       \* the JSON null
  Bad         \* no value: a type mismatch

Types == DOMAIN Convert

Characteristics ==
  [multi : BOOLEAN, complex : BOOLEAN, ext : BOOLEAN, required : BOOLEAN,
   mutability : {"readWrite", "immutable", "readOnly"},
   subs : UNION {[S -> [type : Types, mutability : {"readWrite", "immutable", "readOnly"}]] :
                   S \in SUBSET Subs}]

ASSUME DataAssumption ==
  /\ {"value", "primary"} \subseteq Subs
  /\ {Nil, Null, Bad} \cap Scalars = {} /\ Nil \notin {Null, Bad} \cup Subs /\ Null # Bad
  /\ \A t \in Types : \A x \in Scalars :
       Convert[t][x] # Bad => Convert[t][x] \in Scalars /\ Convert[t][Convert[t][x]] = Convert[t][x]
  (* no other type stores what a boolean stores *)
  /\ "boolean" \in Types /\ {"true", "false"} \subseteq Scalars
  /\ Bad \notin {Convert["boolean"]["true"], Convert["boolean"]["false"]}
  /\ Convert["boolean"]["true"] # Convert["boolean"]["false"]
  /\ \A t \in Types \ {"boolean"}, x \in Scalars : Convert[t][x] # Convert["boolean"]["true"]
  /\ \A a \in Attrs : Schema[a] \in Characteristics
  /\ \A a \in Attrs : ~Schema[a].complex => DOMAIN Schema[a].subs = {"value"}

SubsOf(a) == DOMAIN Schema[a].subs

NoSubs == [s \in Subs |-> Nil]

(* What a request sends: one element or a list; an element is null, a      *)
(* scalar (under "value"), or an object, whose members may be null.        *)
RawElem ==
  {e \in [form : {"null", "scalar", "object"}, at : [Subs -> Scalars \cup {Nil, Null}]] :
     /\ e.form = "scalar" => e.at["value"] \in Scalars
     /\ e.form = "null" => e.at["value"] = Nil
     /\ e.form # "object" => \A s \in Subs \ {"value"} : e.at[s] = Nil}
RawValue == {v \in [list : BOOLEAN, elems : Seq(RawElem)] : v.list \/ Len(v.elems) = 1}

IsNull(v) == ~v.list /\ v.elems[1].form = "null"

-----------------------------------------------------------------------------
(* coerceSingle: one scalar, as its sub-attribute stores it.               *)
CoerceScalar(a, s, x) ==
  IF x \in {Nil, Null} THEN Nil
  ELSE IF x \in Scalars THEN Convert[Schema[a].subs[s].type][x] ELSE Bad

(* coerceComplex: unknown sub-attributes and null ones are dropped.        *)
CoerceMembers(a, at) ==
  [s \in Subs |-> IF s \in SubsOf(a) THEN CoerceScalar(a, s, at[s]) ELSE Nil]

WithoutEmpty(elems) == Selected(elems, {i \in DOMAIN elems : elems[i] # NoSubs})

Primaries(elems) == {i \in DOMAIN elems : elems[i]["primary"] = Convert["boolean"]["true"]}

CoerceElems_AnyPrimary(a, ats) ==
  LET elems == [i \in DOMAIN ats |-> CoerceMembers(a, ats[i])]
  IN  IF \E i \in DOMAIN elems, s \in Subs : elems[i][s] = Bad THEN Bad
      ELSE WithoutEmpty(elems)

(* coerceMultiComplex, coerceSlice: empty elements are dropped, two        *)
(* primaries are an error.                                                 *)
CoerceElems(a, ats) ==
  LET elems == [i \in DOMAIN ats |-> CoerceMembers(a, ats[i])]
      kept  == WithoutEmpty(elems)
  IN  IF \/ \E i \in DOMAIN elems, s \in Subs : elems[i][s] = Bad
         \/ Cardinality(Primaries(kept)) > 1
      THEN Bad ELSE kept

(* A scalar list may hold nulls, a list of objects may not.                *)
FitsShape(a, e) == IF Schema[a].complex THEN e.form = "object" ELSE e.form \in {"scalar", "null"}

(* Coerce: the stored form of a whole attribute, <<>> for nothing, or Bad. *)
Coerce(a, v) ==
  IF IsNull(v) THEN <<>>
  ELSE IF v.list # Schema[a].multi \/ \E i \in DOMAIN v.elems : ~FitsShape(a, v.elems[i]) THEN Bad
  ELSE CoerceElems(a, [i \in DOMAIN v.elems |-> v.elems[i].at])

(* The scalar a value sends for one sub-attribute, Bad when it is none.    *)
ScalarOf(v) ==
  IF IsNull(v) THEN Null
  ELSE IF v.list \/ v.elems[1].form # "scalar" THEN Bad ELSE v.elems[1].at["value"]

(* setSub: one sub-attribute of a single-valued attribute; the element     *)
(* goes with its last sub-attribute.                                       *)
WithSub(stored, s, x) ==
  LET e == IF stored = <<>> THEN NoSubs ELSE stored[1]
  IN  WithoutEmpty(<<[e EXCEPT ![s] = x]>>)

(* The closed set of what a resource holds (Resource's presence tracking). *)
Canonical(a, stored) ==
  /\ \A i \in DOMAIN stored :
       /\ stored[i] # NoSubs
       /\ \A s \in Subs : stored[i][s] # Nil =>
            s \in SubsOf(a) /\ \E x \in Scalars : stored[i][s] = Convert[Schema[a].subs[s].type][x]
  /\ ~Schema[a].multi => Len(stored) <= 1
  /\ Cardinality(Primaries(stored)) <= 1

===============================================================================
