-------------------------- MODULE PatchEngineProofs --------------------------
(***************************************************************************)
(* Theorems about PatchEngine, for every schema, every stored resource and *)
(* every message of any length; and about ResourceView, for every body and *)
(* every projection of the same resources.                                 *)
(***************************************************************************)
EXTENDS PatchEngine, ResourceView, ListProofs

-----------------------------------------------------------------------------
(* Apply and the caller's resource.                                        *)

(* The working copy and the caller's resource share only values that no    *)
(* operation edits in place; so nothing an edit in place reaches is the    *)
(* caller's.                                                               *)
Sharing ==
  /\ given \in Resources /\ caller = given
  /\ shared \subseteq Shared

(* An operation that edits an attribute in place has one path, and the     *)
(* attribute is complex and has a single value.                            *)
LEMMA EditsCopies ==
  ASSUME NEW op, NEW res, NEW prof, NEW a \in Attrs,
         Perform(op, res, prof).ok,
         op.path # Nil, op.path.attr = a, op.path.sub # Nil, op.path.filter = Nil
  PROVE  a \notin Shared
<1>1. Perform(op, res, prof) = ApplyPathed(op, res, prof)
  BY DEF Perform
<1>2. TargetRefusal(op, res) = Nil
  <2>1. SUFFICES ASSUME TargetRefusal(op, res) # Nil PROVE FALSE
    OBVIOUS
  <2>2. ApplyPathed(op, res, prof) = Fail(TargetRefusal(op, res))
    BY <2>1 DEF ApplyPathed
  <2>3. ~Fail(TargetRefusal(op, res)).ok
    BY DEF Fail
  <2> QED BY <1>1, <2>2, <2>3
<1>3. Nil # "invalidPath"
  BY ApplyAssumption DEF Errors
<1>4. Resolves(op.path) /\ ~Multi(a)
  BY <1>2, <1>3 DEF TargetRefusal
<1>5. Schema[a].complex
  BY <1>4 DEF Resolves
<1> QED BY <1>4, <1>5 DEF Shared

LEMMA StepShares ==
  ASSUME NEW kind, Sharing, Step(kind)
  PROVE  Sharing'
<1> DEFINE op == ops[done + 1]
           result == Perform(op, work, profile)
           written == {a \in Attrs : result.val[a] # work[a]}
           edited == {a \in written : EditsInPlace(op, a)}
<1>1. /\ given' = given
      /\ \/ /\ result.ok
            /\ caller' = [a \in Attrs |-> IF a \in edited \cap shared THEN result.val[a] ELSE caller[a]]
            /\ shared' = shared \ (written \ edited)
         \/ caller' = caller /\ shared' = shared
  BY DEF Step
<1>2. CASE caller' = caller /\ shared' = shared
  BY <1>1, <1>2 DEF Sharing
<1>3. CASE /\ result.ok
           /\ caller' = [a \in Attrs |-> IF a \in edited \cap shared THEN result.val[a] ELSE caller[a]]
           /\ shared' = shared \ (written \ edited)
  <2>1. ASSUME NEW a \in edited PROVE a \notin shared
    <3>1. a \in Attrs /\ EditsInPlace(op, a)
      OBVIOUS
    <3>2. a \notin Shared
      <4> HIDE DEF op
      <4> QED BY <3>1, <1>3, EditsCopies DEF EditsInPlace
    <3> QED BY <3>2 DEF Sharing
  <2>2. caller' = [a \in Attrs |-> caller[a]]
    <3> HIDE DEF edited, written, result
    <3> QED BY <1>3, <2>1
  <2>3. caller = [a \in Attrs |-> caller[a]]
    BY DEF Sharing, Resources
  <2>4. caller' = caller /\ shared' \subseteq shared
    <3> HIDE DEF edited, written, result
    <3> QED BY <1>3, <2>2, <2>3
  <2> QED BY <1>1, <2>4 DEF Sharing
<1> HIDE DEF edited, written, result
<1> QED BY <1>1, <1>2, <1>3

(* Apply never changes the resource it was given, whatever the schema, the *)
(* resource and the message: only the copy is written, and the values the  *)
(* copy shares are replaced, never edited.                                 *)
THEOREM InputSafe == Spec => []InputUntouched
<1>1. Init => Sharing
  <2> SUFFICES ASSUME Init PROVE Sharing
    OBVIOUS
  <2>1. PICK c \in Cases : given \in c.bases
    BY DEF Init
  <2>2. given \in Resources
    BY <2>1, PatchAssumption
  <2> QED BY <2>2 DEF Init, Sharing
<1>2. Sharing /\ [Next]_vars => Sharing'
  <2> SUFFICES ASSUME Sharing, [Next]_vars PROVE Sharing'
    OBVIOUS
  <2>1. CASE DecodeMessage
    BY <2>1 DEF Sharing, DecodeMessage
  <2>2. CASE ApplyAdd
    BY <2>2, StepShares DEF ApplyAdd
  <2>3. CASE ApplyRemove
    BY <2>3, StepShares DEF ApplyRemove
  <2>4. CASE ApplyReplace
    BY <2>4, StepShares DEF ApplyReplace
  <2>5. CASE UNCHANGED vars
    BY <2>5 DEF Sharing, vars
  <2> QED BY <2>1, <2>2, <2>3, <2>4, <2>5 DEF Next
<1>3. Sharing => InputUntouched
  BY DEF Sharing, InputUntouched
<1> QED BY <1>1, <1>2, <1>3, PTL DEF Spec

-----------------------------------------------------------------------------
(* Values.                                                                 *)

Elem == [Subs -> Scalars \cup {Nil}]

(* An element an attribute may store.                                      *)
Fits(a, e) ==
  /\ e \in Elem /\ e # NoSubs
  /\ \A s \in Subs : e[s] # Nil =>
       s \in SubsOf(a) /\ \E x \in Scalars : e[s] = Convert[Schema[a].subs[s].type][x]

Good(a) == {list \in Seq(Elem) : Canonical(a, list)}

LEMMA SchemaFacts ==
  ASSUME NEW a \in Attrs
  PROVE  /\ SubsOf(a) \subseteq Subs
         /\ \A s \in SubsOf(a) : Schema[a].subs[s].type \in Types
         /\ ~Schema[a].complex => SubsOf(a) = {"value"}
<1>1. Schema[a] \in Characteristics /\ (~Schema[a].complex => DOMAIN Schema[a].subs = {"value"})
  BY DataAssumption
<1>2. PICK S \in SUBSET Subs :
        Schema[a].subs \in [S -> [type : Types, mutability : {"readWrite", "immutable", "readOnly"}]]
  BY <1>1 DEF Characteristics
<1>3. DOMAIN Schema[a].subs = S /\ \A s \in S : Schema[a].subs[s].type \in Types
  BY <1>2
<1> QED BY <1>1, <1>3 DEF SubsOf

(* What DataAssumption says of the values that stand for none.             *)
LEMMA MarksDiffer ==
  /\ Nil \notin Scalars /\ Null \notin Scalars /\ Bad \notin Scalars /\ Nil # Bad
  /\ "value" \in Subs
  /\ \A t \in Types : \A x \in Scalars : Convert[t][x] = Bad \/ Convert[t][x] \in Scalars
<1>1. {Nil, Null, Bad} \cap Scalars = {} /\ Nil \notin {Null, Bad} \cup Subs
  BY DataAssumption
<1>2. "value" \in Subs
  BY DataAssumption
<1>3. \A t \in Types : \A x \in Scalars : Convert[t][x] = Bad \/ Convert[t][x] \in Scalars
  BY DataAssumption
<1> QED BY ONLY <1>1, <1>2, <1>3

LEMMA AtMostOne ==
  ASSUME NEW S, IsFiniteSet(S)
  PROVE  Cardinality(S) <= 1 <=> \A i, j \in S : i = j
<1>1. Cardinality(S) \in Nat /\ (Cardinality(S) = 0 <=> S = {})
  BY FS_CardinalityType, FS_EmptySet
<1>2. Cardinality(S) = 1 <=> \E x : S = {x}
  BY FS_Singleton
<1>3. ASSUME \A i, j \in S : i = j, S # {} PROVE \E x : S = {x}
  <2>1. PICK x \in S : TRUE
    BY <1>3
  <2>2. S = {x}
    BY <1>3
  <2> QED BY <2>2
<1>4. ASSUME NEW x, S = {x} PROVE \A i, j \in S : i = j
  BY <1>4
<1> QED BY <1>1, <1>2, <1>3, <1>4

(* Canonical without counting.                                             *)
LEMMA GoodIs ==
  ASSUME NEW a \in Attrs, NEW list \in Seq(Elem)
  PROVE  list \in Good(a) <=> /\ \A i \in DOMAIN list : Fits(a, list[i])
                              /\ ~Multi(a) => Len(list) <= 1
                              /\ \A i, j \in Primaries(list) : i = j
<1>1. IsFiniteSet(Primaries(list))
  <2>1. IsFiniteSet(1..Len(list))
    BY FS_Interval
  <2>2. Primaries(list) \subseteq 1..Len(list)
    BY DEF Primaries
  <2> QED BY <2>1, <2>2, FS_Subset
<1>2. Cardinality(Primaries(list)) <= 1 <=> \A i, j \in Primaries(list) : i = j
  BY <1>1, AtMostOne
<1>3. \A i \in DOMAIN list : list[i] \in Elem
  OBVIOUS
<1> QED BY <1>2, <1>3 DEF Good, Canonical, Fits, Multi

(* coerceSingle gives nothing, a mismatch, or a stored form.               *)
LEMMA CoercedScalar ==
  ASSUME NEW a \in Attrs, NEW s \in SubsOf(a), NEW x,
         CoerceScalar(a, s, x) # Bad, CoerceScalar(a, s, x) # Nil
  PROVE  /\ x \in Scalars /\ CoerceScalar(a, s, x) \in Scalars
         /\ CoerceScalar(a, s, x) = Convert[Schema[a].subs[s].type][x]
<1>1. x \in Scalars /\ CoerceScalar(a, s, x) = Convert[Schema[a].subs[s].type][x]
  BY DEF CoerceScalar
<1>2. Schema[a].subs[s].type \in Types
  BY SchemaFacts
<1> QED BY <1>1, <1>2, DataAssumption

(* An element without a mismatch that coercion leaves something of fits.   *)
LEMMA CoercedMembers ==
  ASSUME NEW a \in Attrs, NEW at,
         CoerceMembers(a, at) # NoSubs, \A s \in Subs : CoerceMembers(a, at)[s] # Bad
  PROVE  Fits(a, CoerceMembers(a, at))
<1> DEFINE e == CoerceMembers(a, at)
<1>1. e = [s \in Subs |-> e[s]]
  BY DEF CoerceMembers
<1>2. ASSUME NEW s \in Subs
      PROVE  /\ e[s] \in Scalars \cup {Nil}
             /\ e[s] # Nil => s \in SubsOf(a) /\ \E x \in Scalars : e[s] = Convert[Schema[a].subs[s].type][x]
  <2>1. e[s] = IF s \in SubsOf(a) THEN CoerceScalar(a, s, at[s]) ELSE Nil
    BY DEF CoerceMembers
  <2>2. e[s] # Bad
    OBVIOUS
  <2> HIDE DEF e
  <2>3. CASE e[s] = Nil
    BY <2>3
  <2>4. CASE e[s] # Nil
    <3>1. s \in SubsOf(a) /\ e[s] = CoerceScalar(a, s, at[s])
      BY <2>1, <2>4
    <3> QED BY <3>1, <2>2, <2>4, CoercedScalar
  <2> QED BY <2>3, <2>4
<1>3. e \in Elem
  <2> HIDE DEF e
  <2> QED BY <1>1, <1>2 DEF Elem
<1>4. e # NoSubs
  OBVIOUS
<1> HIDE DEF e
<1>5. Fits(a, e)
  BY <1>2, <1>3, <1>4 DEF Fits
<1> QED BY <1>5 DEF e

(* What coercion keeps of a list may be stored.                            *)
LEMMA CoercedList ==
  ASSUME NEW a \in Attrs, NEW n \in Nat, NEW ats, DOMAIN ats = 1..n,
         ~Multi(a) => n <= 1, CoerceElems(a, ats) # Bad
  PROVE  CoerceElems(a, ats) \in Good(a)
<1> DEFINE elems == [i \in DOMAIN ats |-> CoerceMembers(a, ats[i])]
           left == {i \in DOMAIN elems : elems[i] # NoSubs}
           kept == Selected(elems, left)
<1>1. /\ CoerceElems(a, ats) = kept
      /\ \A i \in DOMAIN elems, s \in Subs : elems[i][s] # Bad
      /\ ~(Cardinality(Primaries(kept)) > 1)
  BY DEF CoerceElems, WithoutEmpty
<1>2. DOMAIN elems = 1..n
  OBVIOUS
<1>3. \A i \in DOMAIN elems : elems[i] = CoerceMembers(a, ats[i])
  OBVIOUS
<1>4. \A i \in left : Fits(a, elems[i]) /\ i \in 1..n
  <2> HIDE DEF elems
  <2> QED BY <1>1, <1>2, <1>3, CoercedMembers
<1>5e. PICK m \in Nat : \E at : Selects(at, m, n, left) /\ kept = Taken(elems, at, m)
  <2> HIDE DEF elems, left
  <2> QED BY <1>2, SelectedAt
<1>5. PICK at : Selects(at, m, n, left) /\ kept = Taken(elems, at, m)
  BY <1>5e
<1>6. /\ \A k \in 1..m : at[k] \in left /\ at[k] \in 1..n
      /\ \A k, l \in 1..m : k < l => at[k] < at[l]
  BY <1>5 DEF Selects
<1> HIDE DEF elems, left, kept
<1>7. \A k \in 1..m : Fits(a, elems[at[k]])
  BY <1>4, <1>6
<1>8. /\ kept \in Seq(Elem) /\ DOMAIN kept = 1..m /\ Len(kept) = m
      /\ \A k \in 1..m : kept[k] = elems[at[k]]
  <2>1. kept = [k \in 1..m |-> elems[at[k]]]
    BY <1>5 DEF Taken
  <2>2. \A k \in 1..m : elems[at[k]] \in Elem
    BY <1>7 DEF Fits
  <2> QED BY <2>1, <2>2
<1>9. \A i \in DOMAIN kept : Fits(a, kept[i])
  BY <1>7, <1>8
<1>10. ~Multi(a) => Len(kept) <= 1
  <2>1. SUFFICES ASSUME ~Multi(a), m >= 2 PROVE FALSE
    BY <1>8
  <2>2. at[1] < at[2] /\ at[1] \in 1..n /\ at[2] \in 1..n
    BY <1>6, <2>1
  <2> QED BY <2>1, <2>2
<1>11. Cardinality(Primaries(kept)) <= 1
  <2>1. Primaries(kept) \subseteq 1..m
    BY <1>8 DEF Primaries
  <2>2. IsFiniteSet(1..m)
    BY FS_Interval
  <2>3. IsFiniteSet(Primaries(kept))
    BY <2>1, <2>2, FS_Subset
  <2>4. Cardinality(Primaries(kept)) \in Nat
    BY <2>3, FS_CardinalityType
  <2> QED BY <2>4, <1>1
<1>12. kept \in Good(a)
  BY <1>8, <1>9, <1>10, <1>11 DEF Good, Canonical, Fits, Multi
<1> QED BY <1>1, <1>12

LEMMA EmptyGood == \A a \in Attrs : <<>> \in Good(a)
<1> SUFFICES ASSUME NEW a \in Attrs, NEW none, none = <<>> PROVE none \in Good(a)
  OBVIOUS
<1>1. none \in Seq(Elem) /\ Len(none) = 0 /\ DOMAIN none = {}
  OBVIOUS
<1>2. Primaries(none) = {}
  BY <1>1 DEF Primaries
<1>3. /\ \A i \in DOMAIN none : Fits(a, none[i])
      /\ Len(none) <= 1
      /\ \A i, j \in Primaries(none) : i = j
  BY <1>1, <1>2
<1>4. none \in Seq(Elem)
  BY <1>1
<1> QED BY <1>3, <1>4, GoodIs

(* Coerce: what it takes may be stored.                                    *)
LEMMA Coerced ==
  ASSUME NEW a \in Attrs, NEW v \in RawValue, Coerce(a, v) # Bad
  PROVE  Coerce(a, v) \in Good(a)
<1>1. v.list \in BOOLEAN /\ v.elems \in Seq(RawElem) /\ (v.list \/ Len(v.elems) = 1)
  BY DEF RawValue
<1>2. CASE IsNull(v)
  <2>1. Coerce(a, v) = <<>>
    BY <1>2 DEF Coerce
  <2> QED BY <2>1, EmptyGood
<1>3. CASE ~IsNull(v)
  <2> DEFINE ats == [i \in DOMAIN v.elems |-> v.elems[i].at]
  <2>1. v.list = Schema[a].multi /\ Coerce(a, v) = CoerceElems(a, ats)
    BY <1>3 DEF Coerce
  <2>2. DOMAIN ats = 1..Len(v.elems) /\ Len(v.elems) \in Nat
    BY <1>1
  <2>3. ~Multi(a) => Len(v.elems) <= 1
    BY <1>1, <2>1 DEF Multi
  <2> HIDE DEF ats
  <2> QED BY <2>1, <2>2, <2>3, CoercedList
<1> QED BY <1>2, <1>3

-----------------------------------------------------------------------------
(* Lists put together from stored and received values.                     *)

True  == Convert["boolean"]["true"]
False == Convert["boolean"]["false"]

LEMMA Truth == True \in Scalars /\ False \in Scalars /\ True # False /\ Nil \notin {True, False}
<1>1. "boolean" \in Types /\ "true" \in Scalars /\ "false" \in Scalars
  BY DataAssumption
<1>2. True # Bad /\ False # Bad /\ True # False
  BY DataAssumption DEF True, False
<1>3. True \in Scalars /\ False \in Scalars
  BY <1>1, <1>2, DataAssumption DEF True, False
<1> QED BY <1>2, <1>3, DataAssumption

(* An element that loses its primary mark still fits.                      *)
LEMMA DemotedElem ==
  ASSUME NEW a \in Attrs, NEW e, Fits(a, e), e["primary"] = True
  PROVE  Fits(a, [e EXCEPT !["primary"] = False])
<1> DEFINE d == [e EXCEPT !["primary"] = False]
<1>1. "primary" \in Subs /\ e \in Elem
  BY DataAssumption DEF Fits
<1>2. e["primary"] # Nil
  BY Truth
<1>3. "primary" \in SubsOf(a)
  BY <1>1, <1>2 DEF Fits
<1>4. PICK x \in Scalars : e["primary"] = Convert[Schema[a].subs["primary"].type][x]
  BY <1>1, <1>2 DEF Fits
<1>5. Schema[a].subs["primary"].type \in Types
  BY <1>3, SchemaFacts
<1>6. Schema[a].subs["primary"].type = "boolean"
  <2>1. True = Convert["boolean"]["true"]
    BY DEF True
  <2> QED BY <1>4, <1>5, <2>1, DataAssumption
<1>7. False = Convert[Schema[a].subs["primary"].type]["false"] /\ "false" \in Scalars
  BY <1>6, DataAssumption DEF False
<1>8. d \in Elem /\ d["primary"] = False /\ \A s \in Subs \ {"primary"} : d[s] = e[s]
  BY <1>1, Truth DEF Elem
<1>9. d # NoSubs
  BY <1>1, <1>8, Truth DEF NoSubs
<1> HIDE DEF d
<1>10. ASSUME NEW s \in Subs, d[s] # Nil
       PROVE  s \in SubsOf(a) /\ \E y \in Scalars : d[s] = Convert[Schema[a].subs[s].type][y]
  <2>1. CASE s = "primary"
    BY <2>1, <1>3, <1>7, <1>8
  <2>2. CASE s # "primary"
    BY <2>2, <1>8, <1>10 DEF Fits
  <2> QED BY <2>1, <2>2
<1>11. Fits(a, d)
  BY <1>8, <1>9, <1>10 DEF Fits
<1> QED BY <1>11 DEF d

(* demoteOthers: the marks that stay.                                      *)
LEMMA Demoted ==
  ASSUME NEW a \in Attrs, NEW list \in Seq(Elem), \A i \in DOMAIN list : Fits(a, list[i]), NEW keep
  PROVE  /\ DemoteOthers(list, keep) \in Seq(Elem)
         /\ Len(DemoteOthers(list, keep)) = Len(list)
         /\ \A i \in DOMAIN list :
              /\ Fits(a, DemoteOthers(list, keep)[i])
              /\ \A s \in Subs \ {"primary"} : DemoteOthers(list, keep)[i][s] = list[i][s]
         /\ Primaries(DemoteOthers(list, keep)) =
              IF keep \cap Primaries(list) = {} THEN Primaries(list) ELSE keep \cap Primaries(list)
<1>1. CASE keep \cap Primaries(list) = {}
  <2>1. DemoteOthers(list, keep) = list
    BY <1>1 DEF DemoteOthers
  <2> QED BY <2>1, <1>1
<1>2. CASE keep \cap Primaries(list) # {}
  <2> DEFINE d == [i \in DOMAIN list |-> IF i \in Primaries(list) \ keep
                                         THEN [list[i] EXCEPT !["primary"] = False] ELSE list[i]]
  <2>1. DemoteOthers(list, keep) = d
    BY <1>2 DEF DemoteOthers, False
  <2>2. DOMAIN list = 1..Len(list) /\ Len(list) \in Nat /\ \A i \in DOMAIN list : list[i] \in Elem
    OBVIOUS
  <2>3. ASSUME NEW i \in DOMAIN list
        PROVE  /\ Fits(a, d[i])
               /\ \A s \in Subs \ {"primary"} : d[i][s] = list[i][s]
               /\ d[i]["primary"] = True <=> i \in Primaries(list) /\ i \in keep
    <3>1. "primary" \in Subs /\ True # False
      BY DataAssumption, Truth
    <3>2. i \in Primaries(list) <=> list[i]["primary"] = True
      BY DEF Primaries, True
    <3>3. CASE i \in Primaries(list) \ keep
      <4>1. d[i] = [list[i] EXCEPT !["primary"] = False]
        BY <3>3
      <4>2. Fits(a, d[i])
        <5> HIDE DEF d
        <5> QED BY <4>1, <3>2, <3>3, DemotedElem
      <4>3. d[i]["primary"] = False /\ \A s \in Subs \ {"primary"} : d[i][s] = list[i][s]
        <5> HIDE DEF d
        <5> QED BY <4>1, <3>1, <2>2 DEF Elem
      <4> HIDE DEF d
      <4> QED BY <4>2, <4>3, <3>1, <3>3
    <3>4. CASE i \notin Primaries(list) \ keep
      <4>1. d[i] = list[i]
        BY <3>4
      <4> HIDE DEF d
      <4> QED BY <4>1, <3>2, <3>4
    <3> QED BY <3>3, <3>4
  <2>4. DOMAIN d = 1..Len(list)
    BY <2>2
  <2>5. d \in Seq(Elem) /\ Len(d) = Len(list)
    <3>1. \A i \in 1..Len(list) : d[i] \in Elem
      <4> HIDE DEF d
      <4> QED BY <2>2, <2>3 DEF Fits
    <3>2. d = [i \in 1..Len(list) |-> d[i]]
      BY <2>2
    <3> HIDE DEF d
    <3> QED BY <3>1, <3>2, <2>2
  <2> HIDE DEF d
  <2>6. Primaries(d) = keep \cap Primaries(list)
    <3>1. \A i : i \in Primaries(d) <=> i \in DOMAIN list /\ d[i]["primary"] = True
      BY <2>2, <2>4 DEF Primaries, True
    <3>2. \A i \in Primaries(list) : i \in DOMAIN list
      BY DEF Primaries
    <3> QED BY <3>1, <3>2, <2>3
  <2> QED BY <1>2, <2>1, <2>3, <2>5, <2>6
<1> QED BY <1>1, <1>2

(* appendNew before the demotion.                                          *)
Joined(old, incoming) ==
  FoldLeft(LAMBDA list, e : IF Duplicate(list, e) THEN list ELSE Append(list, e), old, incoming)

JoinSteps(n, incoming) ==
  [k \in 1..n |-> [out \in Seq(Elem) |->
     IF Duplicate(out, incoming[k]) THEN out ELSE Append(out, incoming[k])]]

LEMMA JoinRuns ==
  ASSUME NEW old \in Seq(Elem), NEW incoming \in Seq(Elem), NEW n \in Nat, n = Len(incoming)
  PROVE  \E f : IsRun(f, n, Seq(Elem), old, JoinSteps(n, incoming)) /\ f[n] = Joined(old, incoming)
<1> DEFINE S == Seq(Elem)
           g == JoinSteps(n, incoming)
           Solves(iter) == iter = [s \in SUBSET (DOMAIN incoming) |->
                             IF s = {} THEN old
                             ELSE IF Duplicate(iter[s \ {Max(s)}], incoming[Max(s)])
                                  THEN iter[s \ {Max(s)}]
                                  ELSE Append(iter[s \ {Max(s)}], incoming[Max(s)])]
           iter == CHOOSE iter : Solves(iter)
<1>1. Joined(old, incoming) = iter[DOMAIN incoming]
  BY DEF Joined, FoldLeft, MapThenFoldSet
<1>2. DOMAIN incoming = 1..n /\ \A k \in 1..n : incoming[k] \in Elem
  OBVIOUS
<1>3. ASSUME NEW k \in 1..n, NEW out \in S
      PROVE  /\ g[k][out] = IF Duplicate(out, incoming[k]) THEN out ELSE Append(out, incoming[k])
             /\ g[k][out] \in S
  <2>1. g[k][out] = IF Duplicate(out, incoming[k]) THEN out ELSE Append(out, incoming[k])
    BY DEF JoinSteps
  <2>2. Append(out, incoming[k]) \in S
    BY <1>2
  <2> HIDE DEF S, g
  <2> QED BY <2>1, <2>2
<1>4. g \in Steps(n, S)
  <2>1. \A k \in 1..n : g[k] = [out \in S |-> g[k][out]]
    BY DEF JoinSteps
  <2>2. g = [k \in 1..n |-> g[k]]
    BY DEF JoinSteps
  <2> HIDE DEF S, g
  <2>3. \A k \in 1..n : g[k] \in [S -> S]
    BY <2>1, <1>3
  <2> QED BY <2>2, <2>3 DEF Steps
<1>5. PICK h : IsFold(h, n, S, old, g)
  <2>1. old \in S
    OBVIOUS
  <2> HIDE DEF S, g
  <2> QED BY <2>1, <1>4, FoldExists
<1>6. /\ h \in [SUBSET (1..n) -> S]
      /\ h[{}] = old
      /\ \A s \in SUBSET (1..n) : s # {} => h[s] = g[Max(s)][h[s \ {Max(s)}]]
  BY <1>5 DEF IsFold
<1>7. Solves(h)
  <2>1. ASSUME NEW s \in SUBSET (1..n), s # {}
        PROVE  h[s] = IF Duplicate(h[s \ {Max(s)}], incoming[Max(s)])
                      THEN h[s \ {Max(s)}] ELSE Append(h[s \ {Max(s)}], incoming[Max(s)])
    <3>1. Max(s) \in s
      BY <2>1, LargestOf
    <3>2. Max(s) \in 1..n /\ s \ {Max(s)} \in SUBSET (1..n)
      BY <3>1
    <3>3. h[s \ {Max(s)}] \in S
      BY <1>6, <3>2
    <3>4. h[s] = g[Max(s)][h[s \ {Max(s)}]]
      BY <1>6, <2>1
    <3> HIDE DEF S, g
    <3> QED BY <3>2, <3>3, <3>4, <1>3
  <2>2. h = [s \in SUBSET (1..n) |-> h[s]]
    BY <1>6
  <2> HIDE DEF S, g
  <2> QED BY <1>2, <1>6, <2>1, <2>2
<1>8. Solves(iter)
  <2> HIDE DEF Solves
  <2> QED BY <1>7
<1>9. \A s \in SUBSET (1..n) :
        iter[s] = IF s = {} THEN old
                  ELSE IF Duplicate(iter[s \ {Max(s)}], incoming[Max(s)])
                       THEN iter[s \ {Max(s)}] ELSE Append(iter[s \ {Max(s)}], incoming[Max(s)])
  <2> HIDE DEF iter
  <2> QED BY <1>2, <1>8
<1>10. iter[{}] = old
  <2> HIDE DEF iter
  <2> QED BY <1>9
<1>11. ASSUME NEW k \in 1..n, iter[1..(k - 1)] \in S
       PROVE  iter[1..k] = g[k][iter[1..(k - 1)]]
  <2>1. /\ 1..k \in SUBSET (1..n) /\ 1..k # {}
        /\ Max(1..k) = k /\ (1..k) \ {Max(1..k)} = 1..(k - 1)
    BY LargestOfFirst
  <2>3. g[k][iter[1..(k - 1)]] = IF Duplicate(iter[1..(k - 1)], incoming[k])
                                 THEN iter[1..(k - 1)] ELSE Append(iter[1..(k - 1)], incoming[k])
    <3> HIDE DEF iter, S, g
    <3> QED BY <1>3, <1>11
  <2> DEFINE upto == 1..k
             before == 1..(k - 1)
             all == SUBSET (1..n)
  <2>4. /\ upto \in all /\ upto # {} /\ Max(upto) = k /\ upto \ {Max(upto)} = before
    BY <2>1
  <2>5. \A s \in all :
          iter[s] = IF s = {} THEN old
                    ELSE IF Duplicate(iter[s \ {Max(s)}], incoming[Max(s)])
                         THEN iter[s \ {Max(s)}] ELSE Append(iter[s \ {Max(s)}], incoming[Max(s)])
    BY ONLY <1>9
  <2>6. iter[upto] = IF Duplicate(iter[before], incoming[k])
                     THEN iter[before] ELSE Append(iter[before], incoming[k])
    <3> HIDE DEF iter, S, g, upto, before, all
    <3>1. iter[upto] = IF Duplicate(iter[upto \ {Max(upto)}], incoming[Max(upto)])
                       THEN iter[upto \ {Max(upto)}]
                       ELSE Append(iter[upto \ {Max(upto)}], incoming[Max(upto)])
      BY ONLY <2>4, <2>5
    <3> QED BY ONLY <2>4, <3>1
  <2> HIDE DEF iter, S, g
  <2> QED BY <2>3, <2>6
<1>12. old \in S
  OBVIOUS
<1>13. PICK f : IsRun(f, n, S, old, g) /\ f[n] = iter[1..n]
  <2>1. n \in Nat
    OBVIOUS
  <2> HIDE DEF iter, g, S
  <2>2. \A k \in 1..n : iter[1..(k - 1)] \in S => iter[1..k] = g[k][iter[1..(k - 1)]]
    BY ONLY <1>11
  <2> QED BY ONLY <2>1, <2>2, <1>4, <1>10, <1>12, FoldRuns
<1> HIDE DEF iter
<1> QED BY <1>1, <1>2, <1>13

(* Of two values the newer keep their order and none is there twice as far *)
(* as marks go: what is joined is the old list and then some of the        *)
(* incoming elements, of which at most one is marked if at most one was.   *)
JoinedUpTo(out, old, incoming, k) ==
  /\ out \in Seq(Elem) /\ Len(old) <= Len(out)
  /\ \A i \in DOMAIN old : out[i] = old[i]
  /\ \A i \in DOMAIN out \ DOMAIN old : \E j \in 1..k : out[i] = incoming[j]
  /\ \A i, j \in Primaries(out) \ DOMAIN old : i = j

LEMMA JoinedIs ==
  ASSUME NEW old \in Seq(Elem), NEW incoming \in Seq(Elem),
         \A i, j \in Primaries(incoming) : i = j
  PROVE  JoinedUpTo(Joined(old, incoming), old, incoming, Len(incoming))
<1> DEFINE n == Len(incoming)
<1>1. n \in Nat /\ DOMAIN incoming = 1..n /\ \A k \in 1..n : incoming[k] \in Elem
  OBVIOUS
<1> HIDE DEF n
<1>2. PICK f : IsRun(f, n, Seq(Elem), old, JoinSteps(n, incoming)) /\ f[n] = Joined(old, incoming)
  BY <1>1, JoinRuns DEF n
<1>3. f \in [0..n -> Seq(Elem)] /\ f[0] = old
  BY <1>2 DEF IsRun
<1>4. \A k \in 1..n : f[k] = IF Duplicate(f[k - 1], incoming[k]) THEN f[k - 1] ELSE Append(f[k - 1], incoming[k])
  <2>1. \A k \in 1..n : f[k] = JoinSteps(n, incoming)[k][f[k - 1]]
    BY <1>2 DEF IsRun
  <2>2. \A k \in 1..n : k - 1 \in 0..n
    BY <1>1
  <2>3. \A k \in 1..n : f[k - 1] \in Seq(Elem)
    BY <2>2, <1>3
  <2> QED BY <2>1, <2>3 DEF JoinSteps
<1> DEFINE H == {k \in 0..n : JoinedUpTo(f[k], old, incoming, k)}
<1>5. 0 \in H
  <2>1. DOMAIN old \ DOMAIN old = {} /\ Primaries(old) \ DOMAIN old = {}
    BY DEF Primaries
  <2>2. JoinedUpTo(old, old, incoming, 0)
    BY <2>1 DEF JoinedUpTo
  <2> QED BY <2>2, <1>1, <1>3
<1>6. ASSUME NEW k \in 0..n, k \in H, k < n PROVE k + 1 \in H
  <2> DEFINE out == f[k]
             e == incoming[k + 1]
  <2>1. /\ k \in Nat /\ k + 1 \in 1..n /\ k + 1 \in 0..n /\ (k + 1) - 1 = k /\ e \in Elem
        /\ f[k + 1] = IF Duplicate(out, e) THEN out ELSE Append(out, e)
    BY <1>1, <1>4, <1>6
  <2>2. /\ out \in Seq(Elem) /\ Len(old) <= Len(out)
        /\ \A i \in DOMAIN old : out[i] = old[i]
        /\ \A i \in DOMAIN out \ DOMAIN old : \E j \in 1..k : out[i] = incoming[j]
        /\ \A i, j \in Primaries(out) \ DOMAIN old : i = j
    BY <1>6 DEF JoinedUpTo
  <2> HIDE DEF out, e
  <2>3. \A j \in 1..k : j \in 1..(k + 1) /\ j # k + 1 /\ j \in 1..n
    BY <2>1, <1>1
  <2>4. CASE f[k + 1] = out
    <3>1. JoinedUpTo(f[k + 1], old, incoming, k + 1)
      BY <2>2, <2>3, <2>4 DEF JoinedUpTo
    <3> QED BY <3>1, <2>1
  <2>5. CASE f[k + 1] = Append(out, e)
    <3> DEFINE m == Len(out)
               next == Append(out, e)
    <3>1. /\ m \in Nat /\ DOMAIN out = 1..m /\ next \in Seq(Elem) /\ DOMAIN next = 1..(m + 1)
          /\ Len(next) = m + 1 /\ next[m + 1] = e /\ \A i \in 1..m : next[i] = out[i]
      BY <2>1, <2>2
    <3>2. Len(old) \in Nat /\ DOMAIN old = 1..Len(old) /\ Len(old) <= m
      BY <2>2
    <3> HIDE DEF m, next
    <3>3. \A i \in DOMAIN old : i \in 1..m /\ next[i] = old[i]
      BY <3>1, <3>2, <2>2
    <3>4. ASSUME NEW i \in DOMAIN next \ DOMAIN old PROVE \E j \in 1..(k + 1) : next[i] = incoming[j]
      <4>1. CASE i = m + 1
        <5>1. next[i] = incoming[k + 1] /\ k + 1 \in 1..(k + 1)
          BY <4>1, <3>1, <2>1 DEF e
        <5> QED BY <5>1
      <4>2. CASE i # m + 1
        <5>1. i \in DOMAIN out \ DOMAIN old /\ next[i] = out[i]
          BY <4>2, <3>1
        <5>2. PICK j \in 1..k : out[i] = incoming[j]
          BY <5>1, <2>2
        <5> QED BY <5>1, <5>2, <2>3
      <4> QED BY <4>1, <4>2
    <3>5. ASSUME NEW i \in Primaries(next) \ DOMAIN old, i # m + 1, m + 1 \in Primaries(next) PROVE FALSE
      <4>1. i \in DOMAIN out \ DOMAIN old /\ next[i] = out[i] /\ next[i]["primary"] = True
        BY <3>1, <3>5 DEF Primaries, True
      <4>2. PICK j \in 1..k : out[i] = incoming[j]
        BY <4>1, <2>2
      <4>3. e["primary"] = True
        BY <3>1, <3>5 DEF Primaries, True
      <4>4. j \in Primaries(incoming)
        BY <4>1, <4>2, <2>3, <1>1 DEF Primaries, True
      <4>5. k + 1 \in Primaries(incoming)
        BY <4>3, <2>1, <1>1 DEF Primaries, True, e
      <4> QED BY <4>4, <4>5, <2>3
    <3>6. ASSUME NEW i \in Primaries(next) \ DOMAIN old, NEW j \in Primaries(next) \ DOMAIN old PROVE i = j
      <4>1. CASE i = m + 1 \/ j = m + 1
        BY <4>1, <3>5
      <4>2. CASE i # m + 1 /\ j # m + 1
        <5>1. i \in Primaries(out) \ DOMAIN old /\ j \in Primaries(out) \ DOMAIN old
          BY <4>2, <3>1 DEF Primaries
        <5> QED BY <5>1, <2>2
      <4> QED BY <4>1, <4>2
    <3>7. Len(old) <= Len(next)
      BY <3>1, <3>2
    <3>8. JoinedUpTo(next, old, incoming, k + 1)
      BY <3>1, <3>3, <3>4, <3>6, <3>7 DEF JoinedUpTo
    <3>9. f[k + 1] = next
      BY <2>5 DEF next
    <3> QED BY <3>8, <3>9, <2>1
  <2> QED BY <2>1, <2>4, <2>5
<1>7. 0..n \subseteq H
  <2> HIDE DEF H
  <2> QED BY <1>1, <1>5, <1>6, UpTo
<1>8. n \in H
  <2>1. n \in 0..n
    BY <1>1
  <2> HIDE DEF H
  <2> QED BY <2>1, <1>7
<1> QED BY <1>8, <1>2 DEF n

LEMMA AppendNewGood ==
  ASSUME NEW a \in Attrs, Multi(a), NEW old \in Good(a), NEW incoming \in Good(a)
  PROVE  AppendNew(old, incoming) \in Good(a)
<1> DEFINE out == Joined(old, incoming)
           keep == DOMAIN out \ DOMAIN old
<1>1. old \in Seq(Elem) /\ incoming \in Seq(Elem)
  BY DEF Good
<1>2. /\ \A i \in DOMAIN old : Fits(a, old[i])
      /\ \A i, j \in Primaries(old) : i = j
      /\ \A i \in DOMAIN incoming : Fits(a, incoming[i])
      /\ \A i, j \in Primaries(incoming) : i = j
  BY <1>1, GoodIs
<1>3. JoinedUpTo(out, old, incoming, Len(incoming))
  BY <1>1, <1>2, JoinedIs
<1>4. AppendNew(old, incoming) = DemoteOthers(out, keep)
  BY DEF AppendNew, Joined
<1> HIDE DEF out
<1>5. /\ out \in Seq(Elem) /\ Len(old) <= Len(out)
      /\ \A i \in DOMAIN old : out[i] = old[i]
      /\ \A i \in DOMAIN out \ DOMAIN old : \E j \in 1..Len(incoming) : out[i] = incoming[j]
      /\ \A i, j \in Primaries(out) \ DOMAIN old : i = j
  BY <1>3 DEF JoinedUpTo
<1>6. \A i \in DOMAIN out : Fits(a, out[i])
  <2>1. DOMAIN incoming = 1..Len(incoming)
    BY <1>1
  <2> QED BY <1>2, <1>5, <2>1
<1> DEFINE new == DemoteOthers(out, keep)
<1>7. /\ new \in Seq(Elem) /\ Len(new) = Len(out)
      /\ \A i \in DOMAIN out : Fits(a, new[i])
      /\ Primaries(new) = IF keep \cap Primaries(out) = {} THEN Primaries(out) ELSE keep \cap Primaries(out)
  <2> HIDE DEF keep
  <2> QED BY <1>5, <1>6, Demoted
<1>8. Primaries(out) \subseteq DOMAIN out /\ \A i \in Primaries(out) \cap DOMAIN old : i \in Primaries(old)
  BY <1>5 DEF Primaries
<1>9. \A i, j \in Primaries(new) : i = j
  BY <1>2, <1>5, <1>7, <1>8
<1>10. DOMAIN new = DOMAIN out
  BY <1>5, <1>7
<1> HIDE DEF new, keep
<1>11. new \in Good(a)
  BY <1>7, <1>9, <1>10, GoodIs
<1> QED BY <1>4, <1>11 DEF new

LEMMA SingleGood ==
  ASSUME NEW a \in Attrs, NEW e, Fits(a, e)
  PROVE  <<e>> \in Good(a)
<1> DEFINE new == <<e>>
<1>1. e \in Elem
  BY DEF Fits
<1>2. new \in Seq(Elem) /\ Len(new) = 1 /\ DOMAIN new = {1} /\ new[1] = e
  BY <1>1
<1>3. \A i, j \in Primaries(new) : i = j
  BY <1>2 DEF Primaries
<1> HIDE DEF new
<1>4. new \in Seq(Elem) /\ Len(new) <= 1 /\ \A i \in DOMAIN new : Fits(a, new[i])
  BY <1>2
<1>5. new \in Good(a)
  BY <1>3, <1>4, GoodIs
<1> QED BY <1>5 DEF new

LEMMA MergedGood ==
  ASSUME NEW a \in Attrs, ~Multi(a), NEW old \in Good(a), NEW incoming \in Good(a)
  PROVE  Merged(old, incoming) \in Good(a)
<1>1. old \in Seq(Elem) /\ incoming \in Seq(Elem)
  BY DEF Good
<1>2. CASE old = <<>> \/ incoming = <<>>
  <2>1. Merged(old, incoming) = old \o incoming
    BY <1>2 DEF Merged
  <2>2. old \o incoming = old \/ old \o incoming = incoming
    BY <1>1, <1>2
  <2> QED BY <2>1, <2>2
<1>3. CASE ~(old = <<>> \/ incoming = <<>>)
  <2> DEFINE e == [s \in Subs |-> IF incoming[1][s] # Nil THEN incoming[1][s] ELSE old[1][s]]
  <2>1. 1 \in DOMAIN old /\ 1 \in DOMAIN incoming
    BY <1>1, <1>3
  <2>2. Fits(a, old[1]) /\ Fits(a, incoming[1])
    BY <1>1, <2>1, GoodIs
  <2>3. e \in Elem
    BY <2>2 DEF Fits, Elem
  <2>4. e # NoSubs
    <3>1. incoming[1] \in Elem /\ incoming[1] # NoSubs
      BY <2>2 DEF Fits
    <3>2. PICK s \in Subs : incoming[1][s] # Nil
      BY <3>1 DEF Elem, NoSubs
    <3>3. e[s] # Nil
      BY <3>2
    <3>4. NoSubs[s] = Nil
      BY <3>2 DEF NoSubs
    <3> QED BY <3>3, <3>4
  <2>5. ASSUME NEW s \in Subs, e[s] # Nil
        PROVE  s \in SubsOf(a) /\ \E x \in Scalars : e[s] = Convert[Schema[a].subs[s].type][x]
    <3>1. e[s] = IF incoming[1][s] # Nil THEN incoming[1][s] ELSE old[1][s]
      OBVIOUS
    <3> HIDE DEF e
    <3> QED BY <3>1, <2>2, <2>5 DEF Fits
  <2> HIDE DEF e
  <2>6. Fits(a, e)
    BY <2>3, <2>4, <2>5 DEF Fits
  <2>7. Merged(old, incoming) = <<e>>
    BY <1>3 DEF Merged, e
  <2> QED BY <2>6, <2>7, SingleGood
<1> QED BY <1>2, <1>3

(* Part of a list that may be stored may be stored.                        *)
LEMMA SelectionGood ==
  ASSUME NEW a \in Attrs, NEW list \in Seq(Elem), NEW places,
         \A i \in DOMAIN list : i \in places => Fits(a, list[i]),
         ~Multi(a) => Len(list) <= 1,
         \A i, j \in Primaries(list) : i = j
  PROVE  Selected(list, places) \in Good(a)
<1> DEFINE kept == Selected(list, places)
<1>1. kept \in Seq(Elem)
  BY SelectedIs
<1>2. PICK at : IsSelection(at, kept, list, places)
  BY SelectedIs
<1> HIDE DEF kept
<1>3. /\ \A k \in DOMAIN kept : at[k] \in places /\ at[k] \in DOMAIN list /\ kept[k] = list[at[k]]
      /\ \A k, l \in DOMAIN kept : k < l => at[k] < at[l]
  BY <1>2 DEF IsSelection
<1>4. DOMAIN kept = 1..Len(kept) /\ Len(kept) \in Nat /\ DOMAIN list = 1..Len(list) /\ Len(list) \in Nat
  BY <1>1
<1>5. \A k \in DOMAIN kept : Fits(a, kept[k])
  BY <1>3
<1>6. ~Multi(a) => Len(kept) <= 1
  <2>1. SUFFICES ASSUME ~Multi(a), Len(kept) >= 2 PROVE FALSE
    BY <1>4
  <2>2. 1 \in DOMAIN kept /\ 2 \in DOMAIN kept
    BY <1>4, <2>1
  <2>3. at[1] < at[2] /\ at[1] \in 1..Len(list) /\ at[2] \in 1..Len(list)
    BY <1>3, <1>4, <2>2
  <2> QED BY <2>1, <2>3, <1>4
<1>7. ASSUME NEW i \in Primaries(kept), NEW j \in Primaries(kept) PROVE i = j
  <2>1. i \in DOMAIN kept /\ j \in DOMAIN kept
    BY DEF Primaries
  <2>2. at[i] \in Primaries(list) /\ at[j] \in Primaries(list)
    BY <2>1, <1>3 DEF Primaries
  <2>3. at[i] = at[j] /\ at[i] \in Nat
    BY <2>1, <2>2, <1>3, <1>4
  <2> QED BY <2>1, <2>3, <1>3, <1>4
<1>8. kept \in Good(a)
  BY <1>1, <1>5, <1>6, <1>7, GoodIs
<1> QED BY <1>8 DEF kept

-----------------------------------------------------------------------------
(* What the operations make of an attribute: a list that may be stored, or *)
(* one of the errors.                                                      *)

Yields(r, a) ==
  \/ \E list \in Good(a) : r = Done(list)
  \/ \E e \in Errors : r = Fail(e)

LEMMA Outcomes ==
  \A x : Done(x).ok = TRUE /\ Done(x).val = x /\ Fail(x).ok = FALSE /\ Fail(x).val = x
BY DEF Done, Fail

LEMMA StoredYields ==
  ASSUME NEW a \in Attrs, NEW x, x # Bad => x \in Good(a)
  PROVE  Yields(Stored(x), a)
<1>1. "invalidValue" \in Errors
  BY DEF Errors
<1> QED BY <1>1 DEF Yields, Stored

LEMMA AddYields ==
  ASSUME NEW a \in Attrs, NEW old \in Good(a), NEW v \in RawValue
  PROVE  Yields(AddToAttribute(a, old, v), a)
<1> DEFINE w == IF Multi(a) THEN Wrap(v) ELSE v
           new == Coerce(a, w)
<1>1. w \in RawValue
  <2>1. Wrap(v) \in RawValue
    BY DEF Wrap, RawValue
  <2> QED BY <2>1
<1> HIDE DEF w
<1>2. CASE new = Bad
  <2>1. AddToAttribute(a, old, v) = Fail("invalidValue")
    BY <1>2 DEF AddToAttribute, w
  <2> QED BY <2>1 DEF Yields, Errors
<1>3. CASE new # Bad
  <2>1. new \in Good(a)
    BY <1>1, <1>3, Coerced
  <2>2. old \in Seq(Elem) /\ new \in Seq(Elem)
    BY <2>1 DEF Good
  <2> DEFINE list == CASE Multi(a) /\ (old = <<>> \/ new = <<>>) -> old \o new
                       [] Multi(a) /\ old # <<>> /\ new # <<>>   -> AppendNew(old, new)
                       [] ~Multi(a) /\ Schema[a].complex         -> Merged(old, new)
                       [] ~Multi(a) /\ ~Schema[a].complex        -> new
  <2>3. AddToAttribute(a, old, v) = Done(list)
    BY <1>3 DEF AddToAttribute, w
  <2>4. list \in Good(a)
    <3> HIDE DEF new
    <3>1. CASE Multi(a) /\ (old = <<>> \/ new = <<>>)
      <4>1. list = old \o new
        BY <3>1
      <4>2. old \o new = old \/ old \o new = new
        BY <2>2, <3>1
      <4> HIDE DEF list
      <4> QED BY <4>1, <4>2, <2>1
    <3>2. CASE Multi(a) /\ old # <<>> /\ new # <<>>
      <4>1. list = AppendNew(old, new)
        BY <3>2
      <4> QED BY <4>1, <2>1, <3>2, AppendNewGood
    <3>3. CASE ~Multi(a) /\ Schema[a].complex
      <4>1. list = Merged(old, new)
        BY <3>3
      <4> QED BY <4>1, <2>1, <3>3, MergedGood
    <3>4. CASE ~Multi(a) /\ ~Schema[a].complex
      BY <2>1, <3>4
    <3> QED BY <3>1, <3>2, <3>3, <3>4
  <2> HIDE DEF list
  <2> QED BY <2>3, <2>4 DEF Yields
<1> QED BY <1>2, <1>3

LEMMA ReplaceYields ==
  ASSUME NEW a \in Attrs, NEW old \in Good(a), NEW v \in RawValue
  PROVE  Yields(ReplaceAttribute(a, old, v), a)
<1>1. CASE Multi(a)
  <2>1. Wrap(v) \in RawValue
    BY DEF Wrap, RawValue
  <2>2. Coerce(a, Wrap(v)) # Bad => Coerce(a, Wrap(v)) \in Good(a)
    BY <2>1, Coerced
  <2> QED BY <1>1, <2>2, StoredYields DEF ReplaceAttribute
<1>2. CASE ~Multi(a)
  BY <1>2, AddYields DEF ReplaceAttribute
<1> QED BY <1>1, <1>2

(* Resource.Set through a sub-attribute's path.                            *)
LEMMA SetSubYields ==
  ASSUME NEW a \in Attrs, ~Multi(a), NEW old \in Good(a), NEW s \in SubsOf(a), NEW x
  PROVE  Yields(SetSub(a, old, s, x), a)
<1> DEFINE y == CoerceScalar(a, s, x)
<1>1. CASE y = Bad
  <2>1. SetSub(a, old, s, x) = Fail("invalidValue")
    BY <1>1 DEF SetSub
  <2> QED BY <2>1 DEF Yields, Errors
<1>2. CASE y # Bad
  <2> DEFINE e == IF old = <<>> THEN NoSubs ELSE old[1]
             d == [e EXCEPT ![s] = y]
             list == <<d>>
             places == {i \in DOMAIN list : list[i] # NoSubs}
  <2>1. SetSub(a, old, s, x) = Done(Selected(list, places))
    BY <1>2 DEF SetSub, WithSub, WithoutEmpty
  <2>2. s \in Subs
    BY SchemaFacts
  <2>3. /\ e \in Elem
        /\ \A t \in Subs : e[t] # Nil =>
             t \in SubsOf(a) /\ \E z \in Scalars : e[t] = Convert[Schema[a].subs[t].type][z]
    <3>1. CASE old = <<>>
      BY <3>1 DEF Elem, NoSubs
    <3>2. CASE old # <<>>
      <4>1. old \in Seq(Elem)
        BY DEF Good
      <4>2. 1 \in DOMAIN old
        BY <3>2, <4>1
      <4>3. Fits(a, old[1])
        BY <4>1, <4>2, GoodIs
      <4> QED BY <3>2, <4>3 DEF Fits
    <3> QED BY <3>1, <3>2
  <2>4. /\ y \in Scalars \cup {Nil}
        /\ y # Nil => \E z \in Scalars : y = Convert[Schema[a].subs[s].type][z]
    BY <1>2, CoercedScalar
  <2> HIDE DEF e, y
  <2>5. d \in Elem /\ d[s] = y /\ \A t \in Subs \ {s} : d[t] = e[t]
    BY <2>2, <2>3, <2>4 DEF Elem
  <2> HIDE DEF d
  <2>6. d # NoSubs => Fits(a, d)
    <3>1. ASSUME NEW t \in Subs, d[t] # Nil
          PROVE  t \in SubsOf(a) /\ \E z \in Scalars : d[t] = Convert[Schema[a].subs[t].type][z]
      <4>1. CASE t = s
        BY <4>1, <3>1, <2>4, <2>5
      <4>2. CASE t # s
        BY <4>2, <3>1, <2>3, <2>5
      <4> QED BY <4>1, <4>2
    <3> QED BY <2>5, <3>1 DEF Fits
  <2>7. list \in Seq(Elem) /\ Len(list) = 1 /\ DOMAIN list = {1} /\ list[1] = d
    BY <2>5
  <2>8. \A i, j \in Primaries(list) : i = j
    BY <2>7 DEF Primaries
  <2>9. list \in Seq(Elem) /\ Len(list) <= 1 /\ \A i \in DOMAIN list : i \in places => Fits(a, list[i])
    BY <2>6, <2>7
  <2> HIDE DEF list, places
  <2>10. Selected(list, places) \in Good(a)
    BY <2>8, <2>9, SelectionGood
  <2> QED BY <2>1, <2>10 DEF Yields
<1> QED BY <1>1, <1>2

-----------------------------------------------------------------------------
(* Writes through a value filter.                                          *)

LEMMA ElementsYield ==
  ASSUME NEW a \in Attrs, Multi(a), NEW n \in Nat, NEW list, DOMAIN list = 1..n, NEW keep
  PROVE  Yields(SetElements(a, list), a) /\ Yields(SetElements(a, DemoteOthers(list, keep)), a)
<1>1. ASSUME NEW ats, DOMAIN ats = 1..n PROVE Yields(SetElements(a, ats), a)
  <2>1. CoerceElems(a, ats) # Bad => CoerceElems(a, ats) \in Good(a)
    BY <1>1, CoercedList
  <2> QED BY <2>1, StoredYields DEF SetElements
<1>2. DOMAIN DemoteOthers(list, keep) = 1..n
  BY DEF DemoteOthers
<1> QED BY <1>1, <1>2

LEMMA RefusalsAreErrors ==
  ASSUME NEW R, R \subseteq Errors \cup {Nil}
  PROVE  AnyRefusal(R) \in Errors \cup {Nil}
<1>1. CASE R \subseteq {Nil}
  BY <1>1 DEF AnyRefusal
<1>2. CASE ~(R \subseteq {Nil})
  <2>1. \E r \in R : r # Nil
    BY <1>2
  <2>2. (CHOOSE r \in R : r # Nil) \in R
    BY <2>1
  <2> QED BY <1>2, <2>2 DEF AnyRefusal
<1> QED BY <1>1, <1>2

LEMMA SubRefusalIsError ==
  \A a, s, have, x : SubRefusal(a, s, have, x) \in Errors \cup {Nil}
BY DEF SubRefusal, Errors

LEMMA FailYields ==
  ASSUME NEW a, NEW e \in Errors
  PROVE  Yields(Fail(e), a)
BY DEF Yields

LEMMA WriteYields ==
  ASSUME NEW a \in Attrs, Multi(a), NEW old \in Good(a), NEW hit, NEW s, NEW v
  PROVE  Yields(WriteToElements(a, old, hit, s, v), a)
<1> DEFINE at == IF s = Nil THEN ElementIn(v) ELSE [NoSubs EXCEPT ![s] = ScalarOf(v)]
           new == [i \in DOMAIN old |->
                     IF i \notin hit THEN old[i]
                     ELSE IF s = Nil THEN MergedElem(a, old[i], at) ELSE [old[i] EXCEPT ![s] = at[s]]]
           R == {SubRefusal(a, t, old[i][t], at[t]) : i \in hit, t \in {u \in SubsOf(a) : at[u] # Nil}}
           refused == AnyRefusal(R)
<1>1. WriteToElements(a, old, hit, s, v) =
        IF at = Bad THEN Fail("invalidValue")
        ELSE IF refused # Nil THEN Fail(refused) ELSE SetElements(a, DemoteOthers(new, hit))
  BY DEF WriteToElements
<1>2. refused \in Errors \cup {Nil}
  <2>1. R \subseteq Errors \cup {Nil}
    <3> HIDE DEF at
    <3> QED BY SubRefusalIsError
  <2> HIDE DEF R
  <2> QED BY <2>1, RefusalsAreErrors
<1>3. DOMAIN new = 1..Len(old) /\ Len(old) \in Nat
  <2>1. old \in Seq(Elem)
    BY DEF Good
  <2>2. DOMAIN new = DOMAIN old
    OBVIOUS
  <2> HIDE DEF new
  <2> QED BY <2>1, <2>2
<1> HIDE DEF at, new, R, refused
<1>4. Yields(SetElements(a, DemoteOthers(new, hit)), a)
  BY <1>3, ElementsYield
<1>5. "invalidValue" \in Errors
  BY DEF Errors
<1> QED BY <1>1, <1>2, <1>4, <1>5, FailYields

LEMMA ReplaceElementsYield ==
  ASSUME NEW a \in Attrs, Multi(a), NEW old \in Good(a), NEW hit, NEW v
  PROVE  Yields(ReplaceElements(a, old, hit, v), a)
<1> DEFINE at == ElementIn(v)
           R == {SubRefusal(a, t, old[i][t], at[t]) : i \in hit, t \in SubsOf(a)}
           refused == AnyRefusal(R)
           new == [i \in DOMAIN old |-> IF i \in hit THEN at ELSE old[i]]
<1>1. ReplaceElements(a, old, hit, v) =
        IF at = Bad THEN Fail("invalidValue")
        ELSE IF refused # Nil THEN Fail(refused) ELSE SetElements(a, DemoteOthers(new, hit))
  BY DEF ReplaceElements
<1>2. refused \in Errors \cup {Nil}
  <2>1. R \subseteq Errors \cup {Nil}
    <3> HIDE DEF at
    <3> QED BY SubRefusalIsError
  <2> HIDE DEF R
  <2> QED BY <2>1, RefusalsAreErrors
<1>3. DOMAIN new = 1..Len(old) /\ Len(old) \in Nat
  <2>1. old \in Seq(Elem)
    BY DEF Good
  <2>2. DOMAIN new = DOMAIN old
    OBVIOUS
  <2> HIDE DEF new
  <2> QED BY <2>1, <2>2
<1> HIDE DEF at, new, R, refused
<1>4. Yields(SetElements(a, DemoteOthers(new, hit)), a)
  BY <1>3, ElementsYield
<1>5. "invalidValue" \in Errors
  BY DEF Errors
<1> QED BY <1>1, <1>2, <1>4, <1>5, FailYields

LEMMA SynthesizeYields ==
  ASSUME NEW a \in Attrs, Multi(a), NEW old \in Good(a), NEW f, NEW s, NEW v
  PROVE  Yields(Synthesize(a, old, f, s, v), a)
<1> DEFINE seed == [t \in Subs |-> IF f.eqs[t] = Null THEN Nil ELSE f.eqs[t]]
           at == ElementIn(v)
           new == IF s # Nil THEN [seed EXCEPT ![s] = ScalarOf(v)]
                  ELSE [t \in Subs |-> IF at[t] # Nil THEN at[t] ELSE seed[t]]
           list == Append(old, new)
           keep == {Len(old) + 1}
<1>1. Synthesize(a, old, f, s, v) =
        IF f.negated THEN Fail("noTarget")
        ELSE IF s = Nil /\ at = Bad THEN Fail("invalidValue")
        ELSE SetElements(a, DemoteOthers(list, keep))
  BY DEF Synthesize
<1> HIDE DEF new, at, keep
<1>2. DOMAIN list = 1..(Len(old) + 1) /\ Len(old) + 1 \in Nat
  <2>1. old \in Seq(Elem)
    BY DEF Good
  <2> QED BY <2>1
<1> HIDE DEF list
<1>3. Yields(SetElements(a, DemoteOthers(list, keep)), a)
  BY <1>2, ElementsYield
<1>4. "invalidValue" \in Errors /\ "noTarget" \in Errors
  BY DEF Errors
<1> QED BY <1>1, <1>3, <1>4, FailYields

LEMMA RemoveYields ==
  ASSUME NEW a \in Attrs, Multi(a), NEW old \in Good(a), NEW f
  PROVE  Yields(RemoveElements(a, old, f), a)
<1> DEFINE places == DOMAIN old \ Matches(f, old)
           kept == Selected(old, places)
<1>1. RemoveElements(a, old, f) =
        IF Schema[a].required /\ kept = <<>> THEN Fail("mutability") ELSE Done(kept)
  BY DEF RemoveElements
<1> HIDE DEF places
<1>2. kept \in Good(a)
  <2>1. old \in Seq(Elem)
    BY DEF Good
  <2>2. /\ \A i \in DOMAIN old : Fits(a, old[i])
        /\ \A i, j \in Primaries(old) : i = j
    BY <2>1, GoodIs
  <2>3. \A i \in DOMAIN old : i \in places => Fits(a, old[i])
    BY <2>2
  <2> QED BY <2>1, <2>2, <2>3, SelectionGood
<1> HIDE DEF kept
<1>3. "mutability" \in Errors
  BY DEF Errors
<1> QED BY <1>1, <1>2, <1>3 DEF Yields

LEMMA RemoveSubYields ==
  ASSUME NEW a \in Attrs, Multi(a), NEW old \in Good(a), NEW hit, NEW s
  PROVE  Yields(RemoveSub(a, old, hit, s), a)
<1> DEFINE new == [i \in DOMAIN old |-> IF i \in hit THEN [old[i] EXCEPT ![s] = Nil] ELSE old[i]]
<1>1. RemoveSub(a, old, hit, s) = Fail("mutability") \/ RemoveSub(a, old, hit, s) = SetElements(a, new)
  BY DEF RemoveSub
<1>2. DOMAIN new = 1..Len(old) /\ Len(old) \in Nat
  <2>1. old \in Seq(Elem)
    BY DEF Good
  <2>2. DOMAIN new = DOMAIN old
    OBVIOUS
  <2> HIDE DEF new
  <2> QED BY <2>1, <2>2
<1> HIDE DEF new
<1>3. Yields(SetElements(a, new), a)
  BY <1>2, ElementsYield
<1>4. "mutability" \in Errors
  BY DEF Errors
<1> QED BY <1>1, <1>3, <1>4, FailYields

LEMMA FilteredYields ==
  ASSUME NEW a \in Attrs, NEW op, NEW old \in Good(a), NEW prof
  PROVE  Yields(ApplyFiltered(a, op, old, prof), a)
<1> DEFINE hit == Matches(op.path.filter, old)
           s == op.path.sub
           r == ApplyFiltered(a, op, old, prof)
<1>1. \/ r = Fail("invalidPath")
      \/ r = Fail("noTarget")
      \/ Multi(a) /\ \/ r = Done(old)
                     \/ r = RemoveSub(a, old, hit, s)
                     \/ r = RemoveElements(a, old, op.path.filter)
                     \/ r = Synthesize(a, old, op.path.filter, s, op.value)
                     \/ r = ReplaceElements(a, old, hit, op.value)
                     \/ r = WriteToElements(a, old, hit, s, op.value)
  BY DEF ApplyFiltered
<1>2. "invalidPath" \in Errors /\ "noTarget" \in Errors
  BY DEF Errors
<1>3. Yields(Fail("invalidPath"), a) /\ Yields(Fail("noTarget"), a)
  BY <1>2, FailYields
<1>4. Yields(Done(old), a)
  BY DEF Yields
<1> HIDE DEF hit, s, r
<1>5. Multi(a) => /\ Yields(RemoveSub(a, old, hit, s), a)
                  /\ Yields(RemoveElements(a, old, op.path.filter), a)
                  /\ Yields(Synthesize(a, old, op.path.filter, s, op.value), a)
                  /\ Yields(ReplaceElements(a, old, hit, op.value), a)
                  /\ Yields(WriteToElements(a, old, hit, s, op.value), a)
  BY RemoveSubYields, RemoveYields, SynthesizeYields, ReplaceElementsYield, WriteYields
<1>6. Yields(r, a)
  BY <1>1, <1>3, <1>4, <1>5
<1> QED BY <1>6 DEF r

-----------------------------------------------------------------------------
(* Whole operations.                                                       *)

(* What a decoded operation carries where it is read.                      *)
Decoded(op) ==
  /\ op.kind \in Kinds
  /\ op.path # Nil /\ op.path.sub = Nil /\ op.path.filter = Nil /\ op.kind # "remove" => op.value \in RawValue
  /\ op.path = Nil /\ op.object # Nil => op.object \in [Attrs -> RawValue \cup {Nil}]

Results == {Done(res) : res \in Resources} \cup {Fail(e) : e \in Errors}

LEMMA ResourceWith ==
  ASSUME NEW res \in Resources, NEW a \in Attrs
  PROVE  /\ res[a] \in Good(a)
         /\ \A list \in Good(a) : [res EXCEPT ![a] = list] \in Resources
<1>1. res \in [Attrs -> Seq(Elem)] /\ \A b \in Attrs : Canonical(b, res[b])
  BY DEF Resources, Elem
<1>2. ASSUME NEW list \in Good(a) PROVE [res EXCEPT ![a] = list] \in Resources
  <2> DEFINE next == [res EXCEPT ![a] = list]
  <2>1. list \in Seq(Elem) /\ Canonical(a, list)
    BY DEF Good
  <2>2. next \in [Attrs -> Seq(Elem)]
    BY <1>1, <2>1
  <2>3. \A b \in Attrs : next[b] = IF b = a THEN list ELSE res[b]
    BY <1>1
  <2> HIDE DEF next
  <2>4. \A b \in Attrs : Canonical(b, next[b])
    BY <1>1, <2>1, <2>3
  <2>5. next \in Resources
    BY <2>2, <2>4 DEF Resources, Elem
  <2> QED BY <2>5 DEF next
<1> QED BY <1>1, <1>2 DEF Good

(* An attribute's new list, or its error, is a resource's.                 *)
LEMMA StoredInResource ==
  ASSUME NEW res \in Resources, NEW a \in Attrs, NEW new, Yields(new, a)
  PROVE  (IF ~new.ok THEN new ELSE Done([res EXCEPT ![a] = new.val])) \in Results
<1>1. CASE \E list \in Good(a) : new = Done(list)
  <2>1. PICK list \in Good(a) : new = Done(list)
    BY <1>1
  <2>2. [res EXCEPT ![a] = list] \in Resources
    BY ResourceWith
  <2>3. new.ok /\ new.val = list
    BY <2>1, Outcomes
  <2> QED BY <2>2, <2>3 DEF Results
<1>2. CASE \E e \in Errors : new = Fail(e)
  <2>1. PICK e \in Errors : new = Fail(e)
    BY <1>2
  <2>2. ~new.ok
    BY <2>1, Outcomes
  <2> QED BY <2>1, <2>2 DEF Results
<1> QED BY <1>1, <1>2 DEF Yields

LEMMA ImmutableRefusalIsError ==
  \A a, kind, old, v : ImmutableRefusal(a, kind, old, v) \in Errors \cup {Nil}
BY DEF ImmutableRefusal, Errors

LEMMA TargetRefusalIsError ==
  ASSUME NEW op, NEW res
  PROVE  TargetRefusal(op, res) \in Errors \cup {Nil}
<1>1. \A a, old : MutableRefusal(a, op, old) \in Errors \cup {Nil}
  BY ImmutableRefusalIsError, SubRefusalIsError DEF MutableRefusal, Errors
<1>2. "invalidPath" \in Errors
  BY DEF Errors
<1> QED BY <1>1, <1>2 DEF TargetRefusal

(* What an operation with a path may do once nothing refuses it.           *)
LEMMA Targeted ==
  ASSUME NEW op, NEW res, TargetRefusal(op, res) = Nil
  PROVE  /\ op.path.attr \in Attrs
         /\ op.path.sub # Nil => op.path.sub \in SubsOf(op.path.attr)
         /\ op.path.sub # Nil /\ op.path.filter = Nil => ~Multi(op.path.attr)
         /\ MutableRefusal(op.path.attr, op, res[op.path.attr]) = Nil
<1>1. Nil # "invalidPath"
  BY ApplyAssumption DEF Errors
<1>2. /\ Resolves(op.path)
      /\ ~(Multi(op.path.attr) /\ op.path.sub # Nil /\ op.path.filter = Nil)
      /\ MutableRefusal(op.path.attr, op, res[op.path.attr]) = Nil
  BY <1>1 DEF TargetRefusal
<1> QED BY <1>2 DEF Resolves

(* What ApplyPathed stores of its attribute.                               *)
Pathed(op, res, prof) ==
  LET a == op.path.attr  s == op.path.sub
  IN  CASE op.path.filter # Nil -> ApplyFiltered(a, op, res[a], prof)
        [] op.path.filter = Nil /\ s # Nil ->
             SetSub(a, res[a], s, IF op.kind = "remove" THEN Nil ELSE ScalarOf(op.value))
        [] op.path.filter = Nil /\ s = Nil ->
             CASE op.kind = "add"     -> AddToAttribute(a, res[a], op.value)
               [] op.kind = "replace" -> ReplaceAttribute(a, res[a], op.value)
               [] op.kind = "remove"  -> Done(<<>>)

LEMMA PathedYields ==
  ASSUME NEW op, Decoded(op), op.path # Nil, NEW res \in Resources, NEW prof, TargetRefusal(op, res) = Nil
  PROVE  Yields(Pathed(op, res, prof), op.path.attr)
<1> DEFINE a == op.path.attr
           s == op.path.sub
           new == Pathed(op, res, prof)
<1>1. a \in Attrs /\ (s # Nil => s \in SubsOf(a)) /\ (s # Nil /\ op.path.filter = Nil => ~Multi(a))
  BY Targeted
<1>2. res[a] \in Good(a)
  BY <1>1, ResourceWith
<1>3. CASE op.path.filter # Nil
  <2>1. new = ApplyFiltered(a, op, res[a], prof)
    BY <1>3 DEF Pathed
  <2> HIDE DEF a, new
  <2>2. Yields(new, a)
    BY <2>1, <1>1, <1>2, FilteredYields
  <2> QED BY <2>2 DEF a, new
<1>4. CASE op.path.filter = Nil /\ s # Nil
  <2> DEFINE x == IF op.kind = "remove" THEN Nil ELSE ScalarOf(op.value)
  <2>1. new = SetSub(a, res[a], s, x)
    BY <1>4 DEF Pathed
  <2> HIDE DEF a, new, s, x
  <2>2. Yields(new, a)
    BY <2>1, <1>1, <1>2, <1>4, SetSubYields
  <2> QED BY <2>2 DEF a, new
<1>5. CASE op.path.filter = Nil /\ s = Nil
  <2>1. op.kind \in {"add", "remove", "replace"} /\ (op.kind # "remove" => op.value \in RawValue)
    BY <1>5 DEF Decoded, Kinds
  <2>2. new = CASE op.kind = "add"     -> AddToAttribute(a, res[a], op.value)
                [] op.kind = "replace" -> ReplaceAttribute(a, res[a], op.value)
                [] op.kind = "remove"  -> Done(<<>>)
    BY <1>5 DEF Pathed
  <2> HIDE DEF a, new, s
  <2>3. CASE op.kind = "add"
    BY <2>1, <2>2, <2>3, <1>1, <1>2, AddYields DEF a, new
  <2>4. CASE op.kind = "replace"
    BY <2>1, <2>2, <2>4, <1>1, <1>2, ReplaceYields DEF a, new
  <2>5. CASE op.kind = "remove"
    <3>1. new = Done(<<>>)
      BY <2>2, <2>5
    <3>2. Yields(new, a)
      BY <3>1, <1>1, EmptyGood DEF Yields
    <3> QED BY <3>2 DEF a, new
  <2> QED BY <2>1, <2>3, <2>4, <2>5
<1> QED BY <1>3, <1>4, <1>5

LEMMA PathedResult ==
  ASSUME NEW op, Decoded(op), op.path # Nil, NEW res \in Resources, NEW prof
  PROVE  ApplyPathed(op, res, prof) \in Results
<1> DEFINE a == op.path.attr
           new == Pathed(op, res, prof)
           refused == TargetRefusal(op, res)
<1>1. ApplyPathed(op, res, prof) =
        IF refused # Nil THEN Fail(refused) ELSE IF ~new.ok THEN new ELSE Done([res EXCEPT ![a] = new.val])
  BY DEF ApplyPathed, Pathed
<1>2. refused \in Errors \cup {Nil}
  BY TargetRefusalIsError
<1>3. CASE refused # Nil
  <2>1. ApplyPathed(op, res, prof) = Fail(refused) /\ refused \in Errors
    BY <1>1, <1>2, <1>3
  <2> QED BY <2>1 DEF Results
<1>4. CASE refused = Nil
  <2>1. a \in Attrs
    BY <1>4, Targeted
  <2>2. Yields(new, a)
    BY <1>4, PathedYields
  <2> HIDE DEF a, new, refused
  <2> QED BY <1>1, <1>4, <2>1, <2>2, StoredInResource
<1> QED BY <1>3, <1>4

LEMMA KeyResult ==
  ASSUME NEW op, op.object \in [Attrs -> RawValue \cup {Nil}], NEW res \in Resources, NEW a \in Attrs
  PROVE  ApplyKey(op, res, a) \in Results
<1> DEFINE v == op.object[a]
           refused == ImmutableRefusal(a, op.kind, res[a], v)
           new == IF op.kind = "replace" THEN ReplaceAttribute(a, res[a], v) ELSE AddToAttribute(a, res[a], v)
<1>1. ApplyKey(op, res, a) =
        IF v = Nil \/ Schema[a].mutability = "readOnly" THEN Done(res)
        ELSE IF refused # Nil THEN Fail(refused)
        ELSE IF ~new.ok THEN new ELSE Done([res EXCEPT ![a] = new.val])
  BY DEF ApplyKey
<1>2. refused \in Errors \cup {Nil}
  BY ImmutableRefusalIsError
<1>3. v \in RawValue \cup {Nil} /\ res[a] \in Good(a)
  BY ResourceWith
<1> HIDE DEF v, refused
<1>4. v # Nil => Yields(new, a)
  BY <1>3, AddYields, ReplaceYields
<1> HIDE DEF new
<1>5. v # Nil => (IF ~new.ok THEN new ELSE Done([res EXCEPT ![a] = new.val])) \in Results
  BY <1>4, StoredInResource
<1>6. Done(res) \in Results /\ (refused # Nil => Fail(refused) \in Results)
  BY <1>2 DEF Results
<1> QED BY <1>1, <1>5, <1>6

(* addPathless: the keys one after another, up to the first that fails.    *)
KeyByKey(op, res) ==
  FoldLeft(LAMBDA r, a : IF r.ok THEN ApplyKey(op, r.val, a) ELSE r, Done(res), AttrOrder)

KeySteps(n, op) ==
  [k \in 1..n |-> [r \in Results |-> IF r.ok THEN ApplyKey(op, r.val, AttrOrder[k]) ELSE r]]

LEMMA ResultsAre ==
  ASSUME NEW r \in Results
  PROVE  /\ r.ok \in BOOLEAN
         /\ r.ok => r.val \in Resources /\ r = Done(r.val)
         /\ ~r.ok => r.val \in Errors /\ r = Fail(r.val)
<1>1. CASE \E res \in Resources : r = Done(res)
  <2>1. PICK res \in Resources : r = Done(res)
    BY <1>1
  <2> QED BY <2>1, Outcomes
<1>2. CASE \E e \in Errors : r = Fail(e)
  <2>1. PICK e \in Errors : r = Fail(e)
    BY <1>2
  <2> QED BY <2>1, Outcomes
<1>3. (\E res \in Resources : r = Done(res)) \/ (\E e \in Errors : r = Fail(e))
  BY DEF Results
<1> QED BY <1>1, <1>2, <1>3

LEMMA KeyRuns ==
  ASSUME NEW op, op.object \in [Attrs -> RawValue \cup {Nil}], NEW res \in Resources,
         NEW n \in Nat, n = Len(AttrOrder)
  PROVE  \E f : IsRun(f, n, Results, Done(res), KeySteps(n, op)) /\ f[n] = KeyByKey(op, res)
<1> DEFINE g == KeySteps(n, op)
           Solves(iter) == iter = [s \in SUBSET (DOMAIN AttrOrder) |->
                             IF s = {} THEN Done(res)
                             ELSE IF iter[s \ {Max(s)}].ok
                                  THEN ApplyKey(op, iter[s \ {Max(s)}].val, AttrOrder[Max(s)])
                                  ELSE iter[s \ {Max(s)}]]
           iter == CHOOSE iter : Solves(iter)
<1>1. KeyByKey(op, res) = iter[DOMAIN AttrOrder]
  BY DEF KeyByKey, FoldLeft, MapThenFoldSet
<1>2. DOMAIN AttrOrder = 1..n /\ \A k \in 1..n : AttrOrder[k] \in Attrs
  BY ApplyAssumption
<1>3. ASSUME NEW k \in 1..n, NEW r \in Results
      PROVE  /\ g[k][r] = IF r.ok THEN ApplyKey(op, r.val, AttrOrder[k]) ELSE r
             /\ g[k][r] \in Results
  <2>1. g[k][r] = IF r.ok THEN ApplyKey(op, r.val, AttrOrder[k]) ELSE r
    BY DEF KeySteps
  <2> HIDE DEF g
  <2>2. r.ok => ApplyKey(op, r.val, AttrOrder[k]) \in Results
    BY <1>2, ResultsAre, KeyResult
  <2> QED BY <2>1, <2>2
<1>4. g \in Steps(n, Results)
  <2>1. \A k \in 1..n : g[k] = [r \in Results |-> g[k][r]]
    BY DEF KeySteps
  <2>2. g = [k \in 1..n |-> g[k]]
    BY DEF KeySteps
  <2> HIDE DEF g
  <2>3. \A k \in 1..n : g[k] \in [Results -> Results]
    BY <2>1, <1>3
  <2> QED BY <2>2, <2>3 DEF Steps
<1>5. Done(res) \in Results
  BY DEF Results
<1>6. PICK h : IsFold(h, n, Results, Done(res), g)
  <2> HIDE DEF g
  <2> QED BY <1>4, <1>5, FoldExists
<1>7. /\ h \in [SUBSET (1..n) -> Results]
      /\ h[{}] = Done(res)
      /\ \A s \in SUBSET (1..n) : s # {} => h[s] = g[Max(s)][h[s \ {Max(s)}]]
  BY <1>6 DEF IsFold
<1>8. Solves(h)
  <2>1. ASSUME NEW s \in SUBSET (1..n), s # {}
        PROVE  h[s] = IF h[s \ {Max(s)}].ok
                      THEN ApplyKey(op, h[s \ {Max(s)}].val, AttrOrder[Max(s)]) ELSE h[s \ {Max(s)}]
    <3>1. Max(s) \in s
      BY <2>1, LargestOf
    <3>2. Max(s) \in 1..n /\ s \ {Max(s)} \in SUBSET (1..n)
      BY <3>1
    <3>3. h[s \ {Max(s)}] \in Results
      BY <1>7, <3>2
    <3>4. h[s] = g[Max(s)][h[s \ {Max(s)}]]
      BY <1>7, <2>1
    <3> HIDE DEF g
    <3> QED BY <3>2, <3>3, <3>4, <1>3
  <2>2. h = [s \in SUBSET (1..n) |-> h[s]]
    BY <1>7
  <2> HIDE DEF g
  <2> QED BY <1>2, <1>7, <2>1, <2>2
<1>9. Solves(iter)
  <2> HIDE DEF Solves
  <2> QED BY <1>8
<1>10. \A s \in SUBSET (1..n) :
         iter[s] = IF s = {} THEN Done(res)
                   ELSE IF iter[s \ {Max(s)}].ok
                        THEN ApplyKey(op, iter[s \ {Max(s)}].val, AttrOrder[Max(s)])
                        ELSE iter[s \ {Max(s)}]
  <2> HIDE DEF iter
  <2> QED BY <1>2, <1>9
<1>11. iter[{}] = Done(res)
  <2> HIDE DEF iter
  <2> QED BY <1>10
<1>12. ASSUME NEW k \in 1..n, iter[1..(k - 1)] \in Results
       PROVE  iter[1..k] = g[k][iter[1..(k - 1)]]
  <2>1. /\ 1..k \in SUBSET (1..n) /\ 1..k # {}
        /\ Max(1..k) = k /\ (1..k) \ {Max(1..k)} = 1..(k - 1)
    BY LargestOfFirst
  <2>2. g[k][iter[1..(k - 1)]] =
          IF iter[1..(k - 1)].ok THEN ApplyKey(op, iter[1..(k - 1)].val, AttrOrder[k]) ELSE iter[1..(k - 1)]
    <3> HIDE DEF iter, g
    <3> QED BY <1>3, <1>12
  <2> HIDE DEF iter, g
  <2> QED BY <2>1, <2>2, <1>10
<1>13. PICK f : IsRun(f, n, Results, Done(res), g) /\ f[n] = iter[1..n]
  <2> HIDE DEF iter, g
  <2> QED BY <1>4, <1>5, <1>11, <1>12, FoldRuns
<1> HIDE DEF iter
<1> QED BY <1>1, <1>2, <1>13

LEMMA PerformResult ==
  ASSUME NEW op, Decoded(op), NEW res \in Resources, NEW prof
  PROVE  Perform(op, res, prof) \in Results
<1>1. CASE op.path # Nil
  <2>1. Perform(op, res, prof) = ApplyPathed(op, res, prof)
    BY <1>1 DEF Perform
  <2> QED BY <2>1, <1>1, PathedResult
<1>2. CASE op.path = Nil /\ op.kind # "remove" /\ op.object # Nil
  <2> DEFINE n == Len(AttrOrder)
  <2>1. Perform(op, res, prof) = KeyByKey(op, res)
    BY <1>2 DEF Perform, KeyByKey
  <2>2. op.object \in [Attrs -> RawValue \cup {Nil}]
    BY <1>2 DEF Decoded
  <2>3. n \in Nat
    BY ApplyAssumption
  <2>4. PICK f : IsRun(f, n, Results, Done(res), KeySteps(n, op)) /\ f[n] = KeyByKey(op, res)
    BY <2>2, <2>3, KeyRuns
  <2>5. f \in [0..n -> Results] /\ n \in 0..n
    BY <2>3, <2>4 DEF IsRun
  <2> QED BY <2>1, <2>4, <2>5
<1>3. CASE op.path = Nil /\ (op.kind = "remove" \/ op.object = Nil)
  <2>1. Perform(op, res, prof) = Fail("noTarget") \/ Perform(op, res, prof) = Fail("invalidValue")
    BY <1>3 DEF Perform
  <2>2. "noTarget" \in Errors /\ "invalidValue" \in Errors
    BY DEF Errors
  <2> QED BY <2>1, <2>2 DEF Results
<1> QED BY <1>1, <1>2, <1>3

-----------------------------------------------------------------------------
(* Decoding.                                                               *)

DecodedOps ==
  {op \in [kind : Kinds, path : Paths \cup {Nil}, value : RawValue \cup {Nil},
           object : [Attrs -> RawValue \cup {Nil}] \cup {Nil}] :
     op.path # Nil /\ op.kind # "remove" => op.value \in RawValue}

LEMMA DecodedIs == \A op \in DecodedOps : Decoded(op)
BY DEF DecodedOps, Decoded

LEMMA RawElemIs ==
  \A e : e \in RawElem <=> /\ e = [form |-> e.form, at |-> e.at]
                           /\ e.form \in {"null", "scalar", "object"}
                           /\ e.at \in [Subs -> Scalars \cup {Nil, Null}]
                           /\ e.form = "scalar" => e.at["value"] \in Scalars
                           /\ e.form = "null" => e.at["value"] = Nil
                           /\ e.form # "object" => \A s \in Subs \ {"value"} : e.at[s] = Nil
BY DEF RawElem

LEMMA RawValueIs ==
  \A v : v \in RawValue <=> /\ v = [list |-> v.list, elems |-> v.elems]
                            /\ v.list \in BOOLEAN /\ v.elems \in Seq(RawElem)
                            /\ v.list \/ Len(v.elems) = 1
BY DEF RawValue

(* A value of which every element is rewritten by itself.                  *)
LEMMA Rewritten ==
  ASSUME NEW v \in RawValue, NEW es, DOMAIN es = DOMAIN v.elems, es = [i \in DOMAIN v.elems |-> es[i]],
         \A i \in DOMAIN v.elems : v.elems[i] \in RawElem => es[i] \in RawElem,
         NEW b \in BOOLEAN, b \/ Len(v.elems) = 1
  PROVE  [list |-> b, elems |-> es] \in RawValue
<1> DEFINE n == Len(v.elems)
<1>1. v.elems \in Seq(RawElem)
  BY RawValueIs
<1>2. DOMAIN v.elems = 1..n /\ n \in Nat /\ \A i \in 1..n : v.elems[i] \in RawElem
  BY <1>1
<1>3. es = [i \in 1..n |-> es[i]] /\ \A i \in 1..n : es[i] \in RawElem
  BY <1>2
<1>4. es \in Seq(RawElem) /\ Len(es) = n
  BY <1>2, <1>3
<1> HIDE DEF n
<1> DEFINE w == [list |-> b, elems |-> es]
<1>5. w.list = b /\ w.elems = es /\ w = [list |-> w.list, elems |-> w.elems]
  OBVIOUS
<1> HIDE DEF w
<1>6. w \in RawValue
  BY <1>4, <1>5, RawValueIs DEF n
<1> QED BY <1>6 DEF w

LEMMA UnwrappedElem ==
  ASSUME NEW e \in RawElem
  PROVE  UnwrapElem(e) \in RawElem
<1>1. CASE ~Wrapper(e)
  BY <1>1 DEF UnwrapElem
<1>2. CASE Wrapper(e)
  <2> DEFINE at == [NoSubs EXCEPT !["value"] = e.at["value"]]
             d == [form |-> "scalar", at |-> at]
  <2>1. UnwrapElem(e) = d
    BY <1>2 DEF UnwrapElem
  <2>2. "value" \in Subs /\ e.at["value"] \in Scalars
    BY <1>2, DataAssumption DEF Wrapper
  <2>3. /\ at \in [Subs -> Scalars \cup {Nil, Null}] /\ at["value"] = e.at["value"]
        /\ \A s \in Subs \ {"value"} : at[s] = Nil
    BY <2>2 DEF NoSubs
  <2>4. d.form = "scalar" /\ d.at = at /\ d = [form |-> d.form, at |-> d.at]
    OBVIOUS
  <2> HIDE DEF at, d
  <2>5. d \in RawElem
    BY <2>2, <2>3, <2>4, RawElemIs
  <2> QED BY <2>1, <2>5
<1> QED BY <1>1, <1>2

LEMMA Unwrapped ==
  ASSUME NEW path, NEW v \in RawValue
  PROVE  Unwrap(path, v) \in RawValue
<1> DEFINE simple == Resolves(path) /\ (path.sub # Nil \/ ~Schema[path.attr].complex)
           each == [i \in DOMAIN v.elems |-> UnwrapElem(v.elems[i])]
           single == Multi(path.attr) /\ path.sub = Nil
           b == v.list /\ (Len(v.elems) # 1 \/ single)
<1>1. CASE ~simple
  BY <1>1 DEF Unwrap
<1>2. CASE simple
  <2>1. Unwrap(path, v) =
          [list |-> b, elems |-> IF v.list /\ Len(v.elems) # 1 /\ ~single THEN v.elems ELSE each]
    BY <1>2 DEF Unwrap
  <2>2. v.list \in BOOLEAN /\ v.elems \in Seq(RawElem) /\ (v.list \/ Len(v.elems) = 1)
    BY RawValueIs
  <2>3. b \in BOOLEAN /\ (b \/ Len(v.elems) = 1)
    BY <2>2 DEF Multi
  <2>4. [list |-> b, elems |-> each] \in RawValue
    <3>1. DOMAIN each = DOMAIN v.elems /\ each = [i \in DOMAIN v.elems |-> each[i]]
      OBVIOUS
    <3>2. \A i \in DOMAIN v.elems : v.elems[i] \in RawElem => each[i] \in RawElem
      BY UnwrappedElem
    <3> HIDE DEF each, b
    <3> QED BY <3>1, <3>2, <2>3, Rewritten
  <2>5. [list |-> b, elems |-> v.elems] \in RawValue
    <3>1. v.elems = [i \in DOMAIN v.elems |-> v.elems[i]]
      BY <2>2
    <3> HIDE DEF b
    <3> QED BY <3>1, <2>3, Rewritten
  <2> HIDE DEF b, each, single
  <2> QED BY <2>1, <2>4, <2>5
<1> QED BY <1>1, <1>2

LEMMA UnquotedIs ==
  ASSUME NEW a \in Attrs, NEW s \in SubsOf(a), NEW x
  PROVE  /\ x \in Scalars => Unquoted(a, s, x) \in Scalars
         /\ x \notin Scalars => Unquoted(a, s, x) = x
<1>1. Schema[a].subs[s].type \in Types
  BY SchemaFacts
<1> QED BY <1>1, DecodeAssumption DEF Unquoted

LEMMA UnquotedElem ==
  ASSUME NEW a \in Attrs, NEW e \in RawElem
  PROVE  UnquoteElem(a, e) \in RawElem
<1> DEFINE at == [s \in Subs |-> IF s \in SubsOf(a) THEN Unquoted(a, s, e.at[s]) ELSE e.at[s]]
           d == UnquoteElem(a, e)
<1>1. /\ e = [form |-> e.form, at |-> e.at] /\ e.form \in {"null", "scalar", "object"}
      /\ e.at \in [Subs -> Scalars \cup {Nil, Null}]
      /\ e.form = "scalar" => e.at["value"] \in Scalars
      /\ e.form = "null" => e.at["value"] = Nil
      /\ e.form # "object" => \A s \in Subs \ {"value"} : e.at[s] = Nil
  BY RawElemIs
<1>2. "value" \in Subs /\ Nil \notin Scalars
  BY DataAssumption
<1>3. \A s \in Subs : /\ e.at[s] \in Scalars => at[s] \in Scalars
                      /\ e.at[s] \notin Scalars => at[s] = e.at[s]
  <2>1. \A s \in Subs : at[s] = IF s \in SubsOf(a) THEN Unquoted(a, s, e.at[s]) ELSE e.at[s]
    OBVIOUS
  <2> HIDE DEF at
  <2> QED BY <2>1, UnquotedIs
<1>4. at = [s \in Subs |-> at[s]]
  OBVIOUS
<1>5. d.form = e.form /\ d.at = at /\ d = [form |-> d.form, at |-> d.at]
  BY <1>1 DEF UnquoteElem
<1> HIDE DEF at, d
<1>6. at \in [Subs -> Scalars \cup {Nil, Null}]
  BY <1>1, <1>3, <1>4
<1>7. /\ e.form = "scalar" => at["value"] \in Scalars
      /\ e.form = "null" => at["value"] = Nil
      /\ e.form # "object" => \A s \in Subs \ {"value"} : at[s] = Nil
  BY <1>1, <1>2, <1>3
<1>8. d \in RawElem
  BY <1>1, <1>5, <1>6, <1>7, RawElemIs
<1> QED BY <1>8 DEF d

LEMMA UnquotedValue ==
  ASSUME NEW a \in Attrs, NEW s, s = Nil \/ s \in SubsOf(a), NEW v \in RawValue, v # Nil
  PROVE  UnquoteValue(a, s, v) \in RawValue
<1> DEFINE Plain(e) == [e EXCEPT !.at["value"] = Unquoted(a, s, e.at["value"])]
           es == [i \in DOMAIN v.elems |-> IF s = Nil THEN UnquoteElem(a, v.elems[i]) ELSE Plain(v.elems[i])]
<1>1. /\ v = [list |-> v.list, elems |-> v.elems]
      /\ v.list \in BOOLEAN /\ (v.list \/ Len(v.elems) = 1)
  BY RawValueIs
<1>2. UnquoteValue(a, s, v) = [list |-> v.list, elems |-> es]
  BY <1>1 DEF UnquoteValue
<1>3. ASSUME NEW e \in RawElem, s # Nil PROVE Plain(e) \in RawElem
  <2> DEFINE d == Plain(e)
  <2>1. /\ e = [form |-> e.form, at |-> e.at] /\ e.form \in {"null", "scalar", "object"}
        /\ e.at \in [Subs -> Scalars \cup {Nil, Null}]
        /\ e.form = "scalar" => e.at["value"] \in Scalars
        /\ e.form = "null" => e.at["value"] = Nil
        /\ e.form # "object" => \A t \in Subs \ {"value"} : e.at[t] = Nil
    BY RawElemIs
  <2>2. "value" \in Subs /\ Nil \notin Scalars
    BY DataAssumption
  <2> DEFINE x == Unquoted(a, s, e.at["value"])
             at == [e.at EXCEPT !["value"] = x]
  <2>3. d.form = e.form /\ d.at = at /\ d = [form |-> d.form, at |-> d.at]
    BY <2>1
  <2>4. /\ e.at["value"] \in Scalars => x \in Scalars
        /\ e.at["value"] \notin Scalars => x = e.at["value"]
    BY <1>3, UnquotedIs
  <2> HIDE DEF x, d
  <2>5. /\ at \in [Subs -> Scalars \cup {Nil, Null}] /\ at["value"] = x
        /\ \A t \in Subs \ {"value"} : at[t] = e.at[t]
    BY <2>1, <2>2, <2>4
  <2> HIDE DEF at
  <2>6. /\ e.form = "scalar" => at["value"] \in Scalars
        /\ e.form = "null" => at["value"] = Nil
        /\ e.form # "object" => \A t \in Subs \ {"value"} : at[t] = Nil
    BY <2>1, <2>2, <2>4, <2>5
  <2>7. d \in RawElem
    BY <2>1, <2>3, <2>5, <2>6, RawElemIs
  <2> QED BY <2>7 DEF d
<1>4. \A i \in DOMAIN v.elems : v.elems[i] \in RawElem => es[i] \in RawElem
  <2>1. \A i \in DOMAIN v.elems : es[i] = IF s = Nil THEN UnquoteElem(a, v.elems[i]) ELSE Plain(v.elems[i])
    OBVIOUS
  <2> HIDE DEF es, Plain
  <2> QED BY <2>1, <1>3, UnquotedElem
<1>5. DOMAIN es = DOMAIN v.elems /\ es = [i \in DOMAIN v.elems |-> es[i]]
  OBVIOUS
<1> HIDE DEF es
<1>6. [list |-> v.list, elems |-> es] \in RawValue
  BY <1>1, <1>4, <1>5, Rewritten
<1> QED BY <1>2, <1>6

LEMMA OpIs ==
  ASSUME NEW kind \in Kinds, NEW path \in Paths \cup {Nil}, NEW value \in RawValue \cup {Nil},
         NEW object \in [Attrs -> RawValue \cup {Nil}] \cup {Nil},
         path # Nil /\ kind # "remove" => value \in RawValue
  PROVE  Op(kind, path, value, object) \in DecodedOps
BY DEF Op, DecodedOps

LEMMA DecodedOpIs ==
  ASSUME NEW op \in DecodedOps
  PROVE  /\ op.kind \in Kinds /\ op.path \in Paths \cup {Nil} /\ op.value \in RawValue \cup {Nil}
         /\ op.object \in [Attrs -> RawValue \cup {Nil}] \cup {Nil}
         /\ op.path # Nil /\ op.kind # "remove" => op.value \in RawValue
         /\ op = Op(op.kind, op.path, op.value, op.object)
BY DEF Op, DecodedOps

LEMMA TypedIs ==
  ASSUME NEW op \in DecodedOps
  PROVE  Typed(op) \in DecodedOps
<1> DEFINE object == [a \in Attrs |-> UnquoteValue(a, Nil, op.object[a])]
           value == UnquoteValue(op.path.attr, op.path.sub, Unwrap(op.path, op.value))
<1>1. /\ op.kind \in Kinds /\ op.path \in Paths \cup {Nil} /\ op.value \in RawValue \cup {Nil}
      /\ op.object \in [Attrs -> RawValue \cup {Nil}] \cup {Nil}
      /\ op.path # Nil /\ op.kind # "remove" => op.value \in RawValue
      /\ op = Op(op.kind, op.path, op.value, op.object)
  BY DecodedOpIs
<1>2. CASE op.kind # "remove" /\ op.path = Nil /\ op.object # Nil
  <2>1. [op EXCEPT !.object = object] = Op(op.kind, op.path, op.value, object)
    <3> HIDE DEF object
    <3> QED BY <1>1 DEF Op
  <2>2. Typed(op) = Op(op.kind, op.path, op.value, object)
    BY <1>2, <2>1 DEF Typed
  <2>3. object \in [Attrs -> RawValue \cup {Nil}]
    <3>1. ASSUME NEW a \in Attrs PROVE UnquoteValue(a, Nil, op.object[a]) \in RawValue \cup {Nil}
      <4>1. op.object[a] \in RawValue \cup {Nil}
        BY <1>1, <1>2
      <4>2. CASE op.object[a] = Nil
        BY <4>2 DEF UnquoteValue
      <4>3. CASE op.object[a] # Nil
        BY <4>1, <4>3, UnquotedValue
      <4> QED BY <4>2, <4>3
    <3> QED BY <3>1
  <2> HIDE DEF object, value
  <2>4. object \in [Attrs -> RawValue \cup {Nil}] \cup {Nil}
    BY <2>3
  <2>5. Op(op.kind, op.path, op.value, object) \in DecodedOps
    BY <1>1, <1>2, <2>4, OpIs
  <2> QED BY <2>2, <2>5
<1>3. CASE op.kind # "remove" /\ op.path # Nil /\ Resolves(op.path)
  <2>1. [op EXCEPT !.value = value] = Op(op.kind, op.path, value, op.object)
    <3> HIDE DEF value
    <3> QED BY <1>1 DEF Op
  <2>2. Typed(op) = Op(op.kind, op.path, value, op.object)
    BY <1>3, <2>1 DEF Typed
  <2>3. op.path.attr \in Attrs /\ (op.path.sub = Nil \/ op.path.sub \in SubsOf(op.path.attr))
    BY <1>3 DEF Resolves
  <2>4. Unwrap(op.path, op.value) \in RawValue
    BY <1>1, <1>3, Unwrapped
  <2>5. value \in RawValue \cup {Nil}
    <3>1. CASE Unwrap(op.path, op.value) = Nil
      BY <3>1 DEF UnquoteValue
    <3>2. CASE Unwrap(op.path, op.value) # Nil
      BY <3>2, <2>3, <2>4, UnquotedValue
    <3> QED BY <3>1, <3>2
  <2>6. Unwrap(op.path, op.value) = Nil => value \in RawValue
    BY <2>4 DEF UnquoteValue
  <2>7. Unwrap(op.path, op.value) # Nil => value \in RawValue
    BY <2>3, <2>4, UnquotedValue
  <2> HIDE DEF value
  <2> QED BY <1>1, <1>3, <2>2, <2>5, <2>6, <2>7, OpIs
<1>4. CASE \/ op.kind = "remove"
           \/ op.path = Nil /\ op.object = Nil
           \/ op.path # Nil /\ ~Resolves(op.path)
  BY <1>4 DEF Typed
<1> QED BY <1>2, <1>3, <1>4

LEMMA RawOpIs ==
  ASSUME NEW raw \in RawOps
  PROVE  /\ raw.path \in Paths \cup {Nil, Malformed} /\ raw.value \in RawValue \cup {Nil}
         /\ raw.object \in [Attrs -> RawValue \cup {Nil}] \cup {Nil}
         /\ raw.flat \in Seq([path : Paths, value : RawValue])
         /\ raw.object # Nil => raw.path = Nil /\ raw.value = Nil
         /\ raw = RawOp(raw.kind, raw.exact, raw.path, raw.value, raw.object, raw.flat)
         /\ raw.kind \in STRING /\ raw.exact \in BOOLEAN
BY DEF RawOps, RawOp

LEMMA RawOpOf ==
  ASSUME NEW kind \in STRING, NEW exact \in BOOLEAN, NEW path \in Paths \cup {Nil, Malformed},
         NEW value \in RawValue \cup {Nil}, NEW object \in [Attrs -> RawValue \cup {Nil}] \cup {Nil},
         NEW flat \in Seq([path : Paths, value : RawValue]),
         object # Nil => path = Nil /\ value = Nil
  PROVE  RawOp(kind, exact, path, value, object, flat) \in RawOps
BY DEF RawOps, RawOp

LEMMA RemovesSelected ==
  ASSUME NEW raw, raw.path \in Paths \cup {Nil}, raw.value \in RawValue
  PROVE  \/ RewriteRemove(raw) \in {Fail(e) : e \in Errors}
         \/ \E list \in Seq(DecodedOps) : RewriteRemove(raw) = Done(list)
<1> DEFINE es == raw.value.elems
           Selected1(i) == Op("remove", [raw.path EXCEPT !.filter = [eqs |-> SelectorOf(es[i]), negated |-> FALSE]],
                              Nil, Nil)
           list == [i \in DOMAIN es |-> Selected1(i)]
<1>1. \/ RewriteRemove(raw) = Fail("invalidPath")
      \/ RewriteRemove(raw) = Fail("invalidValue")
      \/ raw.path # Nil /\ RewriteRemove(raw) = Done(list)
  BY DEF RewriteRemove
<1>2. "invalidPath" \in Errors /\ "invalidValue" \in Errors
  BY DEF Errors
<1>3. raw.path # Nil => list \in Seq(DecodedOps)
  <2> SUFFICES ASSUME raw.path # Nil PROVE list \in Seq(DecodedOps)
    OBVIOUS
  <2>1. es \in Seq(RawElem)
    BY RawValueIs
  <2>2. DOMAIN es = 1..Len(es) /\ Len(es) \in Nat /\ \A i \in DOMAIN es : es[i] \in RawElem
    BY <2>1
  <2>3. ASSUME NEW i \in DOMAIN es PROVE Selected1(i) \in DecodedOps
    <3> DEFINE sel == SelectorOf(es[i])
               f == [eqs |-> sel, negated |-> FALSE]
               path == [raw.path EXCEPT !.filter = f]
    <3>1. es[i].at \in [Subs -> Scalars \cup {Nil, Null}]
      BY <2>2, RawElemIs
    <3>2. sel \in [Subs -> Scalars \cup {Nil, Null}]
      BY <3>1 DEF SelectorOf
    <3> HIDE DEF sel
    <3>3. f \in Filter
      BY <3>2 DEF Filter
    <3> HIDE DEF f
    <3>4. path \in Paths
      BY <3>3 DEF Paths
    <3>5. "remove" \in Kinds
      BY DEF Kinds
    <3> HIDE DEF path
    <3>6. Op("remove", path, Nil, Nil) \in DecodedOps
      BY <3>4, <3>5, OpIs
    <3> QED BY <3>6 DEF path, f, sel
  <2>4. \A i \in DOMAIN es : list[i] = Selected1(i)
    OBVIOUS
  <2>5. list = [i \in 1..Len(es) |-> list[i]]
    BY <2>2
  <2> HIDE DEF list, Selected1
  <2>6. \A i \in 1..Len(es) : list[i] \in DecodedOps
    BY <2>2, <2>3, <2>4
  <2> QED BY <2>2, <2>5, <2>6
<1> HIDE DEF list
<1> QED BY <1>1, <1>2, <1>3

LEMMA BuildRefusalIsError ==
  \A raw, prof : BuildRefusal(raw, prof) \in Errors \cup {Nil}
BY DEF BuildRefusal, Errors

LEMMA BuildIs ==
  ASSUME NEW raw \in RawOps, NEW prof
  PROVE  /\ BuildRefusal(raw, prof) # Nil => Build(raw, prof) \in {Fail(e) : e \in Errors}
         /\ \/ Build(raw, prof) \in {Fail(e) : e \in Errors}
            \/ \E list \in Seq(DecodedOps) : Build(raw, prof) = Done(list)
<1> DEFINE refused == BuildRefusal(raw, prof)
           op == Op(raw.kind, raw.path, IF raw.kind = "remove" THEN Nil ELSE raw.value, raw.object)
           d == IF prof.CoerceStringPrimitives THEN Typed(op) ELSE op
<1>1. refused \in Errors \cup {Nil}
  BY BuildRefusalIsError
<1>2. CASE refused # Nil
  <2>1. Build(raw, prof) = Fail(refused) /\ refused \in Errors
    BY <1>1, <1>2 DEF Build
  <2> QED BY <2>1
<1>3. CASE refused = Nil
  <2>1. /\ raw.path \in Paths \cup {Nil, Malformed} /\ raw.value \in RawValue \cup {Nil}
        /\ raw.object \in [Attrs -> RawValue \cup {Nil}] \cup {Nil}
        /\ raw.object # Nil => raw.path = Nil /\ raw.value = Nil
    BY RawOpIs
  <2>2. Nil \notin Errors
    BY ApplyAssumption
  <2>3. /\ raw.kind \in Kinds /\ raw.path # Malformed
        /\ raw.kind # "remove" => HasValue(raw)
    BY <1>3, <2>2 DEF BuildRefusal, Errors, KindKnown
  <2>4. raw.path \in Paths \cup {Nil}
    BY <2>1, <2>3
  <2>5. raw.path # Nil /\ raw.kind # "remove" => raw.value \in RawValue
    BY <2>1, <2>3 DEF HasValue
  <2>6. CASE raw.kind = "remove" /\ raw.value # Nil /\ ~IsNull(raw.value)
    <3>1. Build(raw, prof) = RewriteRemove(raw)
      BY <1>3, <2>6 DEF Build
    <3>2. raw.value \in RawValue
      BY <2>1, <2>6
    <3> QED BY <1>3, <3>1, <3>2, <2>4, RemovesSelected
  <2>7. CASE ~(raw.kind = "remove" /\ raw.value # Nil /\ ~IsNull(raw.value))
    <3>1. Build(raw, prof) = Done(<<d>>)
      BY <1>3, <2>7 DEF Build
    <3>2. op \in DecodedOps
      <4> DEFINE value == IF raw.kind = "remove" THEN Nil ELSE raw.value
      <4>1. value \in RawValue \cup {Nil} /\ (raw.path # Nil /\ raw.kind # "remove" => value \in RawValue)
        BY <2>1, <2>5
      <4> HIDE DEF value
      <4>2. Op(raw.kind, raw.path, value, raw.object) \in DecodedOps
        BY <2>1, <2>3, <2>4, <4>1, OpIs
      <4> QED BY <4>2 DEF value
    <3> HIDE DEF op
    <3>3. d \in DecodedOps
      BY <3>2, TypedIs
    <3> HIDE DEF d
    <3>4. <<d>> \in Seq(DecodedOps)
      BY <3>3
    <3> QED BY <1>3, <3>1, <3>4
  <2> QED BY <2>6, <2>7
<1> QED BY <1>2, <1>3

LEMMA ExpandIs ==
  ASSUME NEW raw \in RawOps, NEW prof
  PROVE  Expand(raw, prof) \in Seq(RawOps)
<1> DEFINE own == ContainerKey(raw)
           keys == own \o raw.flat
           plain == [a \in Attrs |-> IF Schema[a].ext /\ own # <<>> THEN Nil ELSE raw.object[a]]
           Pathed1(k) == RawOp(raw.kind, raw.exact, k.path, k.value, Nil, <<>>)
           rest == RawOp(raw.kind, raw.exact, Nil, Nil, plain, <<>>)
           first == IF plain = [a \in Attrs |-> Nil] THEN <<>> ELSE <<rest>>
           others == [i \in DOMAIN keys |-> Pathed1(keys[i])]
           Keys == [path : Paths, value : RawValue]
<1>1. /\ raw.path \in Paths \cup {Nil, Malformed} /\ raw.value \in RawValue \cup {Nil}
      /\ raw.object \in [Attrs -> RawValue \cup {Nil}] \cup {Nil}
      /\ raw.flat \in Seq(Keys)
      /\ raw.object # Nil => raw.path = Nil /\ raw.value = Nil
      /\ raw = RawOp(raw.kind, raw.exact, raw.path, raw.value, raw.object, raw.flat)
      /\ raw.kind \in STRING /\ raw.exact \in BOOLEAN
  BY RawOpIs
<1>2. CASE Expand(raw, prof) = <<raw>>
  BY <1>2
<1>3. CASE Expand(raw, prof) # <<raw>>
  <2>1. Expand(raw, prof) = first \o others /\ raw.object # Nil
    BY <1>3 DEF Expand
  <2>2. EmptyObject \in RawValue
    <3> DEFINE e == [form |-> "object", at |-> NoSubs]
    <3>1. e.form = "object" /\ e.at = NoSubs /\ e = [form |-> e.form, at |-> e.at]
      OBVIOUS
    <3>2. NoSubs \in [Subs -> Scalars \cup {Nil, Null}]
      BY DEF NoSubs
    <3> HIDE DEF e
    <3>3. e \in RawElem
      BY <3>1, <3>2, RawElemIs
    <3>4. EmptyObject = [list |-> FALSE, elems |-> <<e>>]
      BY DEF EmptyObject, e
    <3>5. EmptyObject.list = FALSE /\ EmptyObject.elems = <<e>>
      BY <3>4
    <3>6. EmptyObject.elems \in Seq(RawElem) /\ Len(EmptyObject.elems) = 1
      BY <3>3, <3>5
    <3> QED BY <3>4, <3>5, <3>6, RawValueIs
  <2>3. own \in Seq(Keys)
    <3> DEFINE key == [path |-> PathOf(Container, Nil, Nil), value |-> EmptyObject]
    <3>1. PathOf(Container, Nil, Nil) \in Paths
      BY DEF PathOf, Paths
    <3>2. key \in Keys
      BY <3>1, <2>2
    <3>3. own = <<>> \/ own = <<key>>
      BY DEF ContainerKey
    <3>4. <<>> \in Seq(Keys)
      OBVIOUS
    <3> HIDE DEF key, own, Keys
    <3>5. <<key>> \in Seq(Keys)
      BY <3>2
    <3> QED BY <3>3, <3>4, <3>5
  <2>4. keys \in Seq(Keys)
    <3> HIDE DEF own, Keys
    <3> QED BY <1>1, <2>3
  <2>5. DOMAIN keys = 1..Len(keys) /\ Len(keys) \in Nat /\ \A i \in DOMAIN keys : keys[i] \in Keys
    <3> HIDE DEF keys, Keys
    <3> QED BY <2>4
  <2>6. <<>> \in Seq(Keys)
    OBVIOUS
  <2>7. others \in Seq(RawOps)
    <3>1. ASSUME NEW k \in Keys PROVE Pathed1(k) \in RawOps
      <4>1. Pathed1(k) = RawOp(raw.kind, raw.exact, k.path, k.value, Nil, <<>>)
        OBVIOUS
      <4>2. k.path \in Paths \cup {Nil, Malformed} /\ k.value \in RawValue \cup {Nil}
        BY <3>1
      <4>3. RawOp(raw.kind, raw.exact, k.path, k.value, Nil, <<>>) \in RawOps
        <5> DEFINE none == <<>>
                   path == k.path
                   value == k.value
        <5>1. none \in Seq([path : Paths, value : RawValue])
          OBVIOUS
        <5>2. path \in Paths \cup {Nil, Malformed} /\ value \in RawValue \cup {Nil}
          BY <4>2
        <5> HIDE DEF none, path, value
        <5>3. RawOp(raw.kind, raw.exact, path, value, Nil, none) \in RawOps
          BY <1>1, <5>1, <5>2, RawOpOf
        <5> QED BY <5>3 DEF none, path, value
      <4> QED BY <4>1, <4>3
    <3>2. \A i \in DOMAIN keys : others[i] = Pathed1(keys[i])
      OBVIOUS
    <3>3. others = [i \in 1..Len(keys) |-> others[i]]
      BY <2>5
    <3> HIDE DEF others, keys, Keys, Pathed1
    <3>4. \A i \in 1..Len(keys) : others[i] \in RawOps
      BY <2>5, <3>1, <3>2
    <3> QED BY <2>5, <3>3, <3>4
  <2>8. first \in Seq(RawOps)
    <3>1. rest = RawOp(raw.kind, raw.exact, raw.path, raw.value, plain, <<>>)
      <4> HIDE DEF plain
      <4> QED BY <1>1, <2>1
    <3>2. plain \in [Attrs -> RawValue \cup {Nil}]
      <4> HIDE DEF own
      <4> QED BY <1>1, <2>1
    <3>3. rest \in RawOps
      <4> DEFINE none == <<>>
      <4>1. none \in Seq([path : Paths, value : RawValue])
        OBVIOUS
      <4>2. plain \in [Attrs -> RawValue \cup {Nil}] \cup {Nil}
        BY <3>2
      <4> HIDE DEF none, plain, rest
      <4>3. RawOp(raw.kind, raw.exact, raw.path, raw.value, plain, none) \in RawOps
        BY <1>1, <2>1, <4>1, <4>2, RawOpOf
      <4> QED BY <3>1, <4>3 DEF none
    <3> HIDE DEF rest
    <3>4. first = <<>> \/ first = <<rest>>
      OBVIOUS
    <3> HIDE DEF first
    <3>5. <<rest>> \in Seq(RawOps) /\ <<>> \in Seq(RawOps)
      BY <3>3
    <3> QED BY <3>4, <3>5
  <2> HIDE DEF first, others
  <2>9. first \o others \in Seq(RawOps)
    BY <2>7, <2>8
  <2> QED BY <2>1, <2>9
<1> QED BY <1>2, <1>3

(* Decode: operations, or an error.                                        *)
LEMMA DecodeIs ==
  ASSUME NEW m \in Seq(RawOps), NEW prof
  PROVE  \/ Decode(m, prof) \in {Fail(e) : e \in Errors}
         \/ \E list \in Seq(DecodedOps) : Decode(m, prof) = Done(list)
<1> DEFINE each == [i \in DOMAIN m |-> Expand(m[i], prof)]
           raws == FlattenSeq(each)
           built == [i \in DOMAIN raws |-> Build(raws[i], prof)]
           First(I) == CHOOSE i \in I : \A j \in I : i <= j
           early == {i \in DOMAIN raws : BuildRefusal(raws[i], prof) # Nil}
           late == {i \in DOMAIN raws : ~built[i].ok}
           lists == [i \in DOMAIN raws |-> built[i].val]
<1>1. Decode(m, prof) =
        IF m = <<>> \/ Len(m) > MaxOperations THEN Fail("invalidSyntax")
        ELSE IF early # {} THEN built[First(early)]
        ELSE IF late # {} THEN built[First(late)]
        ELSE Done(FlattenSeq(lists))
  BY DEF Decode
<1>2. raws \in Seq(RawOps)
  <2>1. DOMAIN m = 1..Len(m) /\ Len(m) \in Nat /\ \A i \in DOMAIN m : m[i] \in RawOps
    OBVIOUS
  <2>2. \A i \in DOMAIN m : each[i] \in Seq(RawOps)
    BY <2>1, ExpandIs
  <2>3. each = [i \in 1..Len(m) |-> each[i]]
    BY <2>1
  <2> HIDE DEF each
  <2>4. each \in Seq(Seq(RawOps)) /\ Len(each) = Len(m)
    BY <2>1, <2>2, <2>3
  <2> QED BY <2>1, <2>4, FlattenedIs
<1> HIDE DEF raws
<1> DEFINE n == Len(raws)
<1>3. DOMAIN raws = 1..n /\ n \in Nat /\ \A i \in DOMAIN raws : raws[i] \in RawOps
  BY <1>2
<1>4. \A i \in DOMAIN raws : built[i] = Build(raws[i], prof)
  OBVIOUS
<1> HIDE DEF built, n
<1>5. \A i \in DOMAIN raws : \/ built[i] \in {Fail(e) : e \in Errors}
                             \/ \E list \in Seq(DecodedOps) : built[i] = Done(list)
  BY <1>3, <1>4, BuildIs
<1>6. \A i \in early : built[i] \in {Fail(e) : e \in Errors}
  BY <1>3, <1>4, BuildIs
<1>7. \A i \in late : built[i] \in {Fail(e) : e \in Errors}
  BY <1>5, Outcomes
<1>8. late = {} => \A i \in DOMAIN raws : built[i].val \in Seq(DecodedOps)
  <2>1. SUFFICES ASSUME late = {}, NEW i \in DOMAIN raws PROVE built[i].val \in Seq(DecodedOps)
    OBVIOUS
  <2>2. built[i].ok
    BY <2>1
  <2>3. ~(built[i] \in {Fail(e) : e \in Errors})
    BY <2>2, Outcomes
  <2>4. PICK list \in Seq(DecodedOps) : built[i] = Done(list)
    BY <2>3, <1>5
  <2> QED BY <2>4, Outcomes
<1>9. late = {} => FlattenSeq(lists) \in Seq(DecodedOps)
  <2> SUFFICES ASSUME late = {} PROVE FlattenSeq(lists) \in Seq(DecodedOps)
    OBVIOUS
  <2>1. \A i \in 1..n : lists[i] \in Seq(DecodedOps)
    BY <1>3, <1>8
  <2>2. lists = [i \in 1..n |-> lists[i]]
    BY <1>3
  <2> HIDE DEF lists
  <2>3. lists \in Seq(Seq(DecodedOps)) /\ Len(lists) = n
    BY <1>3, <2>1, <2>2
  <2> QED BY <1>3, <2>3, FlattenedIs
<1>10. \A I : I \subseteq DOMAIN raws /\ I # {} => First(I) \in I
  <2> SUFFICES ASSUME NEW I, I \subseteq DOMAIN raws, I # {} PROVE First(I) \in I
    OBVIOUS
  <2>1. I \subseteq Nat
    BY <1>3
  <2>2. \E i \in I : \A j \in I : i <= j
    BY <2>1, Least
  <2> QED BY <2>2
<1>11. early \subseteq DOMAIN raws /\ late \subseteq DOMAIN raws
  OBVIOUS
<1>12. "invalidSyntax" \in Errors
  BY DEF Errors
<1> HIDE DEF early, late, lists, First
<1> QED BY <1>1, <1>6, <1>7, <1>9, <1>10, <1>11, <1>12

-----------------------------------------------------------------------------
(* Type correctness.                                                       *)

(* TypeOK does not say what is still to be decoded and applied: the        *)
(* operations of the message, as a request may send them, and those it was *)
(* decoded to, each with the value its kind needs.                         *)
Ready ==
  /\ profile \in Profiles /\ msg \in Seq(RawOps)
  /\ ops # Nil => ops \in Seq(DecodedOps)
  /\ work \in Resources
  /\ done \in 0..(IF ops = Nil THEN 0 ELSE Len(ops))
  /\ shared \subseteq Attrs /\ changed \in BOOLEAN
  /\ err \in Errors \cup {Nil}

LEMMA StartsReady == Init => Ready
<1> SUFFICES ASSUME Init PROVE Ready
  OBVIOUS
<1>1. PICK c \in Cases : given \in c.bases /\ msg \in UNION {[1..n -> c.ops] : n \in 0..c.longest}
  BY DEF Init
<1>2. c.bases \subseteq Resources /\ c.ops \subseteq RawOps /\ c.longest \in Nat
  BY PatchAssumption
<1>3. msg \in Seq(RawOps)
  <2>1. PICK n \in 0..c.longest : msg \in [1..n -> c.ops]
    BY <1>1
  <2>2. n \in Nat /\ DOMAIN msg = 1..n /\ msg = [i \in 1..n |-> msg[i]] /\ \A i \in 1..n : msg[i] \in RawOps
    BY <1>2, <2>1
  <2> QED BY <2>2
<1>4. work \in Resources
  BY <1>1, <1>2 DEF Init
<1>5. shared \subseteq Attrs
  BY DEF Init, Shared
<1>6. profile \in Profiles /\ ops = Nil /\ done = 0 /\ changed = FALSE /\ err = Nil
  BY DEF Init
<1>7. done \in 0..(IF ops = Nil THEN 0 ELSE Len(ops))
  BY <1>6
<1> QED BY <1>3, <1>4, <1>5, <1>6, <1>7 DEF Ready

LEMMA DecodeReady ==
  ASSUME Ready, DecodeMessage
  PROVE  Ready'
<1> DEFINE decoded == Decode(msg, profile)
<1>1. /\ ops = Nil /\ err = Nil
      /\ IF decoded.ok THEN ops' = decoded.val /\ err' = Nil ELSE err' = decoded.val /\ ops' = Nil
      /\ UNCHANGED <<profile, msg, given, caller, done, work, shared, changed>>
  BY DEF DecodeMessage
<1>2. \/ decoded \in {Fail(e) : e \in Errors}
      \/ \E list \in Seq(DecodedOps) : decoded = Done(list)
  BY DecodeIs DEF Ready
<1>3. \/ ops' = Nil /\ err' \in Errors
      \/ ops' \in Seq(DecodedOps) /\ err' = Nil
  <2> HIDE DEF decoded
  <2>1. CASE decoded \in {Fail(e) : e \in Errors}
    <3>1. decoded.ok = FALSE /\ decoded.val \in Errors
      BY <2>1, Outcomes
    <3> QED BY <1>1, <3>1
  <2>2. CASE \E list \in Seq(DecodedOps) : decoded = Done(list)
    <3>1. decoded.ok = TRUE /\ decoded.val \in Seq(DecodedOps)
      BY <2>2, Outcomes
    <3> QED BY <1>1, <3>1
  <2> QED BY <1>2, <2>1, <2>2
<1>4. done = 0 /\ done' = 0
  BY <1>1 DEF Ready
<1>5. done' \in 0..(IF ops' = Nil THEN 0 ELSE Len(ops'))
  BY <1>3, <1>4
<1> HIDE DEF decoded
<1> QED BY <1>1, <1>3, <1>5 DEF Ready

(* The operation a step applies, and what it makes of the working copy.    *)
LEMMA StepApplies ==
  ASSUME Ready, NEW kind, Step(kind)
  PROVE  /\ ops # Nil /\ ops \in Seq(DecodedOps) /\ done \in Nat /\ done < Len(ops)
         /\ ops[done + 1] \in DecodedOps /\ ops[done + 1].kind = kind
         /\ ops' = ops /\ profile' = profile /\ msg' = msg
         /\ Perform(ops[done + 1], work, profile) \in Results
         /\ \/ /\ Perform(ops[done + 1], work, profile) = Done(work')
               /\ work' \in Resources /\ done' = done + 1 /\ err' = err
               /\ changed' \in BOOLEAN /\ shared' \subseteq Attrs
            \/ err' \in Errors /\ UNCHANGED <<caller, done, work, shared, changed>>
<1> DEFINE op == ops[done + 1]
           result == Perform(op, work, profile)
           written == {a \in Attrs : result.val[a] # work[a]}
           edited == {a \in written : EditsInPlace(op, a)}
<1>1. /\ ops # Nil /\ done < Len(ops) /\ op.kind = kind
      /\ ops' = ops /\ profile' = profile /\ msg' = msg
      /\ IF result.ok
         THEN /\ work' = result.val
              /\ changed' = (changed \/ written # {})
              /\ shared' = shared \ (written \ edited)
              /\ done' = done + 1 /\ err' = err
         ELSE err' = result.val /\ UNCHANGED <<caller, done, work, shared, changed>>
  BY DEF Step
<1>2. ops \in Seq(DecodedOps) /\ done \in Nat /\ work \in Resources
  BY <1>1 DEF Ready
<1>3. op \in DecodedOps
  BY <1>1, <1>2
<1>4. result \in Results
  BY <1>2, <1>3, DecodedIs, PerformResult
<1>5. /\ result.ok \in BOOLEAN
      /\ result.ok => result.val \in Resources /\ result = Done(result.val)
      /\ ~result.ok => result.val \in Errors
  BY <1>4, ResultsAre
<1> HIDE DEF result, written, edited, op
<1>6. changed' \in BOOLEAN /\ shared' \subseteq Attrs
  BY <1>1, <1>5 DEF Ready
<1> QED BY <1>1, <1>2, <1>3, <1>4, <1>5, <1>6 DEF op, result

LEMMA StepReady ==
  ASSUME Ready, NEW kind, Step(kind)
  PROVE  Ready'
<1> DEFINE result == Perform(ops[done + 1], work, profile)
<1>1. /\ ops # Nil /\ ops \in Seq(DecodedOps) /\ done \in Nat /\ done < Len(ops)
      /\ ops' = ops /\ profile' = profile /\ msg' = msg
      /\ \/ /\ result = Done(work')
            /\ work' \in Resources /\ done' = done + 1 /\ err' = err
            /\ changed' \in BOOLEAN /\ shared' \subseteq Attrs
         \/ err' \in Errors /\ UNCHANGED <<caller, done, work, shared, changed>>
  BY StepApplies
<1> HIDE DEF result
<1>2. done' \in 0..Len(ops)
  BY <1>1 DEF Ready
<1> QED BY <1>1, <1>2 DEF Ready

LEMMA NextReady == Ready /\ [Next]_vars => Ready'
<1> SUFFICES ASSUME Ready, [Next]_vars PROVE Ready'
  OBVIOUS
<1>1. CASE DecodeMessage
  BY <1>1, DecodeReady
<1>2. CASE ApplyAdd
  BY <1>2, StepReady DEF ApplyAdd
<1>3. CASE ApplyRemove
  BY <1>3, StepReady DEF ApplyRemove
<1>4. CASE ApplyReplace
  BY <1>4, StepReady DEF ApplyReplace
<1>5. CASE UNCHANGED vars
  BY <1>5 DEF Ready, vars
<1> QED BY <1>1, <1>2, <1>3, <1>4, <1>5 DEF Next

(* Whatever a message sends and in whatever order, what is stored keeps    *)
(* its canonical form after every operation: stored forms only, no empty   *)
(* element, one value where one is allowed and one primary at most; and an *)
(* operation that fails gives one of the SCIM errors (Resource.Set, the    *)
(* tables of add, remove and replace).                                     *)
THEOREM TypeCorrect == Spec => []TypeOK
<1>1. Ready => TypeOK
  BY DEF Ready, TypeOK, Resources
<1> QED BY <1>1, StartsReady, NextReady, PTL DEF Spec

-----------------------------------------------------------------------------
(* Mutability.                                                             *)

(* Every element coercion leaves something of is there afterwards.         *)
LEMMA CoercedKeeps ==
  ASSUME NEW a \in Attrs, NEW n \in Nat, NEW ats, DOMAIN ats = 1..n, CoerceElems(a, ats) # Bad
  PROVE  /\ \A i \in 1..n : CoerceMembers(a, ats[i]) # NoSubs =>
              \E k \in DOMAIN CoerceElems(a, ats) : CoerceElems(a, ats)[k] = CoerceMembers(a, ats[i])
         /\ (\A i \in 1..n : CoerceMembers(a, ats[i]) = NoSubs) => CoerceElems(a, ats) = <<>>
<1> DEFINE elems == [i \in DOMAIN ats |-> CoerceMembers(a, ats[i])]
           left == {i \in DOMAIN elems : elems[i] # NoSubs}
           kept == Selected(elems, left)
<1>1. CoerceElems(a, ats) = kept
  BY DEF CoerceElems, WithoutEmpty
<1>2. DOMAIN elems = 1..n /\ \A i \in 1..n : elems[i] = CoerceMembers(a, ats[i])
  OBVIOUS
<1>3. \A i \in 1..n : i \in left <=> CoerceMembers(a, ats[i]) # NoSubs
  <2> HIDE DEF elems
  <2> QED BY <1>2
<1>4e. PICK m \in Nat : \E at : Selects(at, m, n, left) /\ kept = Taken(elems, at, m)
  <2> HIDE DEF elems, left
  <2> QED BY <1>2, SelectedAt
<1>4. PICK at : Selects(at, m, n, left) /\ kept = Taken(elems, at, m)
  BY <1>4e
<1>5. /\ \A k \in 1..m : at[k] \in left /\ at[k] \in 1..n
      /\ \A i \in left \cap (1..n) : \E k \in 1..m : at[k] = i
  BY <1>4 DEF Selects
<1>6. kept = [k \in 1..m |-> elems[at[k]]]
  BY <1>4 DEF Taken
<1> HIDE DEF elems, left, kept
<1>7. ASSUME NEW i \in 1..n, CoerceMembers(a, ats[i]) # NoSubs
      PROVE  \E k \in DOMAIN kept : kept[k] = CoerceMembers(a, ats[i])
  <2>1. PICK k \in 1..m : at[k] = i
    BY <1>3, <1>5, <1>7
  <2>2. k \in DOMAIN kept /\ kept[k] = elems[i]
    BY <1>6, <2>1
  <2> QED BY <2>2, <1>2
<1>8. ASSUME \A i \in 1..n : CoerceMembers(a, ats[i]) = NoSubs PROVE kept = <<>>
  <2>1. m = 0
    <3>1. SUFFICES ASSUME m # 0 PROVE FALSE
      OBVIOUS
    <3>2. 1 \in 1..m
      BY <3>1
    <3>3. at[1] \in left /\ at[1] \in 1..n
      BY <3>2, <1>5
    <3> QED BY <3>3, <1>3, <1>8
  <2>2. kept = [k \in 1..0 |-> elems[at[k]]]
    BY <2>1, <1>6
  <2> QED BY <2>2
<1> QED BY <1>1, <1>7, <1>8

(* What is stored is coerced to itself.                                    *)
LEMMA StoredAgain ==
  ASSUME NEW a \in Attrs, NEW e, Fits(a, e), NEW s \in SubsOf(a), e[s] # Nil
  PROVE  CoerceScalar(a, s, e[s]) = e[s]
<1>1. s \in Subs /\ Schema[a].subs[s].type \in Types
  BY SchemaFacts
<1>2. PICK x \in Scalars : e[s] = Convert[Schema[a].subs[s].type][x]
  BY <1>1 DEF Fits
<1>3. e[s] \in Scalars /\ e[s] # Bad /\ e[s] # Null
  BY <1>1, DataAssumption DEF Fits, Elem
<1>4. Convert[Schema[a].subs[s].type][e[s]] = e[s]
  BY <1>1, <1>2, <1>3, DataAssumption
<1> QED BY <1>3, <1>4 DEF CoerceScalar

(* A scalar sent to a simple attribute is read as a value, or is Bad.      *)
LEMMA ScalarRead ==
  ASSUME NEW a \in Attrs, ~Schema[a].complex, NEW at, at["value"] \in Scalars
  PROVE  CoerceMembers(a, at)["value"] # Nil
<1>1. SubsOf(a) = {"value"} /\ Schema[a].subs["value"].type \in Types
  BY SchemaFacts
<1>2. CoerceMembers(a, at)["value"] = CoerceScalar(a, "value", at["value"])
  BY <1>1, MarksDiffer DEF CoerceMembers
<1>3. at["value"] \notin {Nil, Null}
  BY MarksDiffer
<1>4. CoerceScalar(a, "value", at["value"]) = Convert[Schema[a].subs["value"].type][at["value"]]
  BY <1>3 DEF CoerceScalar
<1>5. Convert[Schema[a].subs["value"].type][at["value"]] # Nil
  BY <1>1, MarksDiffer
<1> QED BY <1>2, <1>4, <1>5

(* An immutable attribute that is assigned and whose write checkImmutable- *)
(* Attr lets pass stays, but for an add of null to a simple one.           *)
LEMMA ImmutableKept ==
  ASSUME NEW a \in Attrs, Schema[a].mutability = "immutable",
         NEW old \in Good(a), old # <<>>, NEW v \in RawValue, NEW kind \in {"add", "replace"},
         ImmutableRefusal(a, kind, old, v) = Nil,
         NEW new, new = IF kind = "replace" THEN ReplaceAttribute(a, old, v) ELSE AddToAttribute(a, old, v),
         new.ok
  PROVE  new.val = old \/ (kind = "add" /\ ~Multi(a) /\ ~Schema[a].complex /\ IsNull(v))
<1> DEFINE x == Coerce(a, v)
           y == Coerce(a, Wrap(v))
<1>1. "invalidValue" # Nil /\ "mutability" # Nil
  BY ApplyAssumption DEF Errors
<1>2. x # Bad /\ ~WouldChange(a, kind, old, x)
  BY <1>1 DEF ImmutableRefusal
<1>3. x \in Good(a)
  BY <1>2, Coerced
<1>4. old \in Seq(Elem) /\ x \in Seq(Elem)
  BY <1>3 DEF Good
<1>5. /\ x = <<>> => kind = "add"
      /\ x # <<>> => old = CASE Multi(a) /\ kind = "add"       -> AppendNew(old, x)
                             [] ~Multi(a) /\ Schema[a].complex -> Merged(old, x)
                             [] OTHER                          -> x
  <2> HIDE DEF x
  <2> QED BY <1>2 DEF WouldChange
<1>6. /\ v.list \in BOOLEAN /\ v.elems \in Seq(RawElem) /\ (v.list \/ Len(v.elems) = 1)
      /\ v = [list |-> v.list, elems |-> v.elems]
  BY RawValueIs
<1>7. CASE Multi(a) /\ v.list
  <2>1. Wrap(v) = v
    BY <1>6, <1>7 DEF Wrap
  <2>2. CASE kind = "add"
    <3>1. new = Done(IF x = <<>> THEN old \o x ELSE AppendNew(old, x))
      BY <1>2, <1>7, <2>1, <2>2 DEF AddToAttribute
    <3>2. old \o <<>> = old
      BY <1>4
    <3> HIDE DEF x
    <3> QED BY <3>1, <3>2, <1>5, <1>7, <2>2, Outcomes
  <2>3. CASE kind = "replace"
    <3>1. new = Done(x)
      BY <1>2, <1>7, <2>1, <2>3 DEF ReplaceAttribute, Stored
    <3> HIDE DEF x
    <3> QED BY <3>1, <1>5, <1>7, <2>3, Outcomes
  <2> QED BY <2>2, <2>3
<1>8. CASE Multi(a) /\ ~v.list
  <2>1. IsNull(v)
    BY <1>2, <1>8 DEF Coerce, Multi
  <2>2. x = <<>> /\ kind = "add"
    BY <2>1, <1>5 DEF Coerce
  <2>3. y # Bad
    <3>1. SUFFICES ASSUME y = Bad PROVE FALSE
      OBVIOUS
    <3>2. new = Fail("invalidValue")
      BY <3>1, <2>2, <1>8 DEF AddToAttribute
    <3> QED BY <3>2, Outcomes
  <2>4. y = <<>>
    <3> DEFINE w == Wrap(v)
               ats == [i \in DOMAIN w.elems |-> w.elems[i].at]
    <3>1. w.list = TRUE /\ w.elems = v.elems
      BY <1>6 DEF Wrap
    <3> HIDE DEF w
    <3>2. ~IsNull(w)
      BY <3>1 DEF IsNull
    <3>3. y = CoerceElems(a, ats)
      BY <2>3, <3>2 DEF Coerce, w
    <3>4. DOMAIN v.elems = 1..1 /\ v.elems[1] \in RawElem /\ v.elems[1].form = "null"
      BY <1>6, <1>8, <2>1 DEF IsNull
    <3>5. DOMAIN ats = 1..1 /\ ats[1] = v.elems[1].at
      BY <3>1, <3>4
    <3>6. \A s \in Subs : ats[1][s] = Nil
      BY <3>4, <3>5, RawElemIs
    <3>7. CoerceMembers(a, ats[1]) = NoSubs
      BY <3>6 DEF CoerceMembers, CoerceScalar, NoSubs
    <3> HIDE DEF ats, y
    <3>8. \A i \in 1..1 : CoerceMembers(a, ats[i]) = NoSubs
      BY <3>7
    <3> QED BY <2>3, <3>3, <3>5, <3>8, CoercedKeeps
  <2>5. new = Done(old \o <<>>)
    <3> HIDE DEF y
    <3>1. new = Done(old \o y)
      BY <2>2, <2>3, <2>4, <1>8 DEF AddToAttribute, y
    <3> QED BY <3>1, <2>4
  <2>6. old \o <<>> = old
    BY <1>4
  <2> QED BY <2>5, <2>6, Outcomes
<1>9. CASE ~Multi(a) /\ Schema[a].complex
  <2>1. new = Done(Merged(old, x))
    BY <1>2, <1>9 DEF AddToAttribute, ReplaceAttribute
  <2> HIDE DEF x
  <2>2. x = <<>> => Merged(old, x) = old
    <3>1. x = <<>> => Merged(old, x) = old \o <<>>
      BY DEF Merged
    <3> QED BY <3>1, <1>4
  <2> QED BY <2>1, <2>2, <1>5, <1>9, Outcomes
<1>10. CASE ~Multi(a) /\ ~Schema[a].complex
  <2>1. new = Done(x)
    BY <1>2, <1>10 DEF AddToAttribute, ReplaceAttribute
  <2>2. CASE x # <<>>
    <3> HIDE DEF x
    <3> QED BY <2>1, <2>2, <1>5, <1>10, Outcomes
  <2>3. CASE x = <<>>
    <3>1. kind = "add"
      BY <2>3, <1>5
    <3>2. SUFFICES ASSUME ~IsNull(v) PROVE FALSE
      BY <3>1, <1>10
    <3> DEFINE ats == [i \in DOMAIN v.elems |-> v.elems[i].at]
    <3>3. /\ v.list = Schema[a].multi /\ x = CoerceElems(a, ats)
          /\ \A i \in DOMAIN v.elems : FitsShape(a, v.elems[i])
      BY <3>2, <1>2 DEF Coerce
    <3>4. ~v.list /\ DOMAIN v.elems = 1..1 /\ v.elems[1] \in RawElem
      BY <3>3, <1>6, <1>10 DEF Multi
    <3>5. v.elems[1].form = "scalar"
      BY <3>2, <3>3, <3>4, <1>10 DEF FitsShape, IsNull
    <3>6. ats[1]["value"] \in Scalars /\ DOMAIN ats = 1..1
      BY <3>4, <3>5, RawElemIs
    <3>7. CoerceMembers(a, ats[1])["value"] # Nil
      <4> DEFINE at == ats[1]
      <4>1. at["value"] \in Scalars
        BY <3>6
      <4> HIDE DEF at
      <4>2. CoerceMembers(a, at)["value"] # Nil
        BY ONLY <4>1, <1>10, a \in Attrs, ScalarRead
      <4> QED BY <4>2 DEF at
    <3>8. CoerceMembers(a, ats[1])["value"] # Bad
      <4>1. SUFFICES ASSUME CoerceMembers(a, ats[1])["value"] = Bad PROVE FALSE
        OBVIOUS
      <4> DEFINE elems == [i \in DOMAIN ats |-> CoerceMembers(a, ats[i])]
      <4>2. 1 \in DOMAIN elems /\ elems[1]["value"] = Bad
        BY <4>1, <3>6
      <4>3. \E i \in DOMAIN elems, s \in Subs : elems[i][s] = Bad
        BY <4>2, MarksDiffer
      <4>4. CoerceElems(a, ats) = Bad
        BY <4>3 DEF CoerceElems
      <4> QED BY <4>4, <3>3, <1>2
    <3>9. CoerceMembers(a, ats[1]) # NoSubs
      BY MarksDiffer, <3>7 DEF NoSubs
    <3> HIDE DEF ats, x
    <3>10. CoerceElems(a, ats) # Bad /\ 1 \in 1..1
      BY <1>2, <3>3
    <3>11. \E k \in DOMAIN CoerceElems(a, ats) : CoerceElems(a, ats)[k] = CoerceMembers(a, ats[1])
      BY <3>6, <3>9, <3>10, CoercedKeeps
    <3>12. DOMAIN CoerceElems(a, ats) = {}
      BY <2>3, <3>3
    <3> QED BY <3>11, <3>12
  <2> QED BY <2>2, <2>3
<1> QED BY <1>6, <1>7, <1>8, <1>9, <1>10

(* A sub-attribute value of every stored element is there after a write    *)
(* that coerces each element's to what it was: the element that loses its  *)
(* primary mark loses it to one that has it.                               *)
LEMMA ValuesSurvive ==
  ASSUME NEW a \in Attrs, NEW old \in Good(a), NEW s \in SubsOf(a),
         NEW n \in Nat, Len(old) <= n, NEW list, DOMAIN list = 1..n, NEW keep,
         \A i \in DOMAIN old : DOMAIN list[i] = Subs,
         \A i \in DOMAIN old : old[i][s] # Nil => CoerceScalar(a, s, list[i][s]) = old[i][s],
         NEW out, SetElements(a, DemoteOthers(list, keep)) = Done(out)
  PROVE  ValuesIn(old, s) \subseteq ValuesIn(out, s)
<1> DEFINE d == DemoteOthers(list, keep)
<1>1. /\ DOMAIN d = 1..n
      /\ \A i \in 1..n : \/ d[i] = list[i]
                         \/ /\ i \in Primaries(list) /\ d[i] = [list[i] EXCEPT !["primary"] = False]
                            /\ \E k \in Primaries(list) : d[k] = list[k]
  <2>1. CASE keep \cap Primaries(list) = {}
    <3>1. d = list
      BY <2>1 DEF DemoteOthers
    <3> QED BY <3>1
  <2>2. CASE keep \cap Primaries(list) # {}
    <3>1. DOMAIN d = DOMAIN list
      BY <2>2 DEF DemoteOthers
    <3>2. ASSUME NEW i \in DOMAIN list
          PROVE  d[i] = IF i \in Primaries(list) /\ i \notin keep
                        THEN [list[i] EXCEPT !["primary"] = False] ELSE list[i]
      BY <2>2 DEF DemoteOthers, False
    <3>3. PICK k \in keep : k \in Primaries(list)
      BY <2>2
    <3>4. k \in DOMAIN list
      BY <3>3 DEF Primaries
    <3>5. d[k] = list[k]
      BY <3>2, <3>3, <3>4
    <3> HIDE DEF d
    <3> QED BY <3>1, <3>2, <3>3, <3>5
  <2> QED BY <2>1, <2>2
<1>2. CoerceElems(a, d) # Bad /\ out = CoerceElems(a, d)
  <2>1. Stored(CoerceElems(a, d)) = Done(out)
    BY DEF SetElements
  <2> HIDE DEF d
  <2>2. CoerceElems(a, d) # Bad
    <3>1. SUFFICES ASSUME CoerceElems(a, d) = Bad PROVE FALSE
      OBVIOUS
    <3>2. Done(out) = Fail("invalidValue")
      BY <2>1, <3>1 DEF Stored
    <3> QED BY <3>2, Outcomes
  <2>3. Done(CoerceElems(a, d)) = Done(out)
    BY <2>1, <2>2 DEF Stored
  <2> QED BY <2>2, <2>3, Outcomes
<1> HIDE DEF d
<1>3. s \in Subs
  BY SchemaFacts
<1>4. ASSUME NEW j \in 1..n, NEW x, x # Nil, CoerceScalar(a, s, d[j][s]) = x
      PROVE  x \in ValuesIn(out, s)
  <2>1. CoerceMembers(a, d[j])[s] = x
    BY <1>3, <1>4 DEF CoerceMembers
  <2>2. CoerceMembers(a, d[j]) # NoSubs
    BY <2>1, <1>3, <1>4 DEF NoSubs
  <2>3. PICK k \in DOMAIN CoerceElems(a, d) : CoerceElems(a, d)[k] = CoerceMembers(a, d[j])
    BY <1>1, <1>2, <2>2, CoercedKeeps
  <2>4. k \in DOMAIN out /\ out[k][s] = x
    BY <1>2, <2>1, <2>3
  <2> QED BY <2>4, <1>4 DEF ValuesIn
<1>5. DOMAIN old \subseteq 1..n
  <2>1. old \in Seq(Elem)
    BY DEF Good
  <2>2. DOMAIN old = 1..Len(old) /\ Len(old) \in Nat
    BY <2>1
  <2> QED BY <2>2
<1>6. ASSUME NEW i \in DOMAIN old, old[i][s] # Nil PROVE old[i][s] \in ValuesIn(out, s)
  <2> DEFINE x == old[i][s]
  <2>1. i \in 1..n /\ DOMAIN list[i] = Subs /\ CoerceScalar(a, s, list[i][s]) = x
    BY <1>5, <1>6
  <2>2. CASE d[i] = list[i]
    BY <2>1, <2>2, <1>4, <1>6
  <2>3. CASE /\ i \in Primaries(list) /\ d[i] = [list[i] EXCEPT !["primary"] = False]
             /\ \E k \in Primaries(list) : d[k] = list[k]
    <3>1. CASE s # "primary"
      <4>1. d[i][s] = list[i][s]
        BY <2>1, <2>3, <3>1, <1>3
      <4> QED BY <4>1, <2>1, <1>4, <1>6
    <3>2. CASE s = "primary"
      <4>1. PICK k \in Primaries(list) : d[k] = list[k]
        BY <2>3
      <4>2. k \in 1..n /\ list[k]["primary"] = list[i]["primary"]
        BY <2>3 DEF Primaries
      <4>3. CoerceScalar(a, s, d[k][s]) = x
        BY <2>1, <4>1, <4>2, <3>2
      <4> QED BY <4>2, <4>3, <1>4, <1>6
    <3> QED BY <3>1, <3>2
  <2> QED BY <2>1, <2>2, <2>3, <1>1
<1> QED BY <1>6 DEF ValuesIn

(* checkElemImmutable: what it lets pass is coerced to what is stored.     *)
LEMMA SubKept ==
  ASSUME NEW a, NEW s, NEW have, NEW x, Immutable(a, s), have # Nil, SubRefusal(a, s, have, x) = Nil
  PROVE  CoerceScalar(a, s, x) = have
<1>1. "invalidValue" # Nil /\ "mutability" # Nil
  BY ApplyAssumption DEF Errors
<1> QED BY <1>1 DEF SubRefusal

LEMMA NoRefusal ==
  ASSUME NEW R, AnyRefusal(R) = Nil
  PROVE  R \subseteq {Nil}
<1>1. CASE ~(R \subseteq {Nil})
  <2>1. \E r \in R : r # Nil
    BY <1>1
  <2>2. (CHOOSE r \in R : r # Nil) # Nil
    BY <2>1
  <2> QED BY <1>1, <2>2 DEF AnyRefusal
<1> QED BY <1>1

LEMMA OldElements ==
  ASSUME NEW a \in Attrs, NEW old \in Good(a)
  PROVE  /\ Len(old) \in Nat /\ DOMAIN old = 1..Len(old)
         /\ \A i \in DOMAIN old : Fits(a, old[i]) /\ DOMAIN old[i] = Subs
         /\ \A i \in DOMAIN old, s \in SubsOf(a) : old[i][s] # Nil => CoerceScalar(a, s, old[i][s]) = old[i][s]
<1>1. old \in Seq(Elem)
  BY DEF Good
<1>2. Len(old) \in Nat /\ DOMAIN old = 1..Len(old)
  BY <1>1
<1>3. \A i \in DOMAIN old : Fits(a, old[i])
  BY <1>1, GoodIs
<1>4. \A i \in DOMAIN old : DOMAIN old[i] = Subs
  BY <1>3 DEF Fits, Elem
<1> QED BY <1>2, <1>3, <1>4, StoredAgain

LEMMA ElementInIs ==
  ASSUME NEW v \in RawValue, ElementIn(v) # Bad
  PROVE  ElementIn(v) \in [Subs -> Scalars \cup {Nil, Null}]
<1>1. ~v.list /\ ElementIn(v) = v.elems[1].at
  BY DEF ElementIn
<1>2. v.elems \in Seq(RawElem) /\ Len(v.elems) = 1
  BY <1>1, RawValueIs
<1>3. v.elems[1] \in RawElem
  BY <1>2
<1> QED BY <1>1, <1>3, RawElemIs

LEMMA WriteKeeps ==
  ASSUME NEW a \in Attrs, NEW old \in Good(a), NEW hit, hit \subseteq DOMAIN old,
         NEW u, u = Nil \/ u \in SubsOf(a), NEW v \in RawValue,
         NEW s \in SubsOf(a), Immutable(a, s),
         NEW out, WriteToElements(a, old, hit, u, v) = Done(out)
  PROVE  ValuesIn(old, s) \subseteq ValuesIn(out, s)
<1> DEFINE at == IF u = Nil THEN ElementIn(v) ELSE [NoSubs EXCEPT ![u] = ScalarOf(v)]
           new == [i \in DOMAIN old |->
                     IF i \notin hit THEN old[i]
                     ELSE IF u = Nil THEN MergedElem(a, old[i], at) ELSE [old[i] EXCEPT ![u] = at[u]]]
           R == {SubRefusal(a, t, old[i][t], at[t]) : i \in hit, t \in {w \in SubsOf(a) : at[w] # Nil}}
           refused == AnyRefusal(R)
<1>1. at # Bad /\ refused = Nil /\ SetElements(a, DemoteOthers(new, hit)) = Done(out)
  <2>1. WriteToElements(a, old, hit, u, v) =
          IF at = Bad THEN Fail("invalidValue")
          ELSE IF refused # Nil THEN Fail(refused) ELSE SetElements(a, DemoteOthers(new, hit))
    BY DEF WriteToElements
  <2>2. \A x : Done(out) # Fail(x)
    BY Outcomes
  <2> HIDE DEF at, refused, new
  <2> QED BY <2>1, <2>2
<1>2. /\ Len(old) \in Nat /\ DOMAIN old = 1..Len(old)
      /\ \A i \in DOMAIN old : DOMAIN old[i] = Subs
      /\ \A i \in DOMAIN old : old[i][s] # Nil => CoerceScalar(a, s, old[i][s]) = old[i][s]
  BY OldElements
<1>3. s \in Subs /\ (u # Nil => u \in Subs)
  BY SchemaFacts
<1>4. ASSUME NEW i \in hit, old[i][s] # Nil, at[s] # Nil PROVE CoerceScalar(a, s, at[s]) = old[i][s]
  <2>1. SubRefusal(a, s, old[i][s], at[s]) \in R
    <3> HIDE DEF at
    <3> QED BY <1>4
  <2>2. SubRefusal(a, s, old[i][s], at[s]) = Nil
    <3> HIDE DEF R, at
    <3> QED BY <1>1, <2>1, NoRefusal
  <2> HIDE DEF at
  <2> QED BY <2>2, <1>4, SubKept
<1>5. \A i \in DOMAIN old : DOMAIN new[i] = Subs
  <2>1. ASSUME NEW i \in DOMAIN old PROVE DOMAIN new[i] = Subs
    <3>1. \/ new[i] = old[i]
          \/ new[i] = MergedElem(a, old[i], at)
          \/ new[i] = [old[i] EXCEPT ![u] = at[u]]
      OBVIOUS
    <3>2. DOMAIN MergedElem(a, old[i], at) = Subs
      BY DEF MergedElem
    <3> HIDE DEF new
    <3> QED BY <3>1, <3>2, <1>2
  <2> QED BY <2>1
<1>6. ASSUME NEW i \in DOMAIN old, old[i][s] # Nil PROVE CoerceScalar(a, s, new[i][s]) = old[i][s]
  <2>1. new[i][s] = old[i][s] \/ (i \in hit /\ new[i][s] = at[s] /\ at[s] # Nil)
    <3>1. CASE i \notin hit
      BY <3>1
    <3>2. CASE i \in hit /\ u = Nil
      <4>1. new[i] = MergedElem(a, old[i], at)
        BY <3>2
      <4> HIDE DEF new, at
      <4>2. MergedElem(a, old[i], at)[s] = IF at[s] = Nil \/ s \notin SubsOf(a) \/ ~Writable(a, s) THEN old[i][s] ELSE at[s]
        BY <1>3 DEF MergedElem
      <4> QED BY <3>2, <4>1, <4>2
    <3>3. CASE i \in hit /\ u # Nil
      <4>1. new[i] = [old[i] EXCEPT ![u] = at[u]]
        BY <3>3
      <4>2. CASE s # u
        <5> HIDE DEF new, at
        <5> QED BY <4>1, <4>2, <1>2, <1>3
      <4>3. CASE s = u
        <5>1. at[s] = ScalarOf(v)
          BY <3>3, <4>3, <1>3 DEF NoSubs
        <5>2. ScalarOf(v) # Nil
          <6>1. v.list \/ v.elems[1] \in RawElem
            <7>1. v.list \in BOOLEAN /\ v.elems \in Seq(RawElem) /\ (v.list \/ Len(v.elems) = 1)
              BY RawValueIs
            <7> QED BY <7>1
          <6> QED BY <6>1, RawElemIs, DataAssumption DEF ScalarOf
        <5> HIDE DEF new, at
        <5> QED BY <4>1, <4>3, <5>1, <5>2, <1>2, <1>3, <3>3
      <4> QED BY <4>2, <4>3
    <3> QED BY <3>1, <3>2, <3>3
  <2> HIDE DEF new, at
  <2> QED BY <2>1, <1>2, <1>4, <1>6
<1>7. DOMAIN new = DOMAIN old
  OBVIOUS
<1>8. Len(old) <= Len(old)
  BY <1>2
<1> HIDE DEF new, at, R, refused
<1> QED BY <1>1, <1>2, <1>5, <1>6, <1>7, <1>8, ValuesSurvive

LEMMA ReplaceKeeps ==
  ASSUME NEW a \in Attrs, NEW old \in Good(a), NEW hit, hit \subseteq DOMAIN old,
         NEW v \in RawValue, NEW s \in SubsOf(a), Immutable(a, s),
         NEW out, ReplaceElements(a, old, hit, v) = Done(out)
  PROVE  ValuesIn(old, s) \subseteq ValuesIn(out, s)
<1> DEFINE at == ElementIn(v)
           R == {SubRefusal(a, t, old[i][t], at[t]) : i \in hit, t \in SubsOf(a)}
           refused == AnyRefusal(R)
           new == [i \in DOMAIN old |-> IF i \in hit THEN at ELSE old[i]]
<1>1. at # Bad /\ refused = Nil /\ SetElements(a, DemoteOthers(new, hit)) = Done(out)
  <2>1. ReplaceElements(a, old, hit, v) =
          IF at = Bad THEN Fail("invalidValue")
          ELSE IF refused # Nil THEN Fail(refused) ELSE SetElements(a, DemoteOthers(new, hit))
    BY DEF ReplaceElements
  <2>2. \A x : Done(out) # Fail(x)
    BY Outcomes
  <2> HIDE DEF at, refused, new
  <2> QED BY <2>1, <2>2
<1>2. /\ Len(old) \in Nat /\ DOMAIN old = 1..Len(old)
      /\ \A i \in DOMAIN old : DOMAIN old[i] = Subs
      /\ \A i \in DOMAIN old : old[i][s] # Nil => CoerceScalar(a, s, old[i][s]) = old[i][s]
  BY OldElements
<1>3. DOMAIN at = Subs
  BY <1>1, ElementInIs
<1>4. ASSUME NEW i \in hit, old[i][s] # Nil PROVE CoerceScalar(a, s, at[s]) = old[i][s]
  <2>1. SubRefusal(a, s, old[i][s], at[s]) \in R
    <3> HIDE DEF at
    <3> QED BY <1>4
  <2>2. SubRefusal(a, s, old[i][s], at[s]) = Nil
    <3> HIDE DEF R, at
    <3> QED BY <1>1, <2>1, NoRefusal
  <2> HIDE DEF at
  <2> QED BY <2>2, <1>4, SubKept
<1>5. DOMAIN new = DOMAIN old /\ \A i \in DOMAIN old : new[i] = IF i \in hit THEN at ELSE old[i]
  OBVIOUS
<1>6. Len(old) <= Len(old)
  BY <1>2
<1> HIDE DEF new, at, R, refused
<1>7. \A i \in DOMAIN old : DOMAIN new[i] = Subs
  BY <1>2, <1>3, <1>5
<1>8. \A i \in DOMAIN old : old[i][s] # Nil => CoerceScalar(a, s, new[i][s]) = old[i][s]
  BY <1>2, <1>4, <1>5
<1> QED BY <1>1, <1>2, <1>5, <1>6, <1>7, <1>8, ValuesSurvive

LEMMA SynthesizeKeeps ==
  ASSUME NEW a \in Attrs, NEW old \in Good(a), NEW f, NEW u, NEW v,
         NEW s \in SubsOf(a), NEW out, Synthesize(a, old, f, u, v) = Done(out)
  PROVE  ValuesIn(old, s) \subseteq ValuesIn(out, s)
<1> DEFINE seed == [t \in Subs |-> IF f.eqs[t] = Null THEN Nil ELSE f.eqs[t]]
           at == ElementIn(v)
           new == IF u # Nil THEN [seed EXCEPT ![u] = ScalarOf(v)]
                  ELSE [t \in Subs |-> IF at[t] # Nil THEN at[t] ELSE seed[t]]
           list == Append(old, new)
           keep == {Len(old) + 1}
<1>1. SetElements(a, DemoteOthers(list, keep)) = Done(out)
  <2>1. Synthesize(a, old, f, u, v) =
          IF f.negated THEN Fail("noTarget")
          ELSE IF u = Nil /\ at = Bad THEN Fail("invalidValue")
          ELSE SetElements(a, DemoteOthers(list, keep))
    BY DEF Synthesize
  <2>2. \A x : Done(out) # Fail(x)
    BY Outcomes
  <2> HIDE DEF at, list, keep
  <2> QED BY <2>1, <2>2
<1>2. /\ Len(old) \in Nat /\ DOMAIN old = 1..Len(old)
      /\ \A i \in DOMAIN old : DOMAIN old[i] = Subs
      /\ \A i \in DOMAIN old : old[i][s] # Nil => CoerceScalar(a, s, old[i][s]) = old[i][s]
  BY OldElements
<1> HIDE DEF new, keep
<1>3. DOMAIN list = 1..(Len(old) + 1) /\ \A i \in DOMAIN old : list[i] = old[i]
  <2>1. old \in Seq(Elem)
    BY DEF Good
  <2> QED BY <2>1, <1>2
<1> HIDE DEF list
<1>4. Len(old) + 1 \in Nat /\ Len(old) <= Len(old) + 1
  BY <1>2
<1>5. \A i \in DOMAIN old : DOMAIN list[i] = Subs
  BY <1>2, <1>3
<1>6. \A i \in DOMAIN old : old[i][s] # Nil => CoerceScalar(a, s, list[i][s]) = old[i][s]
  BY <1>2, <1>3
<1> QED BY <1>1, <1>3, <1>4, <1>5, <1>6, ValuesSurvive

LEMMA RemoveSubKeeps ==
  ASSUME NEW a \in Attrs, NEW old \in Good(a), NEW hit, hit \subseteq DOMAIN old,
         NEW u, u # Nil, NEW s \in SubsOf(a), Immutable(a, s),
         NEW out, RemoveSub(a, old, hit, u) = Done(out)
  PROVE  ValuesIn(old, s) \subseteq ValuesIn(out, s)
<1> DEFINE new == [i \in DOMAIN old |-> IF i \in hit THEN [old[i] EXCEPT ![u] = Nil] ELSE old[i]]
<1>1. /\ SetElements(a, new) = Done(out)
      /\ Immutable(a, u) => \A i \in hit : old[i][u] = Nil
  <2>1. \A x : Done(out) # Fail(x)
    BY Outcomes
  <2>2. RemoveSub(a, old, hit, u) =
          IF Immutable(a, u) /\ \E i \in hit : old[i][u] # Nil THEN Fail("mutability") ELSE SetElements(a, new)
    BY DEF RemoveSub
  <2> HIDE DEF new
  <2> QED BY <2>1, <2>2
<1>2. DemoteOthers(new, {}) = new
  <2> HIDE DEF new
  <2> QED BY DEF DemoteOthers
<1>3. /\ Len(old) \in Nat /\ DOMAIN old = 1..Len(old)
      /\ \A i \in DOMAIN old : DOMAIN old[i] = Subs
      /\ \A i \in DOMAIN old : old[i][s] # Nil => CoerceScalar(a, s, old[i][s]) = old[i][s]
  BY OldElements
<1>4. DOMAIN new = DOMAIN old
  OBVIOUS
<1>5. \A i \in DOMAIN old : new[i] = IF i \in hit THEN [old[i] EXCEPT ![u] = Nil] ELSE old[i]
  OBVIOUS
<1>6. s \in Subs
  BY SchemaFacts
<1> HIDE DEF new
<1>7. \A i \in DOMAIN old : DOMAIN new[i] = Subs
  BY <1>3, <1>5
<1>8. ASSUME NEW i \in DOMAIN old, old[i][s] # Nil PROVE new[i][s] = old[i][s]
  <2>1. CASE i \notin hit
    BY <2>1, <1>5
  <2>2. CASE i \in hit
    <3>1. u # s
      BY <2>2, <1>1, <1>8
    <3>2. new[i] = [old[i] EXCEPT ![u] = Nil]
      BY <2>2, <1>5
    <3> QED BY <3>1, <3>2, <1>3, <1>6
  <2> QED BY <2>1, <2>2
<1>9. \A i \in DOMAIN old : old[i][s] # Nil => CoerceScalar(a, s, new[i][s]) = old[i][s]
  BY <1>3, <1>8
<1>10. Len(old) <= Len(old)
  BY <1>3
<1>11. SetElements(a, DemoteOthers(new, {})) = Done(out)
  BY <1>1, <1>2
<1> QED BY <1>3, <1>4, <1>7, <1>9, <1>10, <1>11, ValuesSurvive

LEMMA FilteredKeeps ==
  ASSUME NEW a \in Attrs, NEW op \in DecodedOps, op.path # Nil, NEW old \in Good(a), NEW prof,
         op.path.sub = Nil \/ op.path.sub \in SubsOf(a),
         op.kind # "remove" \/ op.path.sub # Nil,
         NEW s \in SubsOf(a), Immutable(a, s),
         NEW out, ApplyFiltered(a, op, old, prof) = Done(out)
  PROVE  ValuesIn(old, s) \subseteq ValuesIn(out, s)
<1> DEFINE f == op.path.filter
           hit == Matches(f, old)
           u == op.path.sub
           v == op.value
<1>1. \/ \E e : Done(out) = Fail(e)
      \/ Done(out) = Done(old)
      \/ u # Nil /\ RemoveSub(a, old, hit, u) = Done(out)
      \/ op.kind # "remove" /\ \/ Synthesize(a, old, f, u, v) = Done(out)
                               \/ ReplaceElements(a, old, hit, v) = Done(out)
                               \/ WriteToElements(a, old, hit, u, v) = Done(out)
  BY DEF ApplyFiltered
<1>2. hit \subseteq DOMAIN old
  BY DEF Matches
<1>3. op.kind # "remove" => v \in RawValue
  BY DecodedOpIs
<1> HIDE DEF f, hit, u, v
<1>4. CASE Done(out) = Done(old)
  <2>1. out = old
    BY <1>4, Outcomes
  <2> QED BY <2>1
<1>5. CASE u # Nil /\ RemoveSub(a, old, hit, u) = Done(out)
  BY <1>2, <1>5, RemoveSubKeeps
<1>6. CASE Synthesize(a, old, f, u, v) = Done(out)
  BY <1>6, SynthesizeKeeps
<1>7. CASE op.kind # "remove" /\ ReplaceElements(a, old, hit, v) = Done(out)
  BY <1>2, <1>3, <1>7, ReplaceKeeps
<1>8. CASE op.kind # "remove" /\ WriteToElements(a, old, hit, u, v) = Done(out)
  <2>1. u = Nil \/ u \in SubsOf(a)
    BY DEF u
  <2> QED BY <2>1, <1>2, <1>3, <1>8, WriteKeeps
<1>9. \A e : Done(out) # Fail(e)
  BY Outcomes
<1> QED BY <1>1, <1>4, <1>5, <1>6, <1>7, <1>8, <1>9

(* What no key of an object without a path changes.                        *)
KeyKept(op, res, cur) ==
  \A a \in Attrs :
    /\ Schema[a].mutability = "readOnly" => cur[a] = res[a]
    /\ Schema[a].mutability = "immutable" => res[a] \in {<<>>, cur[a]} \/ NullAdd(op, a)

LEMMA KeyKeeps ==
  ASSUME NEW op \in DecodedOps, op.path = Nil, op.object # Nil, op.kind # "remove",
         NEW res \in Resources, NEW cur \in Resources, KeyKept(op, res, cur),
         NEW b \in Attrs, NEW next, ApplyKey(op, cur, b) = Done(next)
  PROVE  KeyKept(op, res, next)
<1> DEFINE v == op.object[b]
           refused == ImmutableRefusal(b, op.kind, cur[b], v)
           new == IF op.kind = "replace" THEN ReplaceAttribute(b, cur[b], v) ELSE AddToAttribute(b, cur[b], v)
<1>1. op.kind \in {"add", "replace"} /\ v \in RawValue \cup {Nil}
  BY DecodedOpIs DEF Kinds
<1>2. cur[b] \in Good(b) /\ DOMAIN cur = Attrs
  BY ResourceWith DEF Resources
<1>3. \/ next = cur
      \/ /\ v # Nil /\ Schema[b].mutability # "readOnly" /\ refused = Nil
         /\ new.ok /\ next = [cur EXCEPT ![b] = new.val]
  <2>1. ApplyKey(op, cur, b) =
          IF v = Nil \/ Schema[b].mutability = "readOnly" THEN Done(cur)
          ELSE IF refused # Nil THEN Fail(refused)
          ELSE IF ~new.ok THEN new ELSE Done([cur EXCEPT ![b] = new.val])
    BY DEF ApplyKey
  <2>2. \A x : Done(next) # Fail(x) /\ (Done(next) = Done(x) => next = x) /\ Done(next).ok
    BY Outcomes
  <2> HIDE DEF v, refused, new
  <2> QED BY <2>1, <2>2
<1>4. CASE next = cur
  BY <1>4
<1>5. CASE /\ v # Nil /\ Schema[b].mutability # "readOnly" /\ refused = Nil
           /\ new.ok /\ next = [cur EXCEPT ![b] = new.val]
  <2> DEFINE y == new.val
  <2>1. \A a \in Attrs : next[a] = IF a = b THEN y ELSE cur[a]
    <3> HIDE DEF new
    <3> QED BY <1>2, <1>5
  <2>2. ASSUME Schema[b].mutability = "immutable", res[b] # <<>>, ~NullAdd(op, b)
        PROVE  y = res[b]
    <3>1. cur[b] = res[b]
      BY <2>2 DEF KeyKept
    <3>2. y = cur[b] \/ (op.kind = "add" /\ ~Multi(b) /\ ~Schema[b].complex /\ IsNull(v))
      <4>1. v \in RawValue /\ cur[b] # <<>>
        BY <1>1, <1>5, <2>2, <3>1
      <4>2. new = IF op.kind = "replace" THEN ReplaceAttribute(b, cur[b], v) ELSE AddToAttribute(b, cur[b], v)
        OBVIOUS
      <4>3. ImmutableRefusal(b, op.kind, cur[b], v) = Nil
        BY <1>5
      <4> HIDE DEF new, v
      <4> QED BY <1>1, <1>2, <1>5, <2>2, <4>1, <4>2, <4>3, ImmutableKept
    <3>3. ~(op.kind = "add" /\ ~Multi(b) /\ ~Schema[b].complex /\ IsNull(v))
      <4>1. v # Nil
        BY <1>5
      <4> QED BY <4>1, <2>2 DEF NullAdd
    <3> HIDE DEF y, v
    <3> QED BY <3>1, <3>2, <3>3
  <2>3. Schema[b].mutability # "readOnly"
    BY <1>5
  <2> HIDE DEF y, v, new, refused
  <2> QED BY <2>1, <2>2, <2>3 DEF KeyKept
<1> QED BY <1>3, <1>4, <1>5

LEMMA KeysKeep ==
  ASSUME NEW op \in DecodedOps, op.path = Nil, op.object # Nil, op.kind # "remove",
         NEW res \in Resources, NEW next, KeyByKey(op, res) = Done(next)
  PROVE  KeyKept(op, res, next)
<1> DEFINE n == Len(AttrOrder)
<1>1. n \in Nat /\ \A k \in 1..n : AttrOrder[k] \in Attrs
  BY ApplyAssumption
<1>2. op.object \in [Attrs -> RawValue \cup {Nil}]
  BY DecodedOpIs
<1>3. PICK f : IsRun(f, n, Results, Done(res), KeySteps(n, op)) /\ f[n] = KeyByKey(op, res)
  BY <1>1, <1>2, KeyRuns
<1> HIDE DEF n
<1>4. /\ f \in [0..n -> Results] /\ f[0] = Done(res)
      /\ \A k \in 1..n : f[k] = KeySteps(n, op)[k][f[k - 1]]
  BY <1>3 DEF IsRun
<1>5. \A k \in 1..n : f[k] = IF f[k - 1].ok THEN ApplyKey(op, f[k - 1].val, AttrOrder[k]) ELSE f[k - 1]
  <2>1. \A k \in 1..n : k - 1 \in 0..n
    BY <1>1
  <2>2. \A k \in 1..n : f[k - 1] \in Results
    BY <2>1, <1>4
  <2> QED BY <2>2, <1>4 DEF KeySteps
<1> DEFINE H == {k \in 0..n : f[k].ok => KeyKept(op, res, f[k].val)}
<1>6. 0 \in H
  <2>1. f[0].val = res
    BY <1>4, Outcomes
  <2>2. KeyKept(op, res, res)
    BY DEF KeyKept
  <2>3. 0 \in 0..n
    BY <1>1
  <2> QED BY <2>1, <2>2, <2>3
<1>7. ASSUME NEW k \in 0..n, k \in H, k < n PROVE k + 1 \in H
  <2>1. /\ k + 1 \in 1..n /\ k + 1 \in 0..n /\ (k + 1) - 1 = k /\ AttrOrder[k + 1] \in Attrs
        /\ f[k + 1] = IF f[k].ok THEN ApplyKey(op, f[k].val, AttrOrder[k + 1]) ELSE f[k]
    BY <1>1, <1>5, <1>7
  <2>2. /\ f[k] \in Results /\ f[k + 1] \in Results
        /\ f[k].ok => KeyKept(op, res, f[k].val)
    BY <1>4, <1>7, <2>1
  <2>3. ASSUME f[k + 1].ok PROVE KeyKept(op, res, f[k + 1].val)
    <3>1. f[k].ok
      BY <2>1, <2>3
    <3>2. f[k].val \in Resources /\ f[k + 1] = Done(f[k + 1].val)
      BY <2>2, <2>3, <3>1, ResultsAre
    <3>3. ApplyKey(op, f[k].val, AttrOrder[k + 1]) = Done(f[k + 1].val)
      BY <2>1, <3>1, <3>2
    <3> QED BY <2>1, <2>2, <3>1, <3>2, <3>3, KeyKeeps
  <2> QED BY <2>1, <2>3
<1>8. 0..n \subseteq H
  <2> HIDE DEF H
  <2> QED BY <1>1, <1>6, <1>7, UpTo
<1>9. n \in H
  <2>1. n \in 0..n
    BY <1>1
  <2> HIDE DEF H
  <2> QED BY <2>1, <1>8
<1> QED BY <1>3, <1>9, Outcomes

(* What an operation leaves of an attribute that may not be changed.       *)
Kept(op, res, next, a) ==
  /\ Schema[a].mutability = "readOnly" => next[a] = res[a]
  /\ Schema[a].mutability = "immutable" => res[a] \in {<<>>, next[a]} \/ NullAdd(op, a)
  /\ \A s \in SubsOf(a) :
       (op.path # Nil /\ op.path.filter # Nil /\ (op.kind # "remove" \/ op.path.sub # Nil)) /\ Immutable(a, s)
         => ValuesIn(res[a], s) \subseteq ValuesIn(next[a], s)

LEMMA PathedKeeps ==
  ASSUME NEW op \in DecodedOps, op.path # Nil, NEW res \in Resources, NEW prof,
         NEW next, ApplyPathed(op, res, prof) = Done(next), NEW a \in Attrs
  PROVE  Kept(op, res, next, a)
<1> DEFINE b == op.path.attr
           new == Pathed(op, res, prof)
           refused == TargetRefusal(op, res)
           y == new.val
<1>1. refused = Nil /\ new.ok /\ next = [res EXCEPT ![b] = y]
  <2>1. ApplyPathed(op, res, prof) =
          IF refused # Nil THEN Fail(refused) ELSE IF ~new.ok THEN new ELSE Done([res EXCEPT ![b] = y])
    BY DEF ApplyPathed, Pathed
  <2>2. \A x : Done(next) # Fail(x) /\ (Done(next) = Done(x) => next = x) /\ Done(next).ok
    BY Outcomes
  <2> HIDE DEF refused, new, y
  <2> QED BY <2>1, <2>2
<1>2. /\ b \in Attrs
      /\ op.path.sub # Nil => op.path.sub \in SubsOf(b)
      /\ MutableRefusal(b, op, res[b]) = Nil
  BY <1>1, Targeted
<1>3. res[b] \in Good(b) /\ DOMAIN res = Attrs
  BY <1>2, ResourceWith DEF Resources
<1>4. next[a] = IF a = b THEN y ELSE res[a]
  <2> HIDE DEF y, b
  <2> QED BY <1>1, <1>2, <1>3
<1>5. CASE a # b
  BY <1>4, <1>5 DEF Kept
<1>6. CASE a = b
  <2>1. "mutability" # Nil
    BY ApplyAssumption DEF Errors
  <2>2. Schema[a].mutability # "readOnly"
    BY <1>2, <1>6, <2>1 DEF MutableRefusal
  <2>3. ASSUME Schema[a].mutability = "immutable", res[a] # <<>>
        PROVE  res[a] = y \/ NullAdd(op, a)
    <3>1. op.path.sub = Nil /\ op.path.filter = Nil /\ ImmutableRefusal(a, op.kind, res[a], op.value) = Nil
      BY <1>2, <1>6, <2>1, <2>3 DEF MutableRefusal
    <3>2. op.kind # "remove"
      BY <2>1, <2>3, <3>1 DEF ImmutableRefusal
    <3>3. op.kind \in {"add", "replace"} /\ op.value \in RawValue
      BY <3>2, DecodedOpIs DEF Kinds
    <3>4. new = IF op.kind = "replace" THEN ReplaceAttribute(a, res[a], op.value)
                ELSE AddToAttribute(a, res[a], op.value)
      BY <1>6, <3>1, <3>3 DEF Pathed
    <3>5. res[a] \in Good(a)
      BY <1>3, <1>6
    <3> HIDE DEF new, b
    <3>6. y = res[a] \/ (op.kind = "add" /\ ~Multi(a) /\ ~Schema[a].complex /\ IsNull(op.value))
      BY <1>1, <2>3, <3>1, <3>3, <3>4, <3>5, ImmutableKept
    <3>7. (op.kind = "add" /\ ~Multi(a) /\ ~Schema[a].complex /\ IsNull(op.value)) => NullAdd(op, a)
      BY <1>6 DEF NullAdd, b
    <3> QED BY <3>6, <3>7
  <2>4. ASSUME NEW s \in SubsOf(a), op.path.filter # Nil, op.kind # "remove" \/ op.path.sub # Nil, Immutable(a, s)
        PROVE  ValuesIn(res[a], s) \subseteq ValuesIn(y, s)
    <3>1. new = ApplyFiltered(a, op, res[a], prof)
      BY <1>6, <2>4 DEF Pathed
    <3>2. new = Done(y)
      <4>1. Decoded(op)
        BY DecodedIs
      <4>2. Yields(new, b)
        BY <1>1, <4>1, PathedYields
      <4>3. PICK x \in Good(b) : new = Done(x)
        <5> HIDE DEF new
        <5>1. \A e : new # Fail(e)
          BY <1>1, Outcomes
        <5> QED BY <4>2, <5>1 DEF Yields
      <4> HIDE DEF new
      <4> QED BY <4>3, Outcomes
    <3>3. ApplyFiltered(a, op, res[a], prof) = Done(y)
      <4> HIDE DEF y, new
      <4> QED BY <3>1, <3>2
    <3>4. res[a] \in Good(a) /\ (op.path.sub = Nil \/ op.path.sub \in SubsOf(a))
      BY <1>2, <1>3, <1>6
    <3> HIDE DEF y, new, b
    <3> QED BY <2>4, <3>3, <3>4, FilteredKeeps
  <2>5. next[a] = y
    BY <1>4, <1>6
  <2> HIDE DEF y, b
  <2> QED BY <2>2, <2>3, <2>4, <2>5 DEF Kept
<1> QED BY <1>5, <1>6

LEMMA PerformKeeps ==
  ASSUME NEW op \in DecodedOps, NEW res \in Resources, NEW prof,
         NEW next, Perform(op, res, prof) = Done(next), NEW a \in Attrs
  PROVE  Kept(op, res, next, a)
<1>1. \A x : Done(next) # Fail(x)
  BY Outcomes
<1>2. CASE op.path # Nil
  <2>1. Perform(op, res, prof) = ApplyPathed(op, res, prof)
    BY <1>2 DEF Perform
  <2> QED BY <2>1, <1>2, PathedKeeps
<1>3. CASE op.path = Nil
  <2>1. op.kind # "remove" /\ op.object # Nil /\ KeyByKey(op, res) = Done(next)
    BY <1>1, <1>3 DEF Perform, KeyByKey
  <2>2. KeyKept(op, res, next)
    BY <1>3, <2>1, KeysKeep
  <2> QED BY <1>3, <2>2 DEF KeyKept, Kept
<1> QED BY <1>2, <1>3

LEMMA StepKeeps ==
  ASSUME Ready, NEW kind, Step(kind), done' > done, NEW a \in Attrs
  PROVE  Kept(ops[done'], work, work', a)
<1>1. /\ done \in Nat /\ ops[done + 1] \in DecodedOps
      /\ \/ Perform(ops[done + 1], work, profile) = Done(work') /\ done' = done + 1
         \/ done' = done
  BY StepApplies
<1>2. Perform(ops[done + 1], work, profile) = Done(work') /\ done' = done + 1
  BY <1>1
<1>3. work \in Resources
  BY DEF Ready
<1> QED BY <1>1, <1>2, <1>3, PerformKeeps

(* No operation, whatever its path, filter and value, changes a readOnly   *)
(* attribute or, once it is assigned, an immutable one, but for the add of *)
(* null that ImmutableStays is about; and no write through a value filter  *)
(* takes an immutable sub-attribute's value from an element (checkMutable, *)
(* checkImmutableAttr, checkElemImmutable and checkReplacedElement, at     *)
(* each of the places that write).                                         *)
THEOREM MutabilitySafe == Spec => MutabilityKept
<1> DEFINE Keeps ==
      done' > done =>
        LET op == ops[done']
            written == op.path # Nil /\ op.path.filter # Nil /\ (op.kind # "remove" \/ op.path.sub # Nil)
        IN  \A a \in Attrs :
              /\ Schema[a].mutability = "readOnly" => work'[a] = work[a]
              /\ Schema[a].mutability = "immutable" => work[a] \in {<<>>, work'[a]} \/ NullAdd(op, a)
              /\ \A s \in SubsOf(a) :
                   written /\ Immutable(a, s) => ValuesIn(work[a], s) \subseteq ValuesIn(work'[a], s)
<1>1. ASSUME Ready, [Next]_vars PROVE [Keeps]_vars
  <2>1. CASE UNCHANGED vars
    BY <2>1
  <2>2. ASSUME NEW kind, Step(kind) PROVE Keeps
    <3>1. \A a \in Attrs : done' > done => Kept(ops[done'], work, work', a)
      BY <1>1, <2>2, StepKeeps
    <3> QED BY <3>1 DEF Kept
  <2>3. CASE DecodeMessage
    <3>1. done' = done /\ done \in Nat
      <4>1. done \in 0..(IF ops = Nil THEN 0 ELSE Len(ops)) /\ ops = Nil /\ done' = done
        BY <1>1, <2>3 DEF Ready, DecodeMessage
      <4> QED BY <4>1
    <3> QED BY <3>1
  <2> HIDE DEF Keeps
  <2> QED BY <1>1, <2>1, <2>2, <2>3 DEF Next, ApplyAdd, ApplyRemove, ApplyReplace
<1> QED BY <1>1, StartsReady, NextReady, PTL DEF MutabilityKept, Spec

-----------------------------------------------------------------------------
(* The members of an attribute.                                            *)

LEMMA DemotionKeepsValues ==
  ASSUME NEW n \in Nat, NEW list, DOMAIN list = 1..n, \A i \in 1..n : DOMAIN list[i] = Subs, NEW keep
  PROVE  /\ DOMAIN DemoteOthers(list, keep) = 1..n
         /\ \A i \in 1..n : DemoteOthers(list, keep)[i]["value"] = list[i]["value"]
<1> DEFINE d == [i \in DOMAIN list |-> IF i \in Primaries(list) \ keep
                                       THEN [list[i] EXCEPT !["primary"] = False] ELSE list[i]]
<1>1. DemoteOthers(list, keep) = list \/ DemoteOthers(list, keep) = d
  BY DEF DemoteOthers, False
<1>2. DOMAIN d = 1..n
  OBVIOUS
<1>3. ASSUME NEW i \in 1..n PROVE d[i]["value"] = list[i]["value"]
  <2>1. d[i] = list[i] \/ d[i] = [list[i] EXCEPT !["primary"] = False]
    OBVIOUS
  <2>2. "value" \in Subs /\ "value" # "primary"
    BY DataAssumption
  <2> HIDE DEF d
  <2> QED BY <2>1, <2>2
<1> HIDE DEF d
<1> QED BY <1>1, <1>2, <1>3

LEMMA CoercedFrom ==
  ASSUME NEW a \in Attrs, NEW n \in Nat, NEW ats, DOMAIN ats = 1..n, CoerceElems(a, ats) # Bad
  PROVE  /\ \A k \in DOMAIN CoerceElems(a, ats) :
              \E i \in 1..n : CoerceElems(a, ats)[k] = CoerceMembers(a, ats[i])
         /\ \A i \in 1..n, s \in Subs : CoerceMembers(a, ats[i])[s] # Bad
<1> DEFINE elems == [i \in DOMAIN ats |-> CoerceMembers(a, ats[i])]
           left == {i \in DOMAIN elems : elems[i] # NoSubs}
           kept == Selected(elems, left)
<1>1. CoerceElems(a, ats) = kept /\ ~\E i \in DOMAIN elems, s \in Subs : elems[i][s] = Bad
  BY DEF CoerceElems, WithoutEmpty
<1>2. DOMAIN elems = 1..n /\ \A i \in 1..n : elems[i] = CoerceMembers(a, ats[i])
  OBVIOUS
<1>4e. PICK m \in Nat : \E at : Selects(at, m, n, left) /\ kept = Taken(elems, at, m)
  <2> HIDE DEF elems, left
  <2> QED BY <1>2, SelectedAt
<1>4. PICK at : Selects(at, m, n, left) /\ kept = Taken(elems, at, m)
  BY <1>4e
<1>5. \A k \in 1..m : at[k] \in 1..n
  BY <1>4 DEF Selects
<1>6. kept = [k \in 1..m |-> elems[at[k]]]
  BY <1>4 DEF Taken
<1> HIDE DEF elems, left, kept
<1>7. DOMAIN kept = 1..m /\ \A k \in 1..m : kept[k] = elems[at[k]]
  BY <1>6
<1> QED BY <1>1, <1>2, <1>5, <1>7

LEMMA ValuesCoerced ==
  ASSUME NEW a \in Attrs, HasMembers(a), NEW n \in Nat, NEW ats, DOMAIN ats = 1..n,
         NEW out, SetElements(a, ats) = Done(out)
  PROVE  /\ \A z : z \in MemberSet(out) <=>
                    \E i \in 1..n : ats[i]["value"] \notin {Nil, Null} /\ z = Fold[ats[i]["value"]]
         /\ \A i \in 1..n : ats[i]["value"] \in Scalars \cup {Nil, Null}
<1>1. out = CoerceElems(a, ats) /\ CoerceElems(a, ats) # Bad
  <2>1. \A x : Done(out) # Fail(x) /\ (Done(out) = Done(x) => out = x)
    BY Outcomes
  <2>2. SetElements(a, ats) = IF CoerceElems(a, ats) = Bad THEN Fail("invalidValue") ELSE Done(CoerceElems(a, ats))
    BY DEF SetElements, Stored
  <2> QED BY <2>1, <2>2
<1>2. "value" \in Subs /\ "value" \in SubsOf(a)
  BY DataAssumption DEF HasMembers
<1>3. \A i \in 1..n : CoerceMembers(a, ats[i])["value"] = CoerceScalar(a, "value", ats[i]["value"])
  BY <1>2 DEF CoerceMembers
<1>4. \A i \in 1..n : CoerceScalar(a, "value", ats[i]["value"]) # Bad
  BY <1>1, <1>2, <1>3, CoercedFrom
<1>5. Nil \notin Scalars /\ Null \notin Scalars
  BY DataAssumption
<1>6. ASSUME NEW i \in 1..n
      PROVE  LET x == ats[i]["value"]  y == CoerceScalar(a, "value", x)
             IN  (x \in {Nil, Null} /\ y = Nil) \/ (x \in Scalars /\ y \in Scalars /\ Fold[y] = Fold[x])
  <2> DEFINE x == ats[i]["value"]
             t == Schema[a].subs["value"].type
  <2>1. t \in Types
    BY <1>2, SchemaFacts
  <2>2. CoerceScalar(a, "value", x) # Bad
    BY <1>4
  <2>3. x \in Scalars /\ Convert[t][x] # Bad => Convert[t][x] \in Scalars
    BY <2>1, DataAssumption
  <2>4. x \in Scalars /\ Convert[t][x] # Bad => Fold[Convert[t][x]] = Fold[x]
    BY <2>1, ApplyAssumption
  <2>5. x \in {Nil, Null} => CoerceScalar(a, "value", x) = Nil
    BY DEF CoerceScalar
  <2>6. x \notin {Nil, Null} => x \in Scalars /\ CoerceScalar(a, "value", x) = Convert[t][x]
    BY <2>2 DEF CoerceScalar
  <2> HIDE DEF t
  <2> QED BY <2>2, <2>3, <2>4, <2>5, <2>6
<1>7. ASSUME NEW z, z \in MemberSet(out)
      PROVE  \E i \in 1..n : ats[i]["value"] \notin {Nil, Null} /\ z = Fold[ats[i]["value"]]
  <2>1. PICK k \in DOMAIN out : z = Fold[out[k]["value"]] /\ out[k]["value"] # Nil
    BY <1>7 DEF MemberSet, ValuesIn
  <2>2. PICK i \in 1..n : out[k] = CoerceMembers(a, ats[i])
    BY <1>1, CoercedFrom
  <2> QED BY <2>1, <2>2, <1>3, <1>5, <1>6
<1>8. ASSUME NEW i \in 1..n, ats[i]["value"] \notin {Nil, Null}
      PROVE  Fold[ats[i]["value"]] \in MemberSet(out)
  <2>1. CoerceMembers(a, ats[i])["value"] \in Scalars
        /\ Fold[CoerceMembers(a, ats[i])["value"]] = Fold[ats[i]["value"]]
    BY <1>3, <1>6, <1>8
  <2>2. CoerceMembers(a, ats[i]) # NoSubs
    BY <2>1, <1>2, <1>5 DEF NoSubs
  <2>3. PICK k \in DOMAIN out : out[k] = CoerceMembers(a, ats[i])
    BY <1>1, <2>2, CoercedKeeps
  <2> QED BY <2>1, <2>3, <1>5 DEF MemberSet, ValuesIn
<1>9. \A i \in 1..n : ats[i]["value"] \in Scalars \cup {Nil, Null}
  BY <1>6
<1> QED BY <1>7, <1>8, <1>9

(* The stored elements of an attribute with members.                       *)
LEMMA OldMembers ==
  ASSUME NEW a \in Attrs, HasMembers(a), NEW old \in Good(a)
  PROVE  /\ \A i \in DOMAIN old : old[i]["value"] \in Scalars \cup {Nil}
         /\ MemberSet(old) = {Fold[old[i]["value"]] : i \in {j \in DOMAIN old : old[j]["value"] # Nil}}
<1>1. \A i \in DOMAIN old : old[i] \in Elem
  BY OldElements DEF Fits
<1>2. "value" \in Subs
  BY DataAssumption
<1>3. \A i \in DOMAIN old : old[i]["value"] \in Scalars \cup {Nil}
  BY <1>1, <1>2 DEF Elem
<1>4. MemberSet(old) = {Fold[old[i]["value"]] : i \in {j \in DOMAIN old : old[j]["value"] # Nil}}
  BY DEF MemberSet, ValuesIn
<1> QED BY <1>3, <1>4

(* Appending, duplicates skipped, gives the list the values of both.       *)
LEMMA JoinedValues ==
  ASSUME NEW old \in Seq(Elem), NEW incoming \in Seq(Elem)
  PROVE  ValuesIn(Joined(old, incoming), "value") = ValuesIn(old, "value") \cup ValuesIn(incoming, "value")
<1> DEFINE n == Len(incoming)
           V(list) == ValuesIn(list, "value")
           Came(k) == {incoming[j]["value"] : j \in 1..k} \ {Nil}
<1>1. n \in Nat /\ DOMAIN incoming = 1..n /\ \A k \in 1..n : incoming[k] \in Elem
  OBVIOUS
<1>0. Came(n) = V(incoming)
  BY <1>1 DEF ValuesIn
<1> HIDE DEF n
<1>2. PICK f : IsRun(f, n, Seq(Elem), old, JoinSteps(n, incoming)) /\ f[n] = Joined(old, incoming)
  BY <1>1, JoinRuns DEF n
<1>3. f \in [0..n -> Seq(Elem)] /\ f[0] = old
  BY <1>2 DEF IsRun
<1>4. \A k \in 1..n : f[k] = IF Duplicate(f[k - 1], incoming[k]) THEN f[k - 1] ELSE Append(f[k - 1], incoming[k])
  <2>1. \A k \in 1..n : f[k] = JoinSteps(n, incoming)[k][f[k - 1]]
    BY <1>2 DEF IsRun
  <2>2. \A k \in 1..n : k - 1 \in 0..n
    BY <1>1
  <2>3. \A k \in 1..n : f[k - 1] \in Seq(Elem)
    BY <2>2, <1>3
  <2> QED BY <2>1, <2>3 DEF JoinSteps
<1> DEFINE H == {k \in 0..n : V(f[k]) = V(old) \cup Came(k)}
<1>5. 0 \in H
  <2>1. Came(0) = {}
    OBVIOUS
  <2>2. V(f[0]) = V(old) \cup Came(0)
    <3> HIDE DEF V, Came
    <3> QED BY <2>1, <1>3
  <2>3. 0 \in 0..n
    BY <1>1
  <2> HIDE DEF V, Came
  <2> QED BY <2>2, <2>3
<1>6. ASSUME NEW k \in 0..n, k \in H, k < n PROVE k + 1 \in H
  <2> DEFINE out == f[k]
             e == incoming[k + 1]
             x == e["value"]
  <2>1. /\ k \in Nat /\ k + 1 \in 1..n /\ k + 1 \in 0..n /\ (k + 1) - 1 = k /\ e \in Elem
        /\ f[k + 1] = IF Duplicate(out, e) THEN out ELSE Append(out, e)
    BY <1>1, <1>4, <1>6
  <2>2. out \in Seq(Elem) /\ V(out) = V(old) \cup Came(k)
    <3> HIDE DEF V, Came
    <3> QED BY <1>3, <1>6
  <2>3. Came(k + 1) = Came(k) \cup ({x} \ {Nil})
    <3>1. 1..(k + 1) = (1..k) \cup {k + 1}
      BY <2>1
    <3> QED BY <3>1
  <2> HIDE DEF out, e
  <2>4. V(f[k + 1]) = V(out) \cup ({x} \ {Nil})
    <3>1. CASE Duplicate(out, e)
      <4>1. f[k + 1] = out
        BY <3>1, <2>1
      <4>2. x # Nil => \E i \in DOMAIN out : out[i]["value"] = x
        BY <3>1 DEF Duplicate
      <4>3. x # Nil => x \in V(out)
        BY <4>2 DEF ValuesIn
      <4> HIDE DEF V, x
      <4> QED BY <4>1, <4>3
    <3>2. CASE ~Duplicate(out, e)
      <4> DEFINE m == Len(out)
                 next == Append(out, e)
      <4>1. /\ m \in Nat /\ DOMAIN out = 1..m /\ DOMAIN next = 1..(m + 1)
            /\ next[m + 1] = e /\ \A i \in 1..m : next[i] = out[i]
        BY <2>1, <2>2
      <4>2. f[k + 1] = next
        BY <3>2, <2>1
      <4> HIDE DEF next, m
      <4>3. \A y : y \in V(next) <=> y # Nil /\ \E i \in 1..(m + 1) : y = next[i]["value"]
        BY <4>1 DEF ValuesIn
      <4>4. \A y : y \in V(out) <=> y # Nil /\ \E i \in 1..m : y = out[i]["value"]
        BY <4>1 DEF ValuesIn
      <4>5. \A i : i \in 1..(m + 1) <=> i \in 1..m \/ i = m + 1
        BY <4>1
      <4>6. next[m + 1]["value"] = x
        BY <4>1
      <4> HIDE DEF V, x
      <4>7. \A y : y \in V(next) <=> y \in V(out) \/ (y # Nil /\ y = x)
        BY <4>1, <4>3, <4>4, <4>5, <4>6
      <4> QED BY <4>2, <4>7
    <3> QED BY <3>1, <3>2
  <2> HIDE DEF V, Came, x
  <2>5. V(f[k + 1]) = V(old) \cup Came(k + 1)
    BY <2>2, <2>3, <2>4
  <2> QED BY <2>1, <2>5
<1>7. 0..n \subseteq H
  <2> HIDE DEF H
  <2> QED BY <1>1, <1>5, <1>6, UpTo
<1>8. V(f[n]) = V(old) \cup Came(n)
  <2>1. n \in 0..n
    BY <1>1
  <2> HIDE DEF V, Came
  <2> QED BY <2>1, <1>7
<1> HIDE DEF V, Came
<1>9. V(Joined(old, incoming)) = V(old) \cup V(incoming)
  BY <1>0, <1>2, <1>8
<1> QED BY <1>9 DEF V

LEMMA AddedMember ==
  ASSUME NEW a \in Attrs, HasMembers(a), NEW old \in Good(a), NEW v \in RawValue, Len(v.elems) = 1,
         v.elems[1].at["value"] \in Scalars, NEW out, AddToAttribute(a, old, v) = Done(out)
  PROVE  MemberSet(out) = MemberSet(old) \cup {Fold[v.elems[1].at["value"]]}
<1> DEFINE w == Wrap(v)
           x == v.elems[1].at["value"]
           ats == [i \in DOMAIN w.elems |-> w.elems[i].at]
           new == Coerce(a, w)
<1>1. Multi(a)
  BY DEF HasMembers
<1>2. w \in RawValue /\ w.list /\ w.elems = v.elems /\ v.elems \in Seq(RawElem)
  BY DEF Wrap, RawValue
<1>3. new # Bad /\ Done(out) = Done(IF old = <<>> \/ new = <<>> THEN old \o new ELSE AppendNew(old, new))
  <2>1. \A y : Done(out) # Fail(y)
    BY Outcomes
  <2> HIDE DEF new
  <2>2. AddToAttribute(a, old, v) =
          IF new = Bad THEN Fail("invalidValue")
          ELSE Done(IF old = <<>> \/ new = <<>> THEN old \o new ELSE AppendNew(old, new))
    BY <1>1 DEF AddToAttribute, new
  <2> QED BY <2>1, <2>2
<1>4. out = IF old = <<>> \/ new = <<>> THEN old \o new ELSE AppendNew(old, new)
  <2> HIDE DEF new
  <2> QED BY <1>3 DEF Done
<1>5. new = CoerceElems(a, ats)
  <2>1. ~IsNull(w)
    BY <1>2 DEF IsNull
  <2> QED BY <1>3, <2>1 DEF Coerce
<1>6. DOMAIN ats = 1..1 /\ ats[1]["value"] = x
  BY <1>2
<1>7. SetElements(a, ats) = Done(new)
  BY <1>3, <1>5 DEF SetElements, Stored
<1>8. new \in Good(a)
  BY <1>2, <1>3, Coerced
<1> HIDE DEF ats, w
<1>9. MemberSet(new) = {Fold[x]}
  <2> DEFINE N == 1
  <2>1. N \in Nat /\ DOMAIN ats = 1..N
    BY <1>6
  <2> HIDE DEF N, new, x
  <2>2. \A z : z \in MemberSet(new) <=>
               \E i \in 1..N : ats[i]["value"] \notin {Nil, Null} /\ z = Fold[ats[i]["value"]]
    BY <1>7, <2>1, ValuesCoerced
  <2>3. 1 \in 1..N /\ \A i \in 1..N : ats[i]["value"] = x
    BY <1>6 DEF N
  <2>4. x \notin {Nil, Null}
    BY DataAssumption DEF x
  <2> QED BY <2>2, <2>3, <2>4
<1> HIDE DEF new, x
<1>10. old \in Seq(Elem) /\ new \in Seq(Elem)
  BY <1>8 DEF Good
<1>11. ValuesIn(out, "value") = ValuesIn(old, "value") \cup ValuesIn(new, "value")
  <2>1. CASE old = <<>> \/ new = <<>>
    <3>1. \A e : e = <<>> => ValuesIn(e, "value") = {}
      BY DEF ValuesIn
    <3>2. (old = <<>> /\ out = new) \/ (new = <<>> /\ out = old)
      BY <1>4, <1>10, <2>1
    <3> QED BY <3>1, <3>2
  <2>2. CASE ~(old = <<>> \/ new = <<>>)
    <3> DEFINE all == Joined(old, new)
               keep == DOMAIN all \ DOMAIN old
               n == Len(all)
    <3>1. out = DemoteOthers(all, keep)
      BY <1>4, <2>2 DEF AppendNew, Joined
    <3>2. all \in Seq(Elem)
      <4>1. \A i, j \in Primaries(new) : i = j
        BY <1>8, <1>10, GoodIs
      <4>2. JoinedUpTo(all, old, new, Len(new))
        BY <1>10, <4>1, JoinedIs
      <4> HIDE DEF all
      <4> QED BY <4>2 DEF JoinedUpTo
    <3> HIDE DEF all
    <3>3. n \in Nat /\ DOMAIN all = 1..n /\ \A i \in 1..n : DOMAIN all[i] = Subs
      BY <3>2 DEF Elem
    <3> HIDE DEF n, keep
    <3>4. DOMAIN out = 1..n /\ \A i \in 1..n : out[i]["value"] = all[i]["value"]
      BY <3>1, <3>3, DemotionKeepsValues
    <3>5. ValuesIn(out, "value") = ValuesIn(all, "value")
      BY <3>3, <3>4 DEF ValuesIn
    <3>6. ValuesIn(all, "value") = ValuesIn(old, "value") \cup ValuesIn(new, "value")
      BY <1>10, JoinedValues DEF all
    <3> QED BY <3>5, <3>6
  <2> QED BY <2>1, <2>2
<1>12. MemberSet(out) = MemberSet(old) \cup {Fold[x]}
  BY <1>9, <1>11 DEF MemberSet
<1> QED BY <1>12 DEF x

LEMMA SetMember ==
  ASSUME NEW a \in Attrs, HasMembers(a), NEW old \in Good(a), NEW v \in RawValue, Len(v.elems) = 1,
         v.elems[1].at["value"] \in Scalars, NEW out, ReplaceAttribute(a, old, v) = Done(out)
  PROVE  MemberSet(out) = {Fold[v.elems[1].at["value"]]}
<1> DEFINE none == <<>>
<1>1. none \in Good(a)
  BY EmptyGood
<1>2. Multi(a)
  BY DEF HasMembers
<1>3. AddToAttribute(a, none, v) = Done(out)
  <2> DEFINE new == Coerce(a, Wrap(v))
  <2>1. ReplaceAttribute(a, old, v) = Stored(new)
    BY <1>2 DEF ReplaceAttribute
  <2>2. new # Bad /\ out = new
    <3> HIDE DEF new
    <3>1. \A y : Done(out) # Fail(y) /\ (Done(out) = Done(y) => out = y)
      BY Outcomes
    <3> QED BY <2>1, <3>1 DEF Stored
  <2>3. new \in Seq(Elem)
    <3>1. Wrap(v) \in RawValue
      BY DEF Wrap, RawValue
    <3>2. new \in Good(a)
      BY <3>1, <2>2, Coerced
    <3> QED BY <3>2 DEF Good
  <2> HIDE DEF new
  <2>4. AddToAttribute(a, none, v) = Done(none \o new)
    BY <1>2, <2>2 DEF AddToAttribute, new
  <2>5. none \o new = new
    BY <2>3
  <2> QED BY <2>2, <2>4, <2>5
<1>4. MemberSet(none) = {}
  BY DEF MemberSet, ValuesIn
<1> HIDE DEF none
<1>5. MemberSet(out) = MemberSet(none) \cup {Fold[v.elems[1].at["value"]]}
  BY <1>1, <1>3, AddedMember
<1> QED BY <1>4, <1>5

(* A filter "value eq x".                                                  *)
ByValue(f) == f \in Filter /\ ~f.negated /\ NamesOnly(f.eqs) /\ f.eqs["value"] # Null

LEMMA HoldsByValue ==
  ASSUME NEW f, ByValue(f), NEW e
  PROVE  Holds(f, e) <=> e["value"] # Nil /\ Fold[e["value"]] = Fold[f.eqs["value"]]
<1>1. f.negated = FALSE
  BY DEF ByValue, Filter
<1>2. \A s \in Subs : f.eqs[s] # Nil <=> s = "value"
  BY DEF ByValue, NamesOnly
<1>3. f.eqs["value"] # Nil /\ f.eqs["value"] # Null /\ "value" \in Subs
  BY <1>2, DataAssumption DEF ByValue
<1>4. (\A s \in Subs : f.eqs[s] # Nil =>
         IF f.eqs[s] = Null THEN e[s] = Nil ELSE e[s] # Nil /\ Fold[e[s]] = Fold[f.eqs[s]])
      <=> e["value"] # Nil /\ Fold[e["value"]] = Fold[f.eqs["value"]]
  BY <1>2, <1>3
<1> QED BY <1>1, <1>4 DEF Holds

LEMMA HitByValue ==
  ASSUME NEW f, ByValue(f), NEW list
  PROVE  /\ Matches(f, list) \subseteq DOMAIN list
         /\ \A i \in DOMAIN list : i \in Matches(f, list) <=>
              list[i]["value"] # Nil /\ Fold[list[i]["value"]] = Fold[f.eqs["value"]]
BY HoldsByValue DEF Matches

LEMMA NoneHit ==
  ASSUME NEW a \in Attrs, HasMembers(a), NEW old \in Good(a), NEW f, ByValue(f), Matches(f, old) = {}
  PROVE  Fold[f.eqs["value"]] \notin MemberSet(old)
<1>1. \A i \in DOMAIN old : ~(old[i]["value"] # Nil /\ Fold[old[i]["value"]] = Fold[f.eqs["value"]])
  BY HitByValue
<1> QED BY <1>1, OldMembers

LEMMA RemovedMember ==
  ASSUME NEW a \in Attrs, HasMembers(a), NEW old \in Good(a), NEW f, ByValue(f),
         NEW out, RemoveElements(a, old, f) = Done(out)
  PROVE  MemberSet(out) = MemberSet(old) \ {Fold[f.eqs["value"]]}
<1> DEFINE places == DOMAIN old \ Matches(f, old)
           kept == Selected(old, places)
           x == Fold[f.eqs["value"]]
<1>1. out = kept
  <2>1. \A y : Done(out) # Fail(y) /\ (Done(out) = Done(y) => out = y)
    BY Outcomes
  <2>2. RemoveElements(a, old, f) =
          IF Schema[a].required /\ kept = <<>> THEN Fail("mutability") ELSE Done(kept)
    BY DEF RemoveElements
  <2> HIDE DEF kept
  <2> QED BY <2>1, <2>2
<1>2. old \in Seq(Elem)
  BY DEF Good
<1>3. ToSet(kept) = {old[i] : i \in places \cap DOMAIN old}
  <2> HIDE DEF places
  <2> QED BY <1>2, SelectedRange
<1>4. \A e : (\E k \in DOMAIN kept : e = kept[k]) <=> \E i \in places : e = old[i]
  <2>1. \A e : e \in ToSet(kept) <=> \E k \in DOMAIN kept : e = kept[k]
    BY DEF ToSet
  <2> HIDE DEF kept
  <2> QED BY <1>3, <2>1
<1>5. \A i \in DOMAIN old : i \in places <=>
        ~(old[i]["value"] # Nil /\ Fold[old[i]["value"]] = x)
  BY HitByValue
<1>6. \A y : y \in MemberSet(kept) <=> \E k \in DOMAIN kept : kept[k]["value"] # Nil /\ y = Fold[kept[k]["value"]]
  BY DEF MemberSet, ValuesIn
<1>7. \A y : y \in MemberSet(old) <=> \E i \in DOMAIN old : old[i]["value"] # Nil /\ y = Fold[old[i]["value"]]
  BY DEF MemberSet, ValuesIn
<1>8. \A i \in places : i \in DOMAIN old
  OBVIOUS
<1> HIDE DEF kept, places, x
<1>9. \A y : y \in MemberSet(kept) <=> \E i \in places : old[i]["value"] # Nil /\ y = Fold[old[i]["value"]]
  <2>1. ASSUME NEW y, y \in MemberSet(kept) PROVE \E i \in places : old[i]["value"] # Nil /\ y = Fold[old[i]["value"]]
    <3>1. PICK k \in DOMAIN kept : kept[k]["value"] # Nil /\ y = Fold[kept[k]["value"]]
      BY <2>1, <1>6
    <3>2. PICK i \in places : kept[k] = old[i]
      BY <3>1, <1>4
    <3> QED BY <3>1, <3>2
  <2>2. ASSUME NEW i \in places, old[i]["value"] # Nil PROVE Fold[old[i]["value"]] \in MemberSet(kept)
    <3>1. PICK k \in DOMAIN kept : old[i] = kept[k]
      BY <2>2, <1>4
    <3> QED BY <3>1, <2>2, <1>6
  <2> QED BY <2>1, <2>2
<1>10. MemberSet(kept) = MemberSet(old) \ {x}
  <2>1. \A y : y \in MemberSet(kept) <=> y \in MemberSet(old) /\ y # x
    BY <1>5, <1>7, <1>8, <1>9
  <2> QED BY <2>1
<1> QED BY <1>1, <1>10 DEF x

(* Every element found gets the value y, or loses its own.                 *)
LEMMA WrittenMembers ==
  ASSUME NEW a \in Attrs, HasMembers(a), NEW old \in Good(a), NEW f, ByValue(f),
         NEW y \in Scalars \cup {Nil},
         NEW out, NEW again, SetElements(a, again) = Done(out), DOMAIN again = DOMAIN old,
         \A i \in DOMAIN old : again[i]["value"] = IF i \in Matches(f, old) THEN y ELSE old[i]["value"]
  PROVE  /\ y = Nil => MemberSet(out) = MemberSet(old) \ {Fold[f.eqs["value"]]}
         /\ y # Nil /\ Matches(f, old) # {} =>
              MemberSet(out) = (MemberSet(old) \ {Fold[f.eqs["value"]]}) \cup {Fold[y]}
<1> DEFINE n == Len(old)
           x == Fold[f.eqs["value"]]
           hit == Matches(f, old)
<1>1. n \in Nat /\ DOMAIN old = 1..n /\ \A i \in 1..n : DOMAIN old[i] = Subs
  BY OldElements
<1>2. "value" \in Subs /\ Nil \notin Scalars /\ Null \notin Scalars /\ Nil # Null
  BY DataAssumption
<1>3. hit \subseteq 1..n /\ \A i \in 1..n : i \in hit <=> old[i]["value"] # Nil /\ Fold[old[i]["value"]] = x
  BY <1>1, HitByValue
<1>4. \A i \in 1..n : old[i]["value"] \in Scalars \cup {Nil}
  BY <1>1, OldMembers
<1>5. \A i \in 1..n : again[i]["value"] = IF i \in hit THEN y ELSE old[i]["value"]
  BY <1>1, <1>2
<1>7. \A z : z \in MemberSet(out) <=> \E i \in 1..n : again[i]["value"] \notin {Nil, Null} /\ z = Fold[again[i]["value"]]
  <2> HIDE DEF n
  <2> QED BY <1>1, ValuesCoerced
<1>8. \A z : z \in MemberSet(old) <=> \E i \in 1..n : old[i]["value"] # Nil /\ z = Fold[old[i]["value"]]
  BY <1>1 DEF MemberSet, ValuesIn
<1> HIDE DEF n, hit, x
<1>9. \A i \in 1..n : again[i]["value"] \notin {Nil, Null} <=>
        IF i \in hit THEN y # Nil ELSE old[i]["value"] # Nil
  BY <1>2, <1>4, <1>5
<1>10. \A z : z \in MemberSet(out) <=> \/ z \in MemberSet(old) /\ z # x
                                       \/ y # Nil /\ hit # {} /\ z = Fold[y]
  <2>1. ASSUME NEW z, z \in MemberSet(out)
        PROVE  (z \in MemberSet(old) /\ z # x) \/ (y # Nil /\ hit # {} /\ z = Fold[y])
    <3>1. PICK i \in 1..n : again[i]["value"] \notin {Nil, Null} /\ z = Fold[again[i]["value"]]
      BY <2>1, <1>7
    <3>2. CASE i \in hit
      BY <3>1, <3>2, <1>5, <1>9
    <3>3. CASE i \notin hit
      BY <3>1, <3>3, <1>3, <1>5, <1>8, <1>9
    <3> QED BY <3>2, <3>3
  <2>2. ASSUME NEW z, z \in MemberSet(old), z # x PROVE z \in MemberSet(out)
    <3>1. PICK i \in 1..n : old[i]["value"] # Nil /\ z = Fold[old[i]["value"]]
      BY <2>2, <1>8
    <3>2. i \notin hit
      BY <3>1, <2>2, <1>3
    <3> QED BY <3>1, <3>2, <1>5, <1>7, <1>9
  <2>3. ASSUME NEW i \in hit, y # Nil PROVE Fold[y] \in MemberSet(out)
    <3>1. i \in 1..n
      BY <1>3
    <3> QED BY <3>1, <2>3, <1>5, <1>7, <1>9
  <2> QED BY <2>1, <2>2, <2>3
<1>11. y = Nil => MemberSet(out) = MemberSet(old) \ {x}
  BY <1>10
<1>12. y # Nil /\ hit # {} => MemberSet(out) = (MemberSet(old) \ {x}) \cup {Fold[y]}
  BY <1>10
<1> QED BY <1>11, <1>12 DEF x, hit

LEMMA StrippedMember ==
  ASSUME NEW a \in Attrs, HasMembers(a), NEW old \in Good(a), NEW f, ByValue(f),
         NEW out, RemoveSub(a, old, Matches(f, old), "value") = Done(out)
  PROVE  MemberSet(out) = MemberSet(old) \ {Fold[f.eqs["value"]]}
<1> DEFINE list == [i \in DOMAIN old |-> IF i \in Matches(f, old) THEN [old[i] EXCEPT !["value"] = Nil] ELSE old[i]]
<1>1. SetElements(a, list) = Done(out)
  <2>1. \A y : Done(out) # Fail(y)
    BY Outcomes
  <2> QED BY <2>1 DEF RemoveSub
<1>2. DOMAIN list = DOMAIN old
  OBVIOUS
<1>3. \A i \in DOMAIN old : DOMAIN old[i] = Subs /\ "value" \in Subs
  BY OldElements, DataAssumption
<1>4. \A i \in DOMAIN old : list[i]["value"] = IF i \in Matches(f, old) THEN Nil ELSE old[i]["value"]
  BY <1>3
<1> HIDE DEF list
<1> QED BY <1>1, <1>2, <1>3, <1>4, WrittenMembers

LEMMA ReplacedMember ==
  ASSUME NEW a \in Attrs, HasMembers(a), NEW old \in Good(a), NEW f, ByValue(f), Matches(f, old) # {},
         NEW v \in RawValue, v.elems[1].at["value"] \in Scalars,
         NEW out, WriteToElements(a, old, Matches(f, old), "value", v) = Done(out)
  PROVE  MemberSet(out) = (MemberSet(old) \ {Fold[f.eqs["value"]]}) \cup {Fold[v.elems[1].at["value"]]}
<1> DEFINE y == ScalarOf(v)
           hit == Matches(f, old)
           at == [NoSubs EXCEPT !["value"] = y]
           new == [i \in DOMAIN old |->
                     IF i \notin hit THEN old[i] ELSE [old[i] EXCEPT !["value"] = at["value"]]]
           list == [i \in DOMAIN old |-> IF i \in hit THEN [old[i] EXCEPT !["value"] = y] ELSE old[i]]
           again == DemoteOthers(new, hit)
           n == Len(old)
<1>1. "value" \in Subs /\ "value" # Nil
  BY DataAssumption
<1>2. at["value"] = y
  BY <1>1 DEF NoSubs
<1>3. new = list
  <2> HIDE DEF at, y
  <2> QED BY <1>2
<1>4. SetElements(a, again) = Done(out)
  <2>1. \A z : Done(out) # Fail(z)
    BY Outcomes
  <2> QED BY <1>1, <2>1 DEF WriteToElements
<1>5. n \in Nat /\ DOMAIN old = 1..n /\ \A i \in 1..n : DOMAIN old[i] = Subs
  BY OldElements
<1>6. DOMAIN new = 1..n /\ \A i \in 1..n : DOMAIN new[i] = Subs
  <2>1. \A i \in 1..n : new[i] = old[i] \/ new[i] = [old[i] EXCEPT !["value"] = at["value"]]
    BY <1>5
  <2>2. DOMAIN new = 1..n
    BY <1>5
  <2> HIDE DEF new, at, n
  <2> QED BY <1>5, <2>1, <2>2
<1>7. DOMAIN again = 1..n /\ \A i \in 1..n : again[i]["value"] = new[i]["value"]
  <2> HIDE DEF new, n, hit
  <2> QED BY <1>5, <1>6, DemotionKeepsValues
<1>8. Matches(f, old) \subseteq DOMAIN old
  BY HitByValue
<1>9. y = v.elems[1].at["value"] /\ y \in Scalars
  <2>1. PICK i \in hit : i \in 1..n
    BY <1>5, <1>8
  <2>2. \A j \in 1..n : again[j]["value"] \in Scalars \cup {Nil, Null}
    <3> HIDE DEF again, n
    <3> QED BY <1>4, <1>5, <1>7, ValuesCoerced
  <2>3. again[i]["value"] = y
    <3>1. list[i]["value"] = y
      BY <1>1, <1>5, <2>1
    <3> HIDE DEF again, list, new, y
    <3> QED BY <3>1, <2>1, <1>3, <1>7
  <2>4. y \in Scalars \cup {Nil, Null}
    <3> HIDE DEF again, y
    <3> QED BY <2>1, <2>2, <2>3
  <2>5. Null \notin Scalars /\ Nil \notin Scalars /\ Bad \notin Scalars /\ Nil # Null /\ Bad # Nil /\ Bad # Null
    BY DataAssumption
  <2>6. v.list \in BOOLEAN /\ v.elems \in Seq(RawElem) /\ (v.list \/ Len(v.elems) = 1)
    BY RawValueIs
  <2>7. ~IsNull(v)
    <3>1. SUFFICES ASSUME IsNull(v) PROVE FALSE
      OBVIOUS
    <3>2. v.elems[1] \in RawElem /\ v.elems[1].form = "null"
      BY <3>1, <2>6 DEF IsNull
    <3> QED BY <3>2, <2>5, RawElemIs
  <2>8. y = Bad \/ y = v.elems[1].at["value"]
    BY <2>7 DEF ScalarOf
  <2> QED BY <2>4, <2>5, <2>8
<1> HIDE DEF y, list, again, new, at
<1>10. \A i \in DOMAIN old : again[i]["value"] = IF i \in Matches(f, old) THEN y ELSE old[i]["value"]
  <2>1. \A i \in DOMAIN old : list[i]["value"] = IF i \in Matches(f, old) THEN y ELSE old[i]["value"]
    BY <1>1, <1>5 DEF list
  <2> QED BY <2>1, <1>3, <1>5, <1>7
<1>11. MemberSet(out) = (MemberSet(old) \ {Fold[f.eqs["value"]]}) \cup {Fold[y]}
  <2>1. y \in Scalars \cup {Nil} /\ y # Nil
    BY <1>9, DataAssumption
  <2>2. DOMAIN again = DOMAIN old
    BY <1>5, <1>7
  <2> HIDE DEF hit
  <2>4. y # Nil /\ Matches(f, old) # {} =>
          MemberSet(out) = (MemberSet(old) \ {Fold[f.eqs["value"]]}) \cup {Fold[y]}
    BY <1>4, <1>10, <2>1, <2>2, WrittenMembers
  <2> QED BY <2>1, <2>4
<1> QED BY <1>9, <1>11

LEMMA SynthesizedMember ==
  ASSUME NEW a \in Attrs, HasMembers(a), NEW old \in Good(a), NEW f, ByValue(f),
         NEW v \in RawValue, v.elems[1].at["value"] \in Scalars,
         NEW out, Synthesize(a, old, f, "value", v) = Done(out)
  PROVE  MemberSet(out) = MemberSet(old) \cup {Fold[v.elems[1].at["value"]]}
<1> DEFINE y == ScalarOf(v)
           seed == [t \in Subs |-> IF f.eqs[t] = Null THEN Nil ELSE f.eqs[t]]
           new == [seed EXCEPT !["value"] = y]
           all == Append(old, new)
           n == Len(old)
           again == DemoteOthers(all, {n + 1})
<1>1. "value" \in Subs /\ "value" # Nil
  BY DataAssumption
<1>2. SetElements(a, again) = Done(out)
  <2>1. \A z : Done(out) # Fail(z)
    BY Outcomes
  <2> QED BY <1>1, <2>1 DEF Synthesize
<1>3. n \in Nat /\ DOMAIN old = 1..n /\ \A i \in 1..n : DOMAIN old[i] = Subs
  BY OldElements
<1>4. DOMAIN new = Subs /\ new["value"] = y
  BY <1>1
<1>5. DOMAIN all = 1..(n + 1) /\ all[n + 1] = new /\ \A i \in 1..n : all[i] = old[i]
  <2>1. old \in Seq(Elem)
    BY DEF Good
  <2> HIDE DEF new
  <2> QED BY <2>1
<1> DEFINE m == n + 1
<1>6. m \in Nat /\ DOMAIN all = 1..m /\ \A i \in 1..m : DOMAIN all[i] = Subs
  <2> HIDE DEF all, new, n
  <2> QED BY <1>3, <1>4, <1>5
<1>7. DOMAIN again = 1..m /\ \A i \in 1..m : again[i]["value"] = all[i]["value"]
  <2> HIDE DEF all, m
  <2> QED BY <1>6, DemotionKeepsValues
<1>8. /\ \A z : z \in MemberSet(out) <=>
               \E i \in 1..m : again[i]["value"] \notin {Nil, Null} /\ z = Fold[again[i]["value"]]
      /\ \A i \in 1..m : again[i]["value"] \in Scalars \cup {Nil, Null}
  <2> HIDE DEF again, all, new, seed, m, y
  <2>1. m \in Nat /\ DOMAIN again = 1..m
    BY <1>6, <1>7
  <2> QED BY <1>2, <2>1, ValuesCoerced
<1>9. again[m]["value"] = y /\ m \in 1..m /\ \A i \in 1..n : i \in 1..m /\ again[i]["value"] = old[i]["value"]
  <2> HIDE DEF again, all, new, n, y
  <2> QED BY <1>3, <1>4, <1>5, <1>7
<1>10. y = v.elems[1].at["value"] /\ y \in Scalars
  <2>4. y \in Scalars \cup {Nil, Null}
    <3> HIDE DEF again, y, m
    <3> QED BY <1>8, <1>9
  <2>5. Null \notin Scalars /\ Nil \notin Scalars /\ Bad \notin Scalars /\ Nil # Null /\ Bad # Nil /\ Bad # Null
    BY DataAssumption
  <2>6. v.list \in BOOLEAN /\ v.elems \in Seq(RawElem) /\ (v.list \/ Len(v.elems) = 1)
    BY RawValueIs
  <2>7. ~IsNull(v)
    <3>1. SUFFICES ASSUME IsNull(v) PROVE FALSE
      OBVIOUS
    <3>2. v.elems[1] \in RawElem /\ v.elems[1].form = "null"
      BY <3>1, <2>6 DEF IsNull
    <3> QED BY <3>2, <2>5, RawElemIs
  <2>8. y = Bad \/ y = v.elems[1].at["value"]
    BY <2>7 DEF ScalarOf
  <2> QED BY <2>4, <2>5, <2>8
<1>11. \A i \in 1..n : old[i]["value"] \in Scalars \cup {Nil}
  BY <1>3, OldMembers
<1>12. \A z : z \in MemberSet(old) <=> \E i \in 1..n : old[i]["value"] # Nil /\ z = Fold[old[i]["value"]]
  BY <1>3 DEF MemberSet, ValuesIn
<1>13. \A i : i \in 1..m <=> i \in 1..n \/ i = m
  BY <1>3
<1> HIDE DEF y, again, all, new, n, m
<1>14. MemberSet(out) = MemberSet(old) \cup {Fold[y]}
  <2>1. Null \notin Scalars /\ Nil \notin Scalars /\ Nil # Null
    BY DataAssumption
  <2>2. \A z : z \in MemberSet(out) <=> z \in MemberSet(old) \/ z = Fold[y]
    BY <2>1, <1>8, <1>9, <1>10, <1>11, <1>12, <1>13
  <2> QED BY <2>2
<1> QED BY <1>10, <1>14

(* The operations that name members, and the MemberPatch operation each is. *)
NamesOne(v) == Len(v.elems) = 1 /\ v.elems[1].at["value"] \in Scalars

LEMMA MemberOps ==
  ASSUME NEW op \in DecodedOps, op.path # Nil, AsMember(op) # Nil
  PROVE  LET f == op.path.filter  s == op.path.sub  v == op.value  as == AsMember(op)
         IN  \/ /\ op.kind = "remove" /\ s = Nil /\ f = Nil /\ as.kind = "clear"
             \/ /\ op.kind = "add" /\ s = Nil /\ f = Nil /\ v \in RawValue /\ NamesOne(v)
                /\ as.kind = "add" /\ as.value = Fold[v.elems[1].at["value"]]
             \/ /\ op.kind = "replace" /\ s = Nil /\ f = Nil /\ v \in RawValue /\ NamesOne(v)
                /\ as.kind = "set" /\ as.value = Fold[v.elems[1].at["value"]]
             \/ /\ op.kind = "remove" /\ s \in {Nil, "value"} /\ f # Nil /\ ByValue(f)
                /\ as.kind \in {"remove", "strip"} /\ as.value = Fold[f.eqs["value"]]
             \/ /\ op.kind = "replace" /\ s = "value" /\ f # Nil /\ ByValue(f) /\ v \in RawValue /\ NamesOne(v)
                /\ as.kind = "replace" /\ as.value = Fold[f.eqs["value"]]
                /\ as.with = Fold[v.elems[1].at["value"]]
<1> DEFINE f == op.path.filter
           s == op.path.sub
           v == op.value
           as == AsMember(op)
           M(kind, x, y) == [kind |-> kind, value |-> Fold[x], with |-> Fold[y]]
           sent == IF v # Nil /\ Len(v.elems) = 1 THEN v.elems[1].at ELSE NoSubs
           named == sent["value"] \in Scalars
           x == IF named THEN sent["value"] ELSE "x"
<1>1. /\ op.kind \in Kinds /\ op.path \in Paths /\ v \in RawValue \cup {Nil}
      /\ op.kind # "remove" => v \in RawValue
  BY DecodedOpIs
<1>2. f \in Filter \cup {Nil} /\ s \in Subs \cup {Nil}
  BY <1>1 DEF Paths
<1>3. Nil \notin Scalars /\ "value" \in Subs /\ Nil # "value"
  BY DataAssumption
<1>4. named => v # Nil /\ NamesOne(v) /\ x = v.elems[1].at["value"]
  <2>1. NoSubs["value"] = Nil
    BY <1>3 DEF NoSubs
  <2> QED BY <2>1, <1>3 DEF NamesOne
<1>5. as = IF op.path = Nil \/ s \notin {Nil, "value"} THEN Nil
           ELSE IF f = Nil /\ s = Nil
           THEN CASE op.kind = "remove" -> M("clear", "x", "x")
                  [] op.kind = "add" /\ named -> M("add", x, x)
                  [] op.kind = "replace" /\ named -> M("set", x, x)
                  [] OTHER -> Nil
           ELSE IF f = Nil \/ f.negated \/ ~NamesOnly(f.eqs) \/ f.eqs["value"] = Null THEN Nil
           ELSE CASE op.kind = "remove" -> M(IF s = Nil THEN "remove" ELSE "strip", f.eqs["value"], "x")
                  [] op.kind = "replace" /\ s = "value" /\ named -> M("replace", f.eqs["value"], x)
                  [] OTHER -> Nil
  BY DEF AsMember
<1>6. \A k, y, z : M(k, y, z).kind = k /\ M(k, y, z).value = Fold[y] /\ M(k, y, z).with = Fold[z]
  OBVIOUS
<1> HIDE DEF as, sent, named, x, M
<1>7. as # Nil /\ s \in {Nil, "value"}
  BY <1>5 DEF as
<1>8. CASE f = Nil /\ s = Nil
  <2>1. as = CASE op.kind = "remove" -> M("clear", "x", "x")
               [] op.kind = "add" /\ named -> M("add", x, x)
               [] op.kind = "replace" /\ named -> M("set", x, x)
               [] OTHER -> Nil
    BY <1>5, <1>7, <1>8
  <2>2. \/ op.kind = "remove" /\ as = M("clear", "x", "x")
        \/ op.kind = "add" /\ named /\ as = M("add", x, x)
        \/ op.kind = "replace" /\ named /\ as = M("set", x, x)
    BY <2>1, <1>7
  <2> HIDE DEF f, s, v
  <2>3. \/ op.kind = "remove" /\ as.kind = "clear"
        \/ op.kind = "add" /\ v \in RawValue /\ NamesOne(v) /\ as.kind = "add" /\ as.value = Fold[v.elems[1].at["value"]]
        \/ op.kind = "replace" /\ v \in RawValue /\ NamesOne(v) /\ as.kind = "set" /\ as.value = Fold[v.elems[1].at["value"]]
    <3>1. ASSUME op.kind = "remove", as = M("clear", "x", "x") PROVE as.kind = "clear"
      BY <3>1, <1>6
    <3>2. ASSUME op.kind = "add", named, as = M("add", x, x)
          PROVE  v \in RawValue /\ NamesOne(v) /\ as.kind = "add" /\ as.value = Fold[v.elems[1].at["value"]]
      BY <3>2, <1>1, <1>4, <1>6
    <3>3. ASSUME op.kind = "replace", named, as = M("set", x, x)
          PROVE  v \in RawValue /\ NamesOne(v) /\ as.kind = "set" /\ as.value = Fold[v.elems[1].at["value"]]
      BY <3>3, <1>1, <1>4, <1>6
    <3> QED BY <2>2, <3>1, <3>2, <3>3
  <2> QED BY <2>3, <1>8 DEF f, s, v, as
<1>9. CASE ~(f = Nil /\ s = Nil)
  <2>1. f # Nil /\ ~f.negated /\ NamesOnly(f.eqs) /\ f.eqs["value"] # Null
    <3> HIDE DEF f, s
    <3> QED BY <1>5, <1>7, <1>9
  <2>2. ByValue(f)
    BY <2>1, <1>2 DEF ByValue
  <2>3. as = CASE op.kind = "remove" -> M(IF s = Nil THEN "remove" ELSE "strip", f.eqs["value"], "x")
               [] op.kind = "replace" /\ s = "value" /\ named -> M("replace", f.eqs["value"], x)
               [] OTHER -> Nil
    <3> HIDE DEF f, s
    <3> QED BY <1>5, <1>7, <1>9, <2>1
  <2>4. \/ op.kind = "remove" /\ as = M(IF s = Nil THEN "remove" ELSE "strip", f.eqs["value"], "x")
        \/ op.kind = "replace" /\ s = "value" /\ named /\ as = M("replace", f.eqs["value"], x)
    <3> HIDE DEF f, s
    <3> QED BY <2>3, <1>7
  <2> HIDE DEF f, s, v
  <2>5. \/ op.kind = "remove" /\ as.kind \in {"remove", "strip"} /\ as.value = Fold[f.eqs["value"]]
        \/ /\ op.kind = "replace" /\ s = "value" /\ v \in RawValue /\ NamesOne(v)
           /\ as.kind = "replace" /\ as.value = Fold[f.eqs["value"]] /\ as.with = Fold[v.elems[1].at["value"]]
    <3>1. ASSUME op.kind = "remove", as = M(IF s = Nil THEN "remove" ELSE "strip", f.eqs["value"], "x")
          PROVE  as.kind \in {"remove", "strip"} /\ as.value = Fold[f.eqs["value"]]
      BY <3>1, <1>6
    <3>2. ASSUME op.kind = "replace", named, as = M("replace", f.eqs["value"], x)
          PROVE  /\ v \in RawValue /\ NamesOne(v)
                 /\ as.kind = "replace" /\ as.value = Fold[f.eqs["value"]] /\ as.with = Fold[v.elems[1].at["value"]]
      BY <3>2, <1>1, <1>4, <1>6
    <3> QED BY <2>4, <3>1, <3>2
  <2> QED BY <2>1, <2>2, <2>5, <1>7 DEF f, s, v, as
<1> QED BY <1>8, <1>9

LEMMA MembersPatched ==
  ASSUME NEW op \in DecodedOps, op.path # Nil, AsMember(op) # Nil,
         NEW res \in Resources, NEW prof, HasMembers(op.path.attr), op.path.attr \in Attrs,
         NEW out, Pathed(op, res, prof) = Done(out)
  PROVE  MemberSet(out) = Applied(MemberSet(res[op.path.attr]), AsMember(op))
<1> DEFINE a == op.path.attr
           f == op.path.filter
           s == op.path.sub
           v == op.value
           as == AsMember(op)
           old == res[a]
           hit == Matches(f, old)
           members == MemberSet(old)
<1>1. old \in Good(a)
  BY ResourceWith
<1>2. Multi(a) /\ Schema[a].complex
  BY DEF HasMembers
<1>3. \A y : Done(out) # Fail(y) /\ (Done(out) = Done(y) => out = y)
  BY Outcomes
<1>4. "value" # Nil
  BY DataAssumption
<1>5. f # Nil => Pathed(op, res, prof) = ApplyFiltered(a, op, old, prof)
  BY DEF Pathed
<1> DEFINE Mapped == MemberSet(out) = Applied(members, as)
<1>6. ASSUME op.kind = "remove", s = Nil, f = Nil, as.kind = "clear" PROVE Mapped
  <2>1. Pathed(op, res, prof) = Done(<<>>)
    BY <1>6 DEF Pathed
  <2>2. out = <<>>
    BY <2>1, <1>3
  <2>3. MemberSet(out) = {}
    BY <2>2 DEF MemberSet, ValuesIn
  <2>4. Applied(members, as) = {}
    <3> HIDE DEF as, members
    <3> QED BY <1>6 DEF Applied
  <2> QED BY <2>3, <2>4
<1>7. ASSUME op.kind = "add", s = Nil, f = Nil, v \in RawValue, NamesOne(v),
             as.kind = "add", as.value = Fold[v.elems[1].at["value"]]
      PROVE  Mapped
  <2>1. AddToAttribute(a, old, v) = Done(out)
    BY <1>7 DEF Pathed
  <2>2. MemberSet(out) = members \cup {as.value}
    <3> HIDE DEF old, v, a, as
    <3> QED BY <2>1, <1>1, <1>7, AddedMember DEF NamesOne, a
  <2>3. Applied(members, as) = members \cup {as.value}
    <3> HIDE DEF as, members
    <3> QED BY <1>7 DEF Applied
  <2> QED BY <2>2, <2>3
<1>8. ASSUME op.kind = "replace", s = Nil, f = Nil, v \in RawValue, NamesOne(v),
             as.kind = "set", as.value = Fold[v.elems[1].at["value"]]
      PROVE  Mapped
  <2>1. ReplaceAttribute(a, old, v) = Done(out)
    BY <1>8 DEF Pathed
  <2>2. MemberSet(out) = {as.value}
    <3> HIDE DEF old, v, a, as
    <3> QED BY <2>1, <1>1, <1>8, SetMember DEF NamesOne, a
  <2>3. Applied(members, as) = {as.value}
    <3> HIDE DEF as, members
    <3> QED BY <1>8 DEF Applied
  <2> QED BY <2>2, <2>3
<1>9. ASSUME op.kind = "remove", s \in {Nil, "value"}, f # Nil, ByValue(f),
             as.kind \in {"remove", "strip"}, as.value = Fold[f.eqs["value"]]
      PROVE  Mapped
  <2>1. ApplyFiltered(a, op, old, prof) =
          IF hit = {} THEN Done(old)
          ELSE IF s # Nil THEN RemoveSub(a, old, hit, s) ELSE RemoveElements(a, old, f)
    BY <1>2, <1>9 DEF ApplyFiltered
  <2>2. MemberSet(out) = members \ {as.value}
    <3>1. CASE hit = {}
      <4>1. out = old
        <5> HIDE DEF old, hit
        <5> QED BY <3>1, <2>1, <1>3, <1>5, <1>9
      <4>2. as.value \notin members
        <5> HIDE DEF old, a, as, f
        <5> QED BY <3>1, <1>1, <1>9, NoneHit DEF a
      <4> QED BY <4>1, <4>2
    <3>2. CASE hit # {} /\ s = Nil
      <4>1. RemoveElements(a, old, f) = Done(out)
        <5> HIDE DEF old, hit
        <5> QED BY <3>2, <2>1, <1>5, <1>9
      <4> HIDE DEF old, a, as, f
      <4> QED BY <4>1, <1>1, <1>9, RemovedMember DEF a
    <3>3. CASE hit # {} /\ s = "value"
      <4>1. RemoveSub(a, old, Matches(f, old), "value") = Done(out)
        <5> HIDE DEF old
        <5> QED BY <3>3, <2>1, <1>4, <1>5, <1>9
      <4> HIDE DEF old, a, as, f
      <4> QED BY <4>1, <1>1, <1>9, StrippedMember DEF a
    <3> QED BY <3>1, <3>2, <3>3, <1>9
  <2>3. Applied(members, as) = members \ {as.value}
    <3> HIDE DEF as, members
    <3> QED BY <1>9 DEF Applied
  <2> QED BY <2>2, <2>3
<1>10. ASSUME op.kind = "replace", s = "value", f # Nil, ByValue(f), v \in RawValue, NamesOne(v),
              as.kind = "replace", as.value = Fold[f.eqs["value"]], as.with = Fold[v.elems[1].at["value"]]
       PROVE  Mapped
  <2>1. ApplyFiltered(a, op, old, prof) =
          IF hit = {} THEN IF prof.ReplaceNoTargetAsAdd THEN Synthesize(a, old, f, s, v) ELSE Fail("noTarget")
          ELSE WriteToElements(a, old, hit, s, v)
    BY <1>2, <1>4, <1>10 DEF ApplyFiltered
  <2>2. MemberSet(out) = (members \ {as.value}) \cup {as.with}
    <3>1. CASE hit = {}
      <4>1. Synthesize(a, old, f, "value", v) = Done(out)
        <5> HIDE DEF old, hit
        <5> QED BY <3>1, <2>1, <1>3, <1>5, <1>10
      <4> HIDE DEF old, a, as, f, v
      <4>2. as.value \notin members
        BY <3>1, <1>1, <1>10, NoneHit DEF a
      <4>3. MemberSet(out) = members \cup {as.with}
        BY <4>1, <1>1, <1>10, SynthesizedMember DEF a, NamesOne
      <4> QED BY <4>2, <4>3
    <3>2. CASE hit # {}
      <4>1. WriteToElements(a, old, Matches(f, old), "value", v) = Done(out)
        <5> HIDE DEF old
        <5> QED BY <3>2, <2>1, <1>5, <1>10
      <4> HIDE DEF old, a, as, f, v
      <4> QED BY <4>1, <3>2, <1>1, <1>10, ReplacedMember DEF a, NamesOne
    <3> QED BY <3>1, <3>2
  <2>3. Applied(members, as) = (members \ {as.value}) \cup {as.with}
    <3> HIDE DEF as, members
    <3> QED BY <1>10 DEF Applied
  <2> QED BY <2>2, <2>3
<1>11. \/ op.kind = "remove" /\ s = Nil /\ f = Nil /\ as.kind = "clear"
       \/ /\ op.kind = "add" /\ s = Nil /\ f = Nil /\ v \in RawValue /\ NamesOne(v)
          /\ as.kind = "add" /\ as.value = Fold[v.elems[1].at["value"]]
       \/ /\ op.kind = "replace" /\ s = Nil /\ f = Nil /\ v \in RawValue /\ NamesOne(v)
          /\ as.kind = "set" /\ as.value = Fold[v.elems[1].at["value"]]
       \/ /\ op.kind = "remove" /\ s \in {Nil, "value"} /\ f # Nil /\ ByValue(f)
          /\ as.kind \in {"remove", "strip"} /\ as.value = Fold[f.eqs["value"]]
       \/ /\ op.kind = "replace" /\ s = "value" /\ f # Nil /\ ByValue(f) /\ v \in RawValue /\ NamesOne(v)
          /\ as.kind = "replace" /\ as.value = Fold[f.eqs["value"]]
          /\ as.with = Fold[v.elems[1].at["value"]]
  <2> HIDE DEF as
  <2> QED BY MemberOps DEF as
<1>12. Mapped
  <2> HIDE DEF Mapped, as, f, s, v
  <2> QED BY <1>6, <1>7, <1>8, <1>9, <1>10, <1>11
<1> QED BY <1>12

(* What PATCH does to the members of an attribute is, for every resource   *)
(* type, resource and message, what the model of the stores and of the     *)
(* request handlers says of one operation on members (appendNew,           *)
(* removeValuePath, removeSubFromElements, replaceValuePath).              *)
THEOREM MemberPatchRefined == Spec => MembersRefined
<1> DEFINE Mapped ==
      \A a \in Attrs :
        LET op == ops[done']
        IN  done' > done /\ op.path # Nil /\ op.path.attr = a /\ HasMembers(a) /\ AsMember(op) # Nil
              => MemberSet(work'[a]) = Applied(MemberSet(work[a]), AsMember(op))
<1>1. ASSUME Ready, [Next]_vars PROVE [Mapped]_vars
  <2>1. CASE UNCHANGED vars
    BY <2>1
  <2>2. ASSUME NEW kind, Step(kind) PROVE Mapped
    <3> SUFFICES ASSUME NEW a \in Attrs, NEW op, op = ops[done'],
                        done' > done, op.path # Nil, op.path.attr = a, HasMembers(a), AsMember(op) # Nil
                 PROVE  MemberSet(work'[a]) = Applied(MemberSet(work[a]), AsMember(op))
      OBVIOUS
    <3>1. /\ done \in Nat /\ ops[done + 1] \in DecodedOps
          /\ \/ Perform(ops[done + 1], work, profile) = Done(work') /\ done' = done + 1
             \/ done' = done
      BY <1>1, <2>2, StepApplies
    <3>2. op \in DecodedOps /\ Perform(op, work, profile) = Done(work') /\ work \in Resources
      BY <3>1, <1>1 DEF Ready
    <3> DEFINE refused == TargetRefusal(op, work)
               new == Pathed(op, work, profile)
    <3>3. refused = Nil /\ new.ok /\ work' = [work EXCEPT ![a] = new.val]
      <4>1. Perform(op, work, profile) =
              IF refused # Nil THEN Fail(refused) ELSE IF ~new.ok THEN new ELSE Done([work EXCEPT ![a] = new.val])
        <5>1. Perform(op, work, profile) = ApplyPathed(op, work, profile)
          BY DEF Perform
        <5> DEFINE b == op.path.attr
        <5>2. ApplyPathed(op, work, profile) =
                IF refused # Nil THEN Fail(refused) ELSE IF ~new.ok THEN new ELSE Done([work EXCEPT ![b] = new.val])
          BY DEF ApplyPathed, Pathed
        <5> HIDE DEF refused, new
        <5> QED BY <5>1, <5>2
      <4>2. \A x : Done(work') # Fail(x) /\ (Done(work') = Done(x) => work' = x) /\ Done(work').ok
        BY Outcomes
      <4> HIDE DEF refused, new
      <4> QED BY <4>1, <4>2, <3>2
    <3>4. new = Done(new.val)
      <4>1. Yields(new, a)
        BY <3>2, <3>3, DecodedIs, PathedYields
      <4>2. \A e : new # Fail(e)
        <5> HIDE DEF new
        <5> QED BY <3>3, Outcomes
      <4> HIDE DEF new
      <4> QED BY <4>1, <4>2, Outcomes DEF Yields
    <3>5. work'[a] = new.val
      <4>1. DOMAIN work = Attrs
        BY <3>2 DEF Resources
      <4> HIDE DEF new
      <4> QED BY <3>3, <4>1
    <3> HIDE DEF new
    <3>6. MemberSet(new.val) = Applied(MemberSet(work[a]), AsMember(op))
      BY <3>2, <3>4, MembersPatched DEF new
    <3> QED BY <3>5, <3>6
  <2>3. CASE DecodeMessage
    <3>1. done' = done /\ done \in Nat
      <4>1. done \in 0..(IF ops = Nil THEN 0 ELSE Len(ops)) /\ ops = Nil /\ done' = done
        BY <1>1, <2>3 DEF Ready, DecodeMessage
      <4> QED BY <4>1
    <3> QED BY <3>1
  <2> HIDE DEF Mapped
  <2> QED BY <1>1, <2>1, <2>2, <2>3 DEF Next, ApplyAdd, ApplyRemove, ApplyReplace
<1> QED BY <1>1, StartsReady, NextReady, PTL DEF MembersRefined, Spec

-----------------------------------------------------------------------------
(* What a remove with a value takes out.                                   *)

(* The filter one element of such a value stands for.                      *)
FilterOf(e) == [eqs |-> SelectorOf(e), negated |-> FALSE]

RemovesValues(raw) == raw.kind = "remove" /\ raw.value # Nil /\ ~IsNull(raw.value)

LEMMA RewritesOrFails ==
  ASSUME NEW raw, RewriteRemove(raw).ok
  PROVE  /\ raw.path # Nil /\ raw.path.sub = Nil
         /\ RewriteRemove(raw) = Done(RewriteRemove(raw).val)
         /\ RewriteRemove(raw).val =
              [i \in DOMAIN raw.value.elems |->
                 Op("remove", [raw.path EXCEPT !.filter = FilterOf(raw.value.elems[i])], Nil, Nil)]
<1>1. \A x : Fail(x).ok = FALSE /\ Done(x).val = x
  BY Outcomes
<1> DEFINE list == [i \in DOMAIN raw.value.elems |->
                      Op("remove", [raw.path EXCEPT !.filter = FilterOf(raw.value.elems[i])], Nil, Nil)]
           Unselectable == \E i \in DOMAIN raw.value.elems : ~Selectable(raw.value.elems[i])
<1>2. RewriteRemove(raw) =
        IF raw.path = Nil \/ raw.path.filter # Nil \/ raw.path.sub # Nil THEN Fail("invalidPath")
        ELSE IF Unselectable THEN Fail("invalidValue") ELSE Done(list)
  BY DEF RewriteRemove, FilterOf
<1> HIDE DEF list, Unselectable
<1>3. raw.path # Nil /\ raw.path.sub = Nil /\ RewriteRemove(raw) = Done(list)
  BY <1>1, <1>2
<1> QED BY <1>1, <1>3 DEF list

(* Alone in a message it decodes to one filtered remove for each element.  *)
LEMMA DecodedRemove ==
  ASSUME NEW m \in Seq(RawOps), Len(m) = 1, NEW prof, RemovesValues(m[1]),
         NEW list, Decode(m, prof) = Done(list)
  PROVE  /\ m[1].value.elems \in Seq(RawElem)
         /\ list = [i \in DOMAIN m[1].value.elems |->
                      Op("remove", PathOf(m[1].path.attr, Nil, FilterOf(m[1].value.elems[i])), Nil, Nil)]
<1> DEFINE raw == m[1]
           each == [i \in DOMAIN m |-> Expand(m[i], prof)]
           raws == FlattenSeq(each)
           built == [i \in DOMAIN raws |-> Build(raws[i], prof)]
           early == {i \in DOMAIN raws : BuildRefusal(raws[i], prof) # Nil}
           late == {i \in DOMAIN raws : ~built[i].ok}
           vals == [i \in DOMAIN raws |-> built[i].val]
           First(I) == CHOOSE i \in I : \A j \in I : i <= j
<1>1. DOMAIN m = 1..1 /\ raw \in RawOps /\ m # <<>>
  OBVIOUS
<1>2. raw.kind = "remove" /\ raw.value # Nil /\ ~IsNull(raw.value)
  BY DEF RemovesValues
<1>3. raws = <<raw>>
  <2>1. Expand(raw, prof) = <<raw>>
    <3> HIDE DEF raw
    <3> QED BY <1>2 DEF Expand
  <2>2. DOMAIN each = 1..1 /\ Len(each) = 1 /\ each[1] = <<raw>>
    BY <1>1, <2>1
  <2> HIDE DEF each
  <2> QED BY <2>2, FlattenedOne
<1>4. DOMAIN raws = 1..1 /\ raws[1] = raw
  <2> HIDE DEF raws, raw
  <2> QED BY <1>3
<1>5. \A x : Fail(x).ok = FALSE /\ Done(x).ok = TRUE /\ Done(x).val = x
  BY Outcomes
<1>6. /\ DOMAIN built = 1..1 /\ built[1] = Build(raw, prof)
      /\ DOMAIN vals = 1..1 /\ Len(vals) = 1 /\ vals[1] = Build(raw, prof).val
  <2> HIDE DEF raws, raw
  <2> QED BY <1>4
<1>7. Decode(m, prof) = IF m = <<>> \/ Len(m) > MaxOperations THEN Fail("invalidSyntax")
                        ELSE IF early # {} THEN built[First(early)]
                        ELSE IF late # {} THEN built[First(late)] ELSE Done(FlattenSeq(vals))
  BY DEF Decode
<1>8. First({1}) = 1
  OBVIOUS
<1>9. early = {}
  <2> SUFFICES ASSUME early # {} PROVE FALSE
    OBVIOUS
  <2>1. early = {1} /\ BuildRefusal(raw, prof) # Nil
    <3> HIDE DEF raws, raw
    <3> QED BY <1>4
  <2>2. Decode(m, prof) = Build(raw, prof) \/ Decode(m, prof) = Fail("invalidSyntax")
    <3> HIDE DEF raws, raw, built, early, late, vals, First
    <3> QED BY <1>6, <1>7, <1>8, <2>1
  <2>3. Build(raw, prof) = Fail(BuildRefusal(raw, prof))
    <3> HIDE DEF raw
    <3> QED BY <2>1 DEF Build
  <2> HIDE DEF raw
  <2> QED BY <2>2, <2>3, <1>5
<1>10. late = {} /\ Build(raw, prof).ok
  <2> SUFFICES ASSUME late # {} \/ ~Build(raw, prof).ok PROVE FALSE
    OBVIOUS
  <2>1. late = {1} /\ ~Build(raw, prof).ok
    <3>1. late = {i \in 1..1 : ~Build(raw, prof).ok}
      <4> HIDE DEF raw, raws, built
      <4> QED BY <1>4, <1>6
    <3> HIDE DEF raw, late
    <3> QED BY <3>1
  <2>2. Decode(m, prof) = Build(raw, prof) \/ Decode(m, prof) = Fail("invalidSyntax")
    <3> HIDE DEF raws, raw, built, early, late, vals, First
    <3> QED BY <1>6, <1>7, <1>8, <1>9, <2>1
  <2> HIDE DEF raw
  <2> QED BY <2>1, <2>2, <1>5
<1>11. list = Build(raw, prof).val
  <2>1. FlattenSeq(vals) = Build(raw, prof).val
    <3> HIDE DEF vals, raw
    <3> QED BY <1>6, FlattenedOne
  <2>2. Decode(m, prof) = Fail("invalidSyntax") \/ Decode(m, prof) = Done(FlattenSeq(vals))
    <3> HIDE DEF raws, raw, built, early, late, vals, First
    <3> QED BY <1>7, <1>9, <1>10
  <2> HIDE DEF vals, raw
  <2> QED BY <2>1, <2>2, <1>5
<1>12. BuildRefusal(raw, prof) = Nil
  <2> HIDE DEF raws
  <2> QED BY <1>4, <1>9
<1>13. RewriteRemove(raw) = Done(list)
  <2>1. Build(raw, prof) = RewriteRemove(raw)
    <3> HIDE DEF raw
    <3> QED BY <1>2, <1>12 DEF Build
  <2> HIDE DEF raw
  <2>2. RewriteRemove(raw) = Done(RewriteRemove(raw).val)
    <3> HIDE DEF raw
    <3> QED BY <2>1, <1>5, <1>10, RewritesOrFails
  <2> HIDE DEF raw
  <2> QED BY <2>1, <2>2, <1>11
<1>14. raw.path \in Paths
  <2>1. raw.path \in Paths \cup {Nil, Malformed} /\ raw.value \in RawValue \cup {Nil}
    <3> HIDE DEF raw
    <3> QED BY <1>1, RawOpIs
  <2>2. raw.path # Malformed
    <3>1. Nil # "invalidPath" /\ Nil # "invalidSyntax"
      BY ApplyAssumption DEF Errors
    <3> HIDE DEF raw
    <3> QED BY <3>1, <1>12 DEF BuildRefusal
  <2>3. raw.path # Nil
    <3> HIDE DEF raw
    <3> QED BY <1>5, <1>13, RewritesOrFails
  <2> QED BY <2>1, <2>2, <2>3
<1>15. raw.value.elems \in Seq(RawElem)
  <2>1. raw.value \in RawValue
    <3> HIDE DEF raw
    <3> QED BY <1>1, <1>2, RawOpIs
  <2> QED BY <2>1, RawValueIs
<1> DEFINE es == raw.value.elems
           Plain(i) == Op("remove", [raw.path EXCEPT !.filter = FilterOf(es[i])], Nil, Nil)
           Given(i) == Op("remove", PathOf(raw.path.attr, Nil, FilterOf(es[i])), Nil, Nil)
<1>16. raw.path.sub = Nil /\ list = [i \in DOMAIN es |-> Plain(i)]
  <2>1. raw.path.sub = Nil /\ RewriteRemove(raw).val = [i \in DOMAIN es |-> Plain(i)]
    <3> HIDE DEF raw
    <3> QED BY <1>13, <1>5, RewritesOrFails DEF FilterOf
  <2> HIDE DEF raw
  <2> QED BY <2>1, <1>13, <1>5
<1>17. \A i \in DOMAIN es : Plain(i) = Given(i)
  <2>1. \A f : [raw.path EXCEPT !.filter = f] = PathOf(raw.path.attr, Nil, f)
    <3> HIDE DEF raw
    <3> QED BY <1>14, <1>16 DEF Paths, PathOf
  <2> HIDE DEF raw
  <2> QED BY <2>1
<1>18. list = [i \in DOMAIN es |-> Given(i)]
  <2> HIDE DEF Plain, Given, es
  <2> QED BY <1>16, <1>17
<1> QED BY <1>15, <1>18

Unmatched(f, list) == {i \in DOMAIN list : ~Holds(f, list[i])}

(* One such remove takes out the elements its filter holds for.            *)
LEMMA SelectorApplies ==
  ASSUME NEW a, NEW f \in Filter, NEW res \in Resources, NEW prof, NEW next,
         Perform(Op("remove", PathOf(a, Nil, f), Nil, Nil), res, prof) = Done(next)
  PROVE  /\ a \in Attrs
         /\ next = [res EXCEPT ![a] = Selected(res[a], Unmatched(f, res[a]))]
<1> DEFINE op == Op("remove", PathOf(a, Nil, f), Nil, Nil)
           old == res[a]
           rest == Unmatched(f, old)
           new == ApplyFiltered(a, op, old, prof)
           refused == TargetRefusal(op, res)
<1>1. f # Nil
  BY ApplyAssumption
<1>2. /\ op.kind = "remove" /\ op.path.attr = a /\ op.path.sub = Nil /\ op.path.filter = f
  BY DEF Op, PathOf
<1>3. \A x, y : Done(x) # Fail(y) /\ (Done(x) = Done(y) => x = y) /\ Done(x).ok /\ Done(x).val = x /\ ~Fail(x).ok
  BY Outcomes
<1>4. op.path # Nil
  <2> HIDE DEF op
  <2> QED BY <1>2, <1>3 DEF Perform, op
<1>5. Done(next) = IF refused # Nil THEN Fail(refused)
                   ELSE IF ~new.ok THEN new ELSE Done([res EXCEPT ![a] = new.val])
  <2>1. Done(next) = ApplyPathed(op, res, prof)
    <3> HIDE DEF op
    <3> QED BY <1>4 DEF Perform, op
  <2>2. ApplyPathed(op, res, prof) = IF refused # Nil THEN Fail(refused)
                   ELSE IF ~new.ok THEN new ELSE Done([res EXCEPT ![a] = new.val])
    <3> HIDE DEF op
    <3> QED BY <1>1, <1>2, Zenon DEF ApplyPathed
  <2> QED BY <2>1, <2>2
<1>6. refused = Nil /\ new.ok /\ next = [res EXCEPT ![a] = new.val]
  <2> HIDE DEF new, refused
  <2> QED BY <1>3, <1>5
<1>7. a \in Attrs
  <2> HIDE DEF op
  <2> QED BY <1>2, <1>6, Targeted
<1>8. old \in Seq(Elem)
  BY <1>7, ResourceWith DEF Good
<1>9. /\ rest = DOMAIN old \ Matches(f, old)
      /\ Matches(f, old) = {} => DOMAIN old \subseteq rest
  BY DEF Matches, Unmatched
<1>10. new = Done(Selected(old, rest))
  <2>1. \/ new = Fail("invalidPath")
        \/ Matches(f, old) = {} /\ new = Done(old)
        \/ new = RemoveElements(a, old, f)
    <3> HIDE DEF op, old
    <3> QED BY <1>2 DEF ApplyFiltered
  <2>2. \/ RemoveElements(a, old, f) = Fail("mutability")
        \/ RemoveElements(a, old, f) = Done(Selected(old, rest))
    <3> HIDE DEF rest, old
    <3> QED BY <1>9 DEF RemoveElements
  <2>3. Matches(f, old) = {} => Selected(old, rest) = old
    <3> HIDE DEF rest, old
    <3> QED BY <1>8, <1>9, SelectedAll
  <2> HIDE DEF new, old, rest
  <2> QED BY <2>1, <2>2, <2>3, <1>3, <1>6
<1>11. new.val = Selected(old, rest)
  <2> HIDE DEF new, old, rest
  <2> QED BY <1>10, <1>3
<1> HIDE DEF new
<1> QED BY <1>6, <1>7, <1>11

(* What is left when the first k elements of the value have been applied.  *)
LeftOf(list, es, k) ==
  Selected(list, {i \in DOMAIN list : \A j \in 1..k : ~Holds(FilterOf(es[j]), list[i])})

LEMMA LeftMore ==
  ASSUME NEW list \in Seq(Elem), NEW es, NEW k \in Nat
  PROVE  LET left == LeftOf(list, es, k)
         IN  Selected(left, Unmatched(FilterOf(es[k + 1]), left)) = LeftOf(list, es, k + 1)
<1> DEFINE f == FilterOf(es[k + 1])
           P == {i \in DOMAIN list : \A j \in 1..k : ~Holds(FilterOf(es[j]), list[i])}
           left == Selected(list, P)
           T == {e \in Elem : ~Holds(f, e)}
           Q == Unmatched(f, left)
           R == {i \in DOMAIN list : \A j \in 1..(k + 1) : ~Holds(FilterOf(es[j]), list[i])}
<1>1. left \in Seq(Elem)
  BY SelectedIs
<1>2. Q = Places(left, T)
  <2> HIDE DEF left, f
  <2>1. \A i \in DOMAIN left : left[i] \in Elem
    BY <1>1
  <2> QED BY <2>1 DEF Places, Unmatched
<1>3. R = P \cap Places(list, T)
  <2>1. 1..(k + 1) = (1..k) \cup {k + 1}
    OBVIOUS
  <2>2. \A i \in DOMAIN list : list[i] \in Elem
    OBVIOUS
  <2>3. \A i \in DOMAIN list : i \in R <=> i \in P /\ ~Holds(f, list[i])
    BY <2>1
  <2> HIDE DEF f
  <2>4. \A i \in DOMAIN list : i \in Places(list, T) <=> ~Holds(f, list[i])
    BY <2>2 DEF Places
  <2>5. R \subseteq DOMAIN list /\ Places(list, T) \subseteq DOMAIN list
    BY DEF Places
  <2> HIDE DEF R, P, T
  <2> QED BY <2>3, <2>4, <2>5
<1>4. Selected(left, Q) = Selected(list, R)
  <2> HIDE DEF P, T, Q, R
  <2> QED BY <1>2, <1>3, SelectedTwice
<1> QED BY <1>4 DEF LeftOf

(* So far: the elements of the value applied are gone, and only they.      *)
Taking ==
  LET raw == msg[1]
      a   == raw.path.attr
  IN  Len(msg) = 1 /\ RemovesValues(raw) =>
        /\ ops = Nil => work = given /\ done = 0
        /\ ops # Nil => /\ Decode(msg, profile) = Done(ops)
                        /\ work = [given EXCEPT ![a] = LeftOf(@, raw.value.elems, done)]

(* Nothing is gone when nothing has been applied, whatever the path names. *)
LEMMA NothingTaken ==
  ASSUME NEW res \in Resources, NEW a, NEW es
  PROVE  [res EXCEPT ![a] = LeftOf(@, es, 0)] = res
<1>1. DOMAIN res = Attrs /\ res = [b \in Attrs |-> res[b]]
  BY DEF Resources
<1>2. a \in Attrs => LeftOf(res[a], es, 0) = res[a]
  <2> SUFFICES ASSUME a \in Attrs PROVE LeftOf(res[a], es, 0) = res[a]
    OBVIOUS
  <2> DEFINE all == {i \in DOMAIN res[a] : \A j \in 1..0 : ~Holds(FilterOf(es[j]), res[a][i])}
  <2>1. res[a] \in Seq(Elem)
    BY ResourceWith DEF Good
  <2>2. DOMAIN res[a] \subseteq all
    <3>1. \A j \in 1..0 : FALSE
      OBVIOUS
    <3> QED BY <3>1
  <2> HIDE DEF all
  <2>3. Selected(res[a], all) = res[a]
    BY <2>1, <2>2, SelectedAll
  <2> QED BY <2>3 DEF LeftOf, all
<1> DEFINE left == LeftOf(res[a], es, 0)
           next == [res EXCEPT ![a] = left]
<1>3. next = [b \in Attrs |-> IF b = a THEN left ELSE res[b]]
  <2> HIDE DEF left
  <2> QED BY <1>1
<1>4. next = res
  <2> HIDE DEF next
  <2>1. \A b \in Attrs : (IF b = a THEN left ELSE res[b]) = res[b]
    BY <1>2
  <2> HIDE DEF left
  <2> QED BY <1>1, <1>3, <2>1
<1> QED BY <1>4

LEMMA StepTakes ==
  ASSUME Ready, Sharing, Taking, NEW kind, Step(kind)
  PROVE  Taking'
<1> DEFINE raw == msg[1]
           a == raw.path.attr
           es == raw.value.elems
           op == ops[done + 1]
<1>1. /\ ops # Nil /\ done \in Nat /\ done < Len(ops)
      /\ ops' = ops /\ profile' = profile /\ msg' = msg /\ given' = given
      /\ \/ Perform(op, work, profile) = Done(work') /\ done' = done + 1
         \/ UNCHANGED <<done, work>>
  BY StepApplies DEF Step
<1>2. CASE UNCHANGED <<done, work>>
  BY <1>1, <1>2 DEF Taking
<1>3. CASE Perform(op, work, profile) = Done(work') /\ done' = done + 1
  <2> SUFFICES ASSUME Len(msg) = 1, RemovesValues(raw)
               PROVE  /\ Decode(msg, profile) = Done(ops)
                      /\ work' = [given EXCEPT ![a] = LeftOf(@, es, done + 1)]
    BY <1>1, <1>3 DEF Taking
  <2>1. /\ Decode(msg, profile) = Done(ops)
        /\ work = [given EXCEPT ![a] = LeftOf(@, es, done)]
    BY <1>1 DEF Taking
  <2>2. /\ es \in Seq(RawElem)
        /\ ops = [i \in DOMAIN es |-> Op("remove", PathOf(a, Nil, FilterOf(es[i])), Nil, Nil)]
    <3>1. msg \in Seq(RawOps)
      BY DEF Ready
    <3> QED BY <3>1, <2>1, DecodedRemove
  <2> DEFINE f == FilterOf(es[done + 1])
  <2>3. done + 1 \in DOMAIN es /\ op = Op("remove", PathOf(a, Nil, f), Nil, Nil)
    <3>1. Len(ops) = Len(es) /\ DOMAIN es = 1..Len(es) /\ Len(es) \in Nat
      <4> HIDE DEF es, a
      <4> QED BY <2>2
    <3>2. done + 1 \in DOMAIN es
      BY <1>1, <3>1
    <3> HIDE DEF es, a
    <3> QED BY <2>2, <3>2
  <2>4. f \in Filter
    <3>1. es[done + 1] \in RawElem
      BY <2>2, <2>3
    <3>2. SelectorOf(es[done + 1]) \in [Subs -> Scalars \cup {Nil, Null}]
      <4> HIDE DEF es
      <4>1. es[done + 1].at \in [Subs -> Scalars \cup {Nil, Null}]
        BY <3>1, RawElemIs
      <4> QED BY <4>1 DEF SelectorOf
    <3> HIDE DEF es
    <3> QED BY <3>2 DEF FilterOf, Filter
  <2>5. work \in Resources /\ given \in Resources
    BY DEF Ready, Sharing
  <2> DEFINE left == Unmatched(f, work[a])
  <2>6. a \in Attrs /\ work' = [work EXCEPT ![a] = Selected(work[a], left)]
    <3>1. Perform(Op("remove", PathOf(a, Nil, f), Nil, Nil), work, profile) = Done(work')
      <4> HIDE DEF f, a, op
      <4> QED BY <1>3, <2>3
    <3> HIDE DEF f, a
    <3> QED BY <3>1, <2>4, <2>5, SelectorApplies
  <2>7. given[a] \in Seq(Elem) /\ DOMAIN given = Attrs
    BY <2>5, <2>6, ResourceWith DEF Good, Resources
  <2>8. work[a] = LeftOf(given[a], es, done)
    <3> HIDE DEF a, es
    <3> QED BY <2>1, <2>6, <2>7
  <2>9. Selected(work[a], left) = LeftOf(given[a], es, done + 1)
    <3> HIDE DEF a, es
    <3> QED BY <1>1, <2>7, <2>8, LeftMore
  <2>10. work' = [given EXCEPT ![a] = LeftOf(given[a], es, done + 1)]
    <3> HIDE DEF a, es, left
    <3> QED BY <2>1, <2>6, <2>7, <2>9
  <2> QED BY <2>1, <2>10
<1> QED BY <1>1, <1>2, <1>3

LEMMA DecodeTakes ==
  ASSUME Ready, Sharing, Taking, DecodeMessage
  PROVE  Taking'
<1> DEFINE raw == msg[1]
           a == raw.path.attr
           es == raw.value.elems
           decoded == Decode(msg, profile)
<1>1. /\ ops = Nil
      /\ IF decoded.ok THEN ops' = decoded.val ELSE ops' = Nil
      /\ UNCHANGED <<profile, msg, given, done, work>>
  BY DEF DecodeMessage
<1> SUFFICES ASSUME Len(msg) = 1, RemovesValues(raw)
             PROVE  /\ ops' = Nil => work = given /\ done = 0
                    /\ ops' # Nil => /\ decoded = Done(ops')
                                     /\ work = [given EXCEPT ![a] = LeftOf(@, es, done)]
  BY <1>1 DEF Taking
<1>2. work = given /\ done = 0
  BY <1>1 DEF Taking
<1>3. ops' # Nil => decoded = Done(ops')
  <2>1. \/ decoded \in {Fail(e) : e \in Errors}
        \/ \E list \in Seq(DecodedOps) : decoded = Done(list)
    BY DecodeIs DEF Ready
  <2> HIDE DEF decoded
  <2> QED BY <1>1, <2>1, Outcomes
<1>4. [given EXCEPT ![a] = LeftOf(@, es, 0)] = given
  <2> HIDE DEF a, es
  <2> QED BY NothingTaken DEF Sharing
<1> HIDE DEF decoded, a, es
<1> QED BY <1>2, <1>3, <1>4

(* A remove with a value takes out the elements its selectors find, all of *)
(* them and no others, from every stored resource: one that finds nothing, *)
(* or an empty one, leaves the attribute as it is                          *)
(* (rewriteRemoveSelectors, removeValuePath).                              *)
THEOREM SelectorsExact == Spec => []SelectedOnly
<1> DEFINE Inv == Ready /\ Sharing /\ Taking
<1>1. Init => Inv
  <2>1. Init => Sharing
    <3> SUFFICES ASSUME Init PROVE Sharing
      OBVIOUS
    <3>1. PICK c \in Cases : given \in c.bases
      BY DEF Init
    <3>2. given \in Resources
      BY <3>1, PatchAssumption
    <3> QED BY <3>2 DEF Init, Sharing
  <2>2. Init => Taking
    BY DEF Init, Taking
  <2> QED BY <2>1, <2>2, StartsReady
<1>2. Inv /\ [Next]_vars => Inv'
  <2> SUFFICES ASSUME Ready, Sharing, Taking, [Next]_vars PROVE Ready' /\ Sharing' /\ Taking'
    OBVIOUS
  <2>1. Ready'
    BY NextReady
  <2>2. CASE DecodeMessage
    <3>1. Sharing'
      BY <2>2 DEF Sharing, DecodeMessage
    <3> QED BY <2>1, <2>2, <3>1, DecodeTakes
  <2>3. ASSUME NEW kind, Step(kind) PROVE Sharing' /\ Taking'
    BY <2>3, StepShares, StepTakes
  <2>4. CASE UNCHANGED vars
    BY <2>1, <2>4 DEF Sharing, Taking, vars
  <2> QED BY <2>1, <2>2, <2>3, <2>4 DEF Next, ApplyAdd, ApplyRemove, ApplyReplace
<1>3. Inv => SelectedOnly
  <2> DEFINE raw == msg[1]
             a == raw.path.attr
             es == raw.value.elems
             list == given[a]
             Filters == {FilterOf(es[i]) : i \in DOMAIN es}
             kept == {i \in DOMAIN list : \A f \in Filters : ~Holds(f, list[i])}
  <2> SUFFICES ASSUME Ready, Taking, Len(msg) = 1, raw.kind = "remove", raw.value # Nil, ~IsNull(raw.value),
                      Answered, err = Nil
               PROVE  work = [given EXCEPT ![a] = Selected(@, kept)]
    BY DEF SelectedOnly, FilterOf
  <2>1. ops # Nil /\ done = Len(ops) /\ RemovesValues(raw)
    BY DEF Answered, RemovesValues
  <2>2. Decode(msg, profile) = Done(ops) /\ work = [given EXCEPT ![a] = LeftOf(@, es, done)]
    BY <2>1 DEF Taking
  <2>3. es \in Seq(RawElem) /\ Len(ops) = Len(es)
    <3>1. msg \in Seq(RawOps)
      BY DEF Ready
    <3>2. /\ es \in Seq(RawElem)
          /\ ops = [i \in DOMAIN es |-> Op("remove", PathOf(a, Nil, FilterOf(es[i])), Nil, Nil)]
      BY <3>1, <2>1, <2>2, DecodedRemove
    <3> HIDE DEF es, a
    <3> QED BY <3>2
  <2>4. kept = {i \in DOMAIN list : \A j \in 1..done : ~Holds(FilterOf(es[j]), list[i])}
    <3>1. DOMAIN es = 1..done
      <4> HIDE DEF es
      <4> QED BY <2>1, <2>3
    <3>2. Filters = {FilterOf(es[j]) : j \in 1..done}
      BY <3>1
    <3> HIDE DEF es, list, Filters
    <3> QED BY <3>2
  <2>5. LeftOf(given[a], es, done) = Selected(list, kept)
    BY <2>4 DEF LeftOf
  <2> HIDE DEF es, a, kept
  <2> QED BY <2>2, <2>5 DEF list
<1> QED BY <1>1, <1>2, <1>3, PTL DEF Spec

-----------------------------------------------------------------------------
(* Operations again.                                                       *)

(* What is stored is coerced to itself.                                    *)
LEMMA ElemsSame ==
  ASSUME NEW a \in Attrs, NEW x \in Good(a), NEW ats, DOMAIN ats = DOMAIN x,
         \A i \in DOMAIN x : CoerceMembers(a, ats[i]) = x[i]
  PROVE  CoerceElems(a, ats) = x
<1> DEFINE elems == [i \in DOMAIN ats |-> CoerceMembers(a, ats[i])]
<1>1. x \in Seq(Elem)
  BY DEF Good
<1>2. elems = x
  <2>1. x = [i \in DOMAIN x |-> x[i]]
    BY <1>1
  <2> QED BY <2>1
<1>3. /\ \A i \in DOMAIN x : Fits(a, x[i])
      /\ \A i, j \in Primaries(x) : i = j
  BY <1>1, GoodIs
<1>4. \A i \in DOMAIN x, s \in Subs : x[i][s] # Bad
  BY <1>3, DataAssumption DEF Fits, Elem
<1>5. WithoutEmpty(x) = x
  <2>1. DOMAIN x \subseteq {i \in DOMAIN x : x[i] # NoSubs}
    BY <1>3 DEF Fits
  <2> QED BY <1>1, <2>1, SelectedAll DEF WithoutEmpty
<1>6. ~(Cardinality(Primaries(x)) > 1)
  <2>1. IsFiniteSet(1..Len(x)) /\ Primaries(x) \subseteq 1..Len(x)
    BY <1>1, FS_Interval DEF Primaries
  <2>2. Cardinality(Primaries(x)) \in Nat
    BY <2>1, FS_Subset, FS_CardinalityType
  <2> QED BY <2>2 DEF Good, Canonical
<1>8. CoerceElems(a, ats) =
        IF (\E i \in DOMAIN elems, s \in Subs : elems[i][s] = Bad) \/ Cardinality(Primaries(WithoutEmpty(elems))) > 1
        THEN Bad ELSE WithoutEmpty(elems)
  BY DEF CoerceElems
<1> HIDE DEF elems
<1> QED BY <1>2, <1>4, <1>5, <1>6, <1>8

LEMMA CoercedSame ==
  ASSUME NEW a \in Attrs, NEW x \in Good(a), x # Bad, NEW ats, DOMAIN ats = DOMAIN x,
         \A i \in DOMAIN x : CoerceMembers(a, ats[i]) = x[i]
  PROVE  SetElements(a, ats) = Done(x)
BY ElemsSame DEF SetElements, Stored

(* What is duplicate is not appended.                                      *)
LEMMA NothingAppended ==
  ASSUME NEW old \in Seq(Elem), NEW incoming \in Seq(Elem),
         \A i \in DOMAIN incoming : Duplicate(old, incoming[i])
  PROVE  AppendNew(old, incoming) = old
<1> DEFINE n == Len(incoming)
<1>1. n \in Nat /\ DOMAIN incoming = 1..n
  OBVIOUS
<1> HIDE DEF n
<1>2. PICK f : IsRun(f, n, Seq(Elem), old, JoinSteps(n, incoming)) /\ f[n] = Joined(old, incoming)
  BY <1>1, JoinRuns DEF n
<1>3. f \in [0..n -> Seq(Elem)] /\ f[0] = old
  BY <1>2 DEF IsRun
<1>4. \A k \in 1..n : f[k] = IF Duplicate(f[k - 1], incoming[k]) THEN f[k - 1] ELSE Append(f[k - 1], incoming[k])
  <2>1. \A k \in 1..n : f[k] = JoinSteps(n, incoming)[k][f[k - 1]]
    BY <1>2 DEF IsRun
  <2>2. \A k \in 1..n : k - 1 \in 0..n
    BY <1>1
  <2>3. \A k \in 1..n : f[k - 1] \in Seq(Elem)
    BY <2>2, <1>3
  <2> QED BY <2>1, <2>3 DEF JoinSteps
<1> DEFINE H == {k \in 0..n : f[k] = old}
<1>5. 0 \in H
  BY <1>1, <1>3
<1>6. ASSUME NEW k \in 0..n, k \in H, k < n PROVE k + 1 \in H
  <2>1. k \in Nat /\ k + 1 \in 1..n /\ k + 1 \in 0..n /\ (k + 1) - 1 = k
    BY <1>1, <1>6
  <2>2. Duplicate(old, incoming[k + 1]) /\ f[k] = old
    BY <1>1, <1>6, <2>1
  <2> QED BY <2>1, <2>2, <1>4
<1>7. 0..n \subseteq H
  <2> HIDE DEF H
  <2> QED BY <1>1, <1>5, <1>6, UpTo
<1>8. Joined(old, incoming) = old
  <2>1. n \in 0..n
    BY <1>1
  <2> QED BY <2>1, <1>2, <1>7
<1>9. AppendNew(old, incoming) = DemoteOthers(old, DOMAIN old \ DOMAIN old)
  BY <1>8 DEF AppendNew, Joined
<1> QED BY <1>9 DEF DemoteOthers

(* Joining leaves a duplicate of each element behind.                      *)
LEMMA JoinedDuplicates ==
  ASSUME NEW old \in Seq(Elem), NEW incoming \in Seq(Elem)
  PROVE  \A i \in DOMAIN incoming : Duplicate(Joined(old, incoming), incoming[i])
<1> DEFINE n == Len(incoming)
<1>1. n \in Nat /\ DOMAIN incoming = 1..n /\ \A k \in 1..n : incoming[k] \in Elem
  OBVIOUS
<1> HIDE DEF n
<1>2. PICK f : IsRun(f, n, Seq(Elem), old, JoinSteps(n, incoming)) /\ f[n] = Joined(old, incoming)
  BY <1>1, JoinRuns DEF n
<1>3. f \in [0..n -> Seq(Elem)] /\ f[0] = old
  BY <1>2 DEF IsRun
<1>4. \A k \in 1..n : f[k] = IF Duplicate(f[k - 1], incoming[k]) THEN f[k - 1] ELSE Append(f[k - 1], incoming[k])
  <2>1. \A k \in 1..n : f[k] = JoinSteps(n, incoming)[k][f[k - 1]]
    BY <1>2 DEF IsRun
  <2>2. \A k \in 1..n : k - 1 \in 0..n
    BY <1>1
  <2>3. \A k \in 1..n : f[k - 1] \in Seq(Elem)
    BY <2>2, <1>3
  <2> QED BY <2>1, <2>3 DEF JoinSteps
<1> DEFINE H == {k \in 0..n : \A i \in 1..k : Duplicate(f[k], incoming[i])}
<1>5. 0 \in H
  BY <1>1
<1>6. ASSUME NEW k \in 0..n, k \in H, k < n PROVE k + 1 \in H
  <2> DEFINE out == f[k]
             e == incoming[k + 1]
  <2>1. /\ k \in Nat /\ k + 1 \in 1..n /\ k + 1 \in 0..n /\ (k + 1) - 1 = k
        /\ \A i \in 1..(k + 1) : i \in 1..k \/ i = k + 1
    BY <1>1, <1>6
  <2>2. out \in Seq(Elem) /\ e \in Elem
    BY <1>1, <1>3, <2>1
  <2>3. f[k + 1] = IF Duplicate(out, e) THEN out ELSE Append(out, e)
    BY <1>4, <2>1
  <2>4. \A i \in 1..k : Duplicate(out, incoming[i])
    BY <1>6
  <2> HIDE DEF out
  <2>5. CASE Duplicate(out, e)
    BY <2>1, <2>3, <2>4, <2>5
  <2>6. CASE ~Duplicate(out, e)
    <3> DEFINE more == Append(out, e)
    <3>1. /\ \A i \in DOMAIN out : i \in DOMAIN more /\ more[i] = out[i]
          /\ Len(more) \in DOMAIN more /\ more[Len(more)] = e
      <4> HIDE DEF e
      <4> QED BY <2>2
    <3> HIDE DEF more
    <3>2. \A i \in 1..k : Duplicate(more, incoming[i])
      BY <2>4, <3>1 DEF Duplicate
    <3>3. Duplicate(more, e)
      BY <3>1 DEF Duplicate
    <3>4. f[k + 1] = more
      BY <2>3, <2>6 DEF more
    <3> QED BY <2>1, <3>2, <3>3, <3>4
  <2> QED BY <2>5, <2>6
<1>7. 0..n \subseteq H
  <2> HIDE DEF H
  <2> QED BY <1>1, <1>5, <1>6, UpTo
<1>8. n \in 0..n
  BY <1>1
<1> QED BY <1>1, <1>2, <1>7, <1>8

(* The elements of a list, appended again, are all there; also where the   *)
(* appended primary took another's place.                                  *)
LEMMA AppendedAgain ==
  ASSUME NEW a \in Attrs, Multi(a), NEW old \in Good(a), NEW incoming \in Good(a)
  PROVE  AppendNew(AppendNew(old, incoming), incoming) = AppendNew(old, incoming)
<1> DEFINE out == Joined(old, incoming)
           keep == DOMAIN out \ DOMAIN old
           x == AppendNew(old, incoming)
<1>1. /\ old \in Seq(Elem) /\ incoming \in Seq(Elem) /\ x \in Seq(Elem)
      /\ \A i, j \in Primaries(incoming) : i = j
      /\ \A i \in DOMAIN old : Fits(a, old[i])
      /\ \A i \in DOMAIN incoming : Fits(a, incoming[i])
  <2>1. x \in Good(a)
    BY AppendNewGood
  <2>2. old \in Seq(Elem) /\ incoming \in Seq(Elem) /\ x \in Seq(Elem)
    BY <2>1 DEF Good
  <2> HIDE DEF x
  <2> QED BY <2>2, GoodIs
<1>2. x = DemoteOthers(out, keep)
  BY DEF AppendNew, Joined
<1>3. JoinedUpTo(out, old, incoming, Len(incoming))
  BY <1>1, JoinedIs
<1>4. \A i \in DOMAIN incoming : Duplicate(out, incoming[i])
  BY <1>1, JoinedDuplicates
<1> HIDE DEF out, x
<1>5. /\ out \in Seq(Elem)
      /\ \A i \in DOMAIN old : out[i] = old[i]
      /\ \A i \in DOMAIN out \ DOMAIN old : \E j \in DOMAIN incoming : out[i] = incoming[j]
  BY <1>1, <1>3 DEF JoinedUpTo
<1>6. \A i \in DOMAIN out : Fits(a, out[i])
  BY <1>1, <1>5
<1>7. /\ Len(x) = Len(out)
      /\ \A i \in DOMAIN out, s \in Subs \ {"primary"} : x[i][s] = out[i][s]
  BY <1>2, <1>5, <1>6, Demoted
<1>8. DOMAIN x = DOMAIN out
  BY <1>1, <1>5, <1>7
<1>9. \A i : i \in Primaries(out) <=> i \in DOMAIN out /\ out[i]["primary"] = True
  BY DEF Primaries, True
<1>10. \A i : i \in Primaries(incoming) <=> i \in DOMAIN incoming /\ incoming[i]["primary"] = True
  BY DEF Primaries, True
<1>11. ASSUME NEW i \in DOMAIN incoming PROVE Duplicate(x, incoming[i])
  <2> DEFINE e == incoming[i]
  <2>1. PICK j \in DOMAIN out : IF e["value"] # Nil THEN out[j]["value"] = e["value"] ELSE out[j] = e
    BY <1>4 DEF Duplicate
  <2>2. CASE e["value"] # Nil
    <3>1. "value" \in Subs \ {"primary"}
      BY DataAssumption
    <3>2. x[j]["value"] = e["value"]
      BY <2>1, <2>2, <3>1, <1>7
    <3> QED BY <2>2, <3>2, <1>8 DEF Duplicate
  <2>3. CASE e["value"] = Nil
    <3>1. out[j] = e
      BY <2>1, <2>3
    <3>2. CASE x[j] = out[j]
      BY <2>3, <3>1, <3>2, <1>8 DEF Duplicate
    <3>3. CASE x[j] # out[j]
      <4>1. keep \cap Primaries(out) # {} /\ j \in Primaries(out)
        <5>1. keep \cap Primaries(out) # {}
          BY <1>2, <3>3 DEF DemoteOthers
        <5>2. x = [k \in DOMAIN out |-> IF k \in Primaries(out) \ keep
                                         THEN [out[k] EXCEPT !["primary"] = False] ELSE out[k]]
          BY <1>2, <5>1 DEF DemoteOthers, False
        <5>3. x[j] = IF j \in Primaries(out) \ keep THEN [out[j] EXCEPT !["primary"] = False] ELSE out[j]
          BY <5>2
        <5> QED BY <3>3, <5>1, <5>3
      <4>2. PICK k \in keep : k \in Primaries(out)
        BY <4>1
      <4>3. PICK l \in DOMAIN incoming : out[k] = incoming[l]
        BY <4>2, <1>5
      <4>4. l \in Primaries(incoming) /\ i \in Primaries(incoming)
        BY <3>1, <4>1, <4>2, <4>3, <1>9, <1>10
      <4>5. out[k] = e
        BY <4>3, <4>4, <1>1
      <4>6. x[k] = out[k]
        <5>1. x = [m \in DOMAIN out |-> IF m \in Primaries(out) \ keep
                                         THEN [out[m] EXCEPT !["primary"] = False] ELSE out[m]]
          BY <1>2, <4>1 DEF DemoteOthers, False
        <5>2. k \in DOMAIN out
          BY <4>2
        <5> QED BY <4>2, <5>1, <5>2
      <4> HIDE DEF e
      <4> QED BY <2>3, <4>2, <4>5, <4>6, <1>8 DEF Duplicate, e
    <3> QED BY <3>2, <3>3
  <2> QED BY <2>2, <2>3
<1>12. AppendNew(x, incoming) = x
  BY <1>1, <1>11, NothingAppended
<1> QED BY <1>12 DEF x

(* A whole attribute added, or replaced, again.                            *)
LEMMA AddedAgain ==
  ASSUME NEW a \in Attrs, NEW old \in Good(a), NEW v \in RawValue,
         NEW x, AddToAttribute(a, old, v) = Done(x)
  PROVE  AddToAttribute(a, x, v) = Done(x)
<1> DEFINE new == Coerce(a, IF Multi(a) THEN Wrap(v) ELSE v)
           Add(o) == CASE Multi(a) /\ (o = <<>> \/ new = <<>>) -> o \o new
                       [] Multi(a) /\ o # <<>> /\ new # <<>>   -> AppendNew(o, new)
                       [] ~Multi(a) /\ Schema[a].complex       -> Merged(o, new)
                       [] ~Multi(a) /\ ~Schema[a].complex      -> new
<1>1. \A o : AddToAttribute(a, o, v) = IF new = Bad THEN Fail("invalidValue") ELSE Done(Add(o))
  BY DEF AddToAttribute
<1>2. \A y : Done(x) # Fail(y) /\ (Done(x) = Done(y) => x = y)
  BY Outcomes
<1>3. new # Bad /\ x = Add(old)
  <2> HIDE DEF Add, new
  <2> QED BY <1>1, <1>2
<1>4. new \in Good(a)
  <2>1. Multi(a) => Wrap(v) \in RawValue
    BY DEF Wrap, RawValue
  <2> QED BY <1>3, <2>1, Coerced
<1> HIDE DEF new
<1>5. old \in Seq(Elem) /\ new \in Seq(Elem)
  BY <1>4 DEF Good
<1>6. /\ \A i \in DOMAIN new : Fits(a, new[i])
      /\ ~Multi(a) => Len(old) <= 1 /\ Len(new) <= 1
  BY <1>4, <1>5, GoodIs
<1>7. CASE Multi(a)
  <2>1. CASE new = <<>>
    <3>1. x = old /\ Add(x) = x \o new
      BY <1>3, <1>5, <1>7, <2>1
    <3> QED BY <1>1, <1>3, <1>5, <2>1, <3>1
  <2>2. CASE new # <<>> /\ old = <<>>
    <3>1. x = new
      BY <1>3, <1>5, <1>7, <2>2
    <3>2. AppendNew(new, new) = new
      <4>1. \A i \in DOMAIN new : Duplicate(new, new[i])
        BY DEF Duplicate
      <4> QED BY <1>5, <4>1, NothingAppended
    <3>3. Add(x) = x
      BY <1>7, <2>2, <3>1, <3>2
    <3> HIDE DEF Add
    <3> QED BY <1>1, <1>3, <3>3
  <2>3. CASE new # <<>> /\ old # <<>>
    <3>1. x = AppendNew(old, new)
      BY <1>3, <1>7, <2>3
    <3>2. AppendNew(x, new) = x
      BY <1>4, <1>7, <3>1, AppendedAgain
    <3>3. x # <<>>
      <4>1. JoinedUpTo(Joined(old, new), old, new, Len(new))
        BY <1>4, <1>5, JoinedIs, GoodIs
      <4>2. Joined(old, new) \in Seq(Elem) /\ Len(old) <= Len(Joined(old, new)) /\ Len(old) # 0
        BY <1>5, <2>3, <4>1 DEF JoinedUpTo
      <4>3. DOMAIN x = DOMAIN Joined(old, new)
        BY <3>1 DEF AppendNew, Joined, DemoteOthers
      <4>4. 1 \in DOMAIN x
        BY <1>5, <4>2, <4>3
      <4> QED BY <4>4
    <3>4. Add(x) = x
      BY <1>7, <2>3, <3>2, <3>3
    <3> HIDE DEF Add
    <3> QED BY <1>1, <1>3, <3>4
  <2> QED BY <2>1, <2>2, <2>3
<1>8. CASE ~Multi(a) /\ Schema[a].complex
  <2>1. x = Merged(old, new) /\ Add(x) = Merged(x, new)
    BY <1>3, <1>8
  <2>2. Merged(x, new) = x
    <3>1. CASE new = <<>>
      <4>1. Merged(old, new) = old
        BY <1>5, <3>1 DEF Merged
      <4> QED BY <2>1, <4>1
    <3>2. CASE new # <<>>
      <4>1. Len(new) = 1 /\ new = <<new[1]>> /\ new[1] \in Elem
        <5>0. Len(new) \in Nat /\ Len(new) # 0
          BY <1>5, <3>2
        <5>1. Len(new) \in Nat /\ Len(new) # 0 /\ Len(new) <= 1
          BY <1>6, <1>8, <5>0
        <5>2. Len(new) = 1
          <6>1. \A m \in Nat : m # 0 /\ m <= 1 => m = 1
            OBVIOUS
          <6> QED BY <5>1, <6>1
        <5>3. 1 \in DOMAIN new
          BY <1>5, <5>2
        <5>4. new = [i \in 1..1 |-> new[1]]
          BY <1>5, <5>2
        <5>5. new[1] \in Elem
          BY <1>5, <5>3
        <5>6. new = <<new[1]>>
          BY <5>4, <5>5
        <5> QED BY <5>2, <5>5, <5>6
      <4>2. new[1] = [s \in Subs |-> IF new[1][s] # Nil THEN new[1][s] ELSE new[1][s]]
        BY <4>1 DEF Elem
      <4>3. CASE old = <<>>
        <5>1. x = new
          BY <1>5, <2>1, <4>3 DEF Merged
        <5>2. Merged(x, new) = <<[s \in Subs |-> IF new[1][s] # Nil THEN new[1][s] ELSE new[1][s]]>>
          BY <3>2, <5>1 DEF Merged
        <5> QED BY <4>1, <4>2, <5>1, <5>2
      <4>4. CASE old # <<>>
        <5> DEFINE e == [s \in Subs |-> IF new[1][s] # Nil THEN new[1][s] ELSE old[1][s]]
        <5>1. x = <<e>>
          BY <2>1, <3>2, <4>4 DEF Merged
        <5>2. Merged(x, new) = <<[s \in Subs |-> IF new[1][s] # Nil THEN new[1][s] ELSE x[1][s]]>>
          <6>1. x # <<>>
            BY <5>1
          <6> QED BY <3>2, <6>1 DEF Merged
        <5>3. e = [s \in Subs |-> IF new[1][s] # Nil THEN new[1][s] ELSE x[1][s]]
          BY <5>1
        <5> HIDE DEF e
        <5> QED BY <5>1, <5>2, <5>3
      <4> QED BY <4>3, <4>4
    <3> QED BY <3>1, <3>2
  <2> HIDE DEF Add
  <2> QED BY <1>1, <1>3, <2>1, <2>2
<1>9. CASE ~Multi(a) /\ ~Schema[a].complex
  <2>1. x = new /\ Add(x) = new
    BY <1>3, <1>9
  <2> HIDE DEF Add
  <2> QED BY <1>1, <1>3, <2>1
<1> QED BY <1>7, <1>8, <1>9

(* What a write of a whole attribute, by its path or by its key, does.     *)
Whole(a, kind, old, v) ==
  IF kind = "replace" THEN ReplaceAttribute(a, old, v) ELSE AddToAttribute(a, old, v)

LEMMA WholeAgain ==
  ASSUME NEW a \in Attrs, NEW old \in Good(a), NEW v \in RawValue, NEW kind \in {"add", "replace"},
         NEW x, Whole(a, kind, old, v) = Done(x)
  PROVE  Whole(a, kind, x, v) = Done(x)
<1>1. CASE kind = "replace" /\ Multi(a)
  BY <1>1 DEF Whole, ReplaceAttribute
<1>2. CASE ~(kind = "replace" /\ Multi(a))
  <2>1. \A o : Whole(a, kind, o, v) = AddToAttribute(a, o, v)
    BY <1>2 DEF Whole, ReplaceAttribute
  <2> QED BY <2>1, AddedAgain
<1> QED BY <1>1, <1>2

(* An immutable attribute takes its own value.                             *)
LEMMA OwnValueTaken ==
  ASSUME NEW a \in Attrs, NEW old \in Good(a), NEW v \in RawValue, NEW kind \in {"add", "replace"},
         ImmutableRefusal(a, kind, old, v) = Nil, ~Bare(a, v),
         NEW x, Whole(a, kind, old, v) = Done(x)
  PROVE  ImmutableRefusal(a, kind, x, v) = Nil
<1> SUFFICES ASSUME Schema[a].mutability = "immutable", x # <<>> PROVE ImmutableRefusal(a, kind, x, v) = Nil
  BY DEF ImmutableRefusal
<1> DEFINE new == Coerce(a, v)
<1>1. Multi(a) => Wrap(v) = v
  <2>1. Multi(a) => v.list
    BY DEF Bare
  <2>2. v.list \in BOOLEAN /\ v = [list |-> v.list, elems |-> v.elems]
    BY RawValueIs
  <2> QED BY <2>1, <2>2 DEF Wrap
<1>2. /\ \A y : Done(x) # Fail(y) /\ (Done(x) = Done(y) => x = y)
      /\ Whole(a, kind, x, v) = Done(x)
  BY Outcomes, WholeAgain
<1>3. new # Bad
  <2>1. SUFFICES ASSUME new = Bad PROVE FALSE
    OBVIOUS
  <2>2. Whole(a, kind, old, v) = Fail("invalidValue")
    BY <1>1, <2>1 DEF Whole, ReplaceAttribute, AddToAttribute, Stored
  <2> QED BY <1>2, <2>2
<1>4. new \in Good(a) /\ old \in Seq(Elem) /\ new \in Seq(Elem)
  BY <1>3, Coerced DEF Good
<1>5. \A o : Whole(a, kind, o, v) = Done(
          CASE Multi(a) /\ kind = "replace" -> new
            [] Multi(a) /\ kind # "replace" -> (IF o = <<>> \/ new = <<>> THEN o \o new ELSE AppendNew(o, new))
            [] ~Multi(a) /\ Schema[a].complex  -> Merged(o, new)
            [] ~Multi(a) /\ ~Schema[a].complex -> new)
  BY <1>1, <1>3 DEF Whole, ReplaceAttribute, AddToAttribute, Stored
<1>6. ~WouldChange(a, kind, x, new)
  <2> HIDE DEF new
  <2>1. CASE new = <<>>
    <3>1. SUFFICES ASSUME kind = "replace" PROVE FALSE
      BY <2>1 DEF WouldChange
    <3>2. CASE Multi(a) \/ ~Schema[a].complex
      BY <1>2, <1>5, <2>1, <3>1, <3>2
    <3>3. CASE ~Multi(a) /\ Schema[a].complex
      <4>1. x = Merged(old, new)
        BY <1>2, <1>5, <3>3
      <4>2. x = old
        BY <1>4, <2>1, <4>1 DEF Merged
      <4>3. old # <<>> /\ WouldChange(a, kind, old, new) /\ "mutability" # Nil
        BY <2>1, <3>1, <4>2, ApplyAssumption DEF WouldChange, Errors
      <4> QED BY <4>3, <1>3 DEF ImmutableRefusal, new
    <3> QED BY <3>2, <3>3
  <2>2. CASE new # <<>>
    <3>1. x = CASE Multi(a) /\ kind = "add"       -> AppendNew(x, new)
                [] ~Multi(a) /\ Schema[a].complex -> Merged(x, new)
                [] OTHER                          -> new
      BY <1>2, <1>5, <2>2
    <3> QED BY <2>2, <3>1 DEF WouldChange
  <2> QED BY <2>1, <2>2
<1> QED BY <1>3, <1>6 DEF ImmutableRefusal

(* All but the last.                                                       *)
LEMMA SelectedButLast ==
  ASSUME NEW S, NEW list \in Seq(S), NEW n \in Nat, n = Len(list), NEW more, DOMAIN more = 1..(n + 1),
         \A i \in 1..n : more[i] = list[i], NEW places, 1..n \subseteq places, n + 1 \notin places
  PROVE  Selected(more, places) = list
<1> DEFINE m == n + 1
           First(k) == [i \in 1..k |-> list[i]]
<1>1. m \in Nat /\ DOMAIN more = 1..m
  OBVIOUS
<1>2. PICK f : KeptSoFar(f, more, m, places) /\ f[m] = Selected(more, places)
  <2> HIDE DEF m
  <2> QED BY <1>1, SelectedSteps
<1>3. /\ f[0] = <<>>
      /\ \A k \in 1..m : f[k] = IF k \in places THEN Append(f[k - 1], more[k]) ELSE f[k - 1]
  BY <1>2 DEF KeptSoFar
<1>4. DOMAIN list = 1..n /\ \A i \in 1..n : list[i] \in S
  OBVIOUS
<1> DEFINE H == {k \in 0..n : f[k] = First(k)}
<1>5. 0 \in H
  BY <1>3
<1>6. ASSUME NEW k \in 0..n, k \in H, k < n PROVE k + 1 \in H
  <2>1. k \in Nat /\ k + 1 \in 1..n /\ k + 1 \in 1..m /\ k + 1 \in 0..n /\ (k + 1) - 1 = k
    BY <1>6
  <2>2. f[k + 1] = Append(f[k], list[k + 1])
    BY <1>3, <2>1
  <2>3. First(k) \in Seq(S) /\ Len(First(k)) = k
    <3>1. \A i \in 1..k : list[i] \in S
      BY <1>4, <2>1
    <3>2. First(k) \in [1..k -> S]
      BY ONLY <3>1
    <3> HIDE DEF First
    <3> QED BY ONLY <2>1, <3>2
  <2>4. Append(First(k), list[k + 1]) = First(k + 1)
    <3>1. DOMAIN Append(First(k), list[k + 1]) = 1..(k + 1)
      BY <2>1, <2>3
    <3>2. \A i \in 1..(k + 1) : Append(First(k), list[k + 1])[i] = list[i]
      BY <2>1, <2>3
    <3>3. Append(First(k), list[k + 1]) = [i \in 1..(k + 1) |-> Append(First(k), list[k + 1])[i]]
      BY <1>4, <2>1, <2>3, <3>1
    <3> QED BY <3>2, <3>3
  <2>5. f[k] = First(k)
    BY <1>6
  <2> HIDE DEF First
  <2> QED BY <2>1, <2>2, <2>4, <2>5
<1>7. 0..n \subseteq H
  <2> HIDE DEF H
  <2> QED BY <1>5, <1>6, UpTo
<1>8. f[n] = First(n)
  BY <1>7
<1>9. f[m] = f[n]
  BY <1>3
<1>10. First(n) = list
  BY <1>4
<1> QED BY <1>2, <1>8, <1>9, <1>10

(* What a write through a filter sends.                                    *)
SentAs(s, v) == IF s = Nil THEN ElementIn(v) ELSE [NoSubs EXCEPT ![s] = ScalarOf(v)]

LEMMA SentIs ==
  ASSUME NEW s, s = Nil \/ s \in Subs, NEW v \in RawValue, s = Nil => ElementIn(v) # Bad
  PROVE  /\ SentAs(s, v) \in [Subs -> Scalars \cup {Nil, Null, Bad}]
         /\ s # Nil => /\ SentAs(s, v)[s] = ScalarOf(v) /\ ScalarOf(v) # Nil
                       /\ \A t \in Subs : t # s => SentAs(s, v)[t] = Nil
<1>1. CASE s = Nil
  BY <1>1, ElementInIs DEF SentAs
<1>2. CASE s # Nil
  <2>1. ScalarOf(v) \in Scalars \cup {Null, Bad} /\ ScalarOf(v) # Nil
    <3>1. v.list \in BOOLEAN /\ v.elems \in Seq(RawElem) /\ (v.list \/ Len(v.elems) = 1)
      BY RawValueIs
    <3>2. ~v.list => v.elems[1] \in RawElem
      BY <3>1
    <3>3. ~v.list /\ v.elems[1].form = "scalar" => v.elems[1].at["value"] \in Scalars
      BY <3>2, RawElemIs
    <3> QED BY <3>3, DataAssumption DEF ScalarOf
  <2>2. SentAs(s, v) = [NoSubs EXCEPT ![s] = ScalarOf(v)]
    BY <1>2 DEF SentAs
  <2> QED BY <1>2, <2>1, <2>2 DEF NoSubs
<1> QED BY <1>1, <1>2

LEMMA FitsCoerced ==
  ASSUME NEW a \in Attrs, NEW e, Fits(a, e)
  PROVE  CoerceMembers(a, e) = e
<1>1. e \in Elem /\ SubsOf(a) \subseteq Subs
  BY SchemaFacts DEF Fits
<1>2. ASSUME NEW s \in Subs PROVE (IF s \in SubsOf(a) THEN CoerceScalar(a, s, e[s]) ELSE Nil) = e[s]
  <2>1. CASE e[s] = Nil
    BY <2>1 DEF CoerceScalar
  <2>2. CASE e[s] # Nil
    <3>1. s \in SubsOf(a)
      BY <2>2 DEF Fits
    <3> QED BY <2>2, <3>1, StoredAgain
  <2> QED BY <2>1, <2>2
<1>3. e = [s \in Subs |-> e[s]]
  BY <1>1 DEF Elem
<1> QED BY <1>2, <1>3 DEF CoerceMembers

(* A sub-attribute the write reaches.                                      *)
Reached(a, s, at) == {t \in SubsOf(a) : at[t] # Nil /\ (s = Nil => Writable(a, t))}

Has(a, s, at, e) == \A t \in Reached(a, s, at) : e[t] = CoerceScalar(a, t, at[t])

(* Elements that have what is sent stay what they are.                     *)
LEMMA WrittenAgain ==
  ASSUME NEW a \in Attrs, NEW x \in Good(a), x # Bad, NEW hit, hit \subseteq DOMAIN x,
         NEW s, s = Nil \/ s \in SubsOf(a), NEW v \in RawValue, SentAs(s, v) # Bad,
         \A i \in hit : Has(a, s, SentAs(s, v), x[i])
  PROVE  WriteToElements(a, x, hit, s, v) = Done(x)
<1> DEFINE at == SentAs(s, v)
           new == [i \in DOMAIN x |->
                     IF i \notin hit THEN x[i]
                     ELSE IF s = Nil THEN MergedElem(a, x[i], at) ELSE [x[i] EXCEPT ![s] = at[s]]]
           refusals == {SubRefusal(a, t, x[i][t], at[t]) : i \in hit, t \in {u \in SubsOf(a) : at[u] # Nil}}
           d == DemoteOthers(new, hit)
<1>1. /\ SubsOf(a) \subseteq Subs /\ (s = Nil \/ s \in Subs)
      /\ Len(x) \in Nat /\ DOMAIN x = 1..Len(x)
      /\ \A i \in DOMAIN x : Fits(a, x[i]) /\ DOMAIN x[i] = Subs /\ x[i] \in Elem
  BY SchemaFacts, OldElements DEF Fits
<1>2. /\ at \in [Subs -> Scalars \cup {Nil, Null, Bad}]
      /\ s # Nil => at[s] # Nil /\ \A t \in Subs : t # s => at[t] = Nil
  <2>1. s = Nil => ElementIn(v) # Bad
    BY DEF SentAs
  <2> QED BY <1>1, <2>1, SentIs
<1>3. \A i \in hit, t \in SubsOf(a) :
         at[t] # Nil /\ (s = Nil => Writable(a, t)) => x[i][t] = CoerceScalar(a, t, at[t])
  BY DEF Has, Reached
<1>4. AnyRefusal(refusals) = Nil
  <2>1. ASSUME NEW i \in hit, NEW t \in SubsOf(a), at[t] # Nil PROVE SubRefusal(a, t, x[i][t], at[t]) = Nil
    <3>1. CASE Writable(a, t) \/ s # Nil
      BY <1>3, <2>1, <3>1 DEF SubRefusal
    <3>2. CASE ~Writable(a, t)
      <4>1. ~Immutable(a, t)
        BY <3>2 DEF Writable, Immutable
      <4> QED BY <4>1 DEF SubRefusal
    <3> QED BY <3>1, <3>2
  <2> HIDE DEF at
  <2> QED BY <2>1 DEF AnyRefusal
<1>5. WriteToElements(a, x, hit, s, v) = SetElements(a, d)
  <2>1. WriteToElements(a, x, hit, s, v) =
          IF at = Bad THEN Fail("invalidValue")
          ELSE IF AnyRefusal(refusals) # Nil THEN Fail(AnyRefusal(refusals))
          ELSE SetElements(a, d)
    BY DEF WriteToElements, SentAs
  <2> HIDE DEF refusals, d
  <2> QED BY <2>1, <1>4
<1> HIDE DEF at
<1>6. \A i \in DOMAIN x : new[i] = IF i \notin hit THEN x[i]
                                   ELSE IF s = Nil THEN MergedElem(a, x[i], at) ELSE [x[i] EXCEPT ![s] = at[s]]
  OBVIOUS
<1>7. DOMAIN new = DOMAIN x
  OBVIOUS
<1> HIDE DEF new
<1>8. ASSUME NEW i \in DOMAIN x PROVE CoerceMembers(a, new[i]) = x[i]
  <2>1. CASE i \notin hit
    <3>1. new[i] = x[i]
      BY <1>6, <2>1
    <3> QED BY <3>1, <1>1, FitsCoerced
  <2>2. CASE i \in hit
    <3>1. ASSUME NEW t \in SubsOf(a) PROVE CoerceScalar(a, t, new[i][t]) = x[i][t]
      <4>1. t \in Subs /\ CoerceScalar(a, t, x[i][t]) = x[i][t]
        <5>1. t \in Subs
          BY <1>1
        <5>2. CoerceMembers(a, x[i]) = x[i]
          BY <1>1, FitsCoerced
        <5>3. CoerceMembers(a, x[i])[t] = CoerceScalar(a, t, x[i][t])
          BY <5>1 DEF CoerceMembers
        <5> QED BY <5>1, <5>2, <5>3
      <4>2. CASE s = Nil
        <5>1. new[i] = MergedElem(a, x[i], at)
          BY <1>6, <2>2, <4>2
        <5>2. new[i][t] = IF at[t] = Nil \/ ~Writable(a, t) THEN x[i][t] ELSE at[t]
          BY <4>1, <5>1 DEF MergedElem
        <5> QED BY <4>1, <4>2, <5>2, <1>3, <2>2
      <4>3. CASE s # Nil
        <5>1. new[i] = [x[i] EXCEPT ![s] = at[s]]
          BY <1>6, <2>2, <4>3
        <5>2. new[i][t] = IF t = s THEN at[s] ELSE x[i][t]
          BY <1>1, <4>1, <5>1
        <5> QED BY <4>1, <4>3, <5>2, <1>2, <1>3, <2>2
      <4> QED BY <4>2, <4>3
    <3>2. \A t \in Subs \ SubsOf(a) : x[i][t] = Nil
      BY <1>1 DEF Fits
    <3>3. \A t \in Subs : CoerceMembers(a, new[i])[t] = x[i][t]
      BY <3>1, <3>2 DEF CoerceMembers
    <3>4. CoerceMembers(a, new[i]) = [t \in Subs |-> CoerceMembers(a, new[i])[t]]
      BY DEF CoerceMembers
    <3>5. x[i] = [t \in Subs |-> x[i][t]]
      BY <1>1 DEF Elem
    <3> QED BY <3>3, <3>4, <3>5
  <2> QED BY <2>1, <2>2
<1>9. d = new
  <2>1. CASE hit \cap Primaries(new) = {}
    BY <2>1 DEF DemoteOthers
  <2>2. CASE hit \cap Primaries(new) # {}
    <3>1. PICK j \in hit : j \in Primaries(new)
      BY <2>2
    <3>2. ASSUME NEW k \in Primaries(new) \ hit PROVE FALSE
      <4>1. "primary" \in Subs /\ True # Nil
        BY DataAssumption, Truth
      <4>2. k \in DOMAIN x /\ j \in DOMAIN x /\ new[k]["primary"] = True /\ new[j]["primary"] = True
        BY <1>7, <3>1, <3>2 DEF Primaries, True
      <4>3. x[k]["primary"] = True
        BY <1>6, <3>2, <4>2
      <4>4. "primary" \in SubsOf(a)
        BY <1>1, <4>1, <4>2, <4>3 DEF Fits
      <4>5. CoerceScalar(a, "primary", True) = True
        BY <1>1, <4>1, <4>2, <4>3, <4>4, StoredAgain
      <4>6. x[j]["primary"] = True
        <5>1. CoerceMembers(a, new[j])["primary"] = CoerceScalar(a, "primary", new[j]["primary"])
          BY <4>1, <4>4 DEF CoerceMembers
        <5> QED BY <5>1, <1>8, <4>2, <4>5
      <4>7. j \in Primaries(x) /\ k \in Primaries(x)
        BY <4>2, <4>3, <4>6 DEF Primaries, True
      <4>8. x \in Seq(Elem)
        BY DEF Good
      <4>9. j = k
        BY <4>7, <4>8, GoodIs
      <4> QED BY <3>1, <3>2, <4>9
    <3>3. d = [i \in DOMAIN new |-> IF i \in Primaries(new) \ hit
                                    THEN [new[i] EXCEPT !["primary"] = Convert["boolean"]["false"]] ELSE new[i]]
      BY <2>2 DEF DemoteOthers
    <3>4. new = [i \in DOMAIN new |-> new[i]]
      BY DEF new
    <3>5. Primaries(new) \ hit = {}
      BY <3>2
    <3> HIDE DEF d
    <3> QED BY <3>3, <3>4, <3>5
  <2> QED BY <2>1, <2>2
<1>10. SetElements(a, new) = Done(x)
  BY <1>7, <1>8, CoercedSame
<1> QED BY <1>5, <1>9, <1>10

(* A write through a filter that leaves the filter's clauses alone, and    *)
(* does not empty the elements it finds by what they lack.                 *)
Settles(a, f, at) ==
  /\ f \in Filter /\ ~f.negated
  /\ \A t \in Subs : at[t] # Nil => f.eqs[t] = Nil
  /\ (\E t \in Subs : f.eqs[t] \in Scalars) \/ (\A t \in Subs : at[t] # Null)
  /\ \A t \in Subs \ SubsOf(a) : f.eqs[t] \notin Scalars

(* Only what the clauses ask about matters to them.                        *)
LEMMA HoldsBy ==
  ASSUME NEW f, NEW e, NEW d, \A t \in Subs : f.eqs[t] # Nil => e[t] = d[t]
  PROVE  Holds(f, e) = Holds(f, d)
BY DEF Holds

LEMMA ClausesOf ==
  ASSUME NEW f \in Filter, ~f.negated, NEW e
  PROVE  Holds(f, e) <=> \A t \in Subs : f.eqs[t] # Nil =>
           IF f.eqs[t] = Null THEN e[t] = Nil ELSE e[t] # Nil /\ Fold[e[t]] = Fold[f.eqs[t]]
<1>1. f.negated = FALSE
  BY DEF Filter
<1> QED BY <1>1 DEF Holds

LEMMA SetIs ==
  ASSUME NEW a, NEW ats, NEW x, SetElements(a, ats) = Done(x)
  PROVE  x = CoerceElems(a, ats) /\ CoerceElems(a, ats) # Bad
<1>1. \A y : Done(x) # Fail(y) /\ (Done(x) = Done(y) => x = y)
  BY Outcomes
<1>2. SetElements(a, ats) = IF CoerceElems(a, ats) = Bad THEN Fail("invalidValue") ELSE Done(CoerceElems(a, ats))
  BY DEF SetElements, Stored
<1> QED BY <1>1, <1>2

(* Coercing the values of a stored element for what it keeps of them.      *)
LEMMA CoercedAt ==
  ASSUME NEW a \in Attrs, NEW e, Fits(a, e), NEW d, NEW t \in Subs, d[t] = e[t]
  PROVE  CoerceMembers(a, d)[t] = e[t]
<1>1. CoerceMembers(a, d)[t] = IF t \in SubsOf(a) THEN CoerceScalar(a, t, d[t]) ELSE Nil
  BY DEF CoerceMembers
<1>2. CoerceMembers(a, e)[t] = IF t \in SubsOf(a) THEN CoerceScalar(a, t, e[t]) ELSE Nil
  BY DEF CoerceMembers
<1>3. CoerceMembers(a, e) = e
  BY FitsCoerced
<1> QED BY <1>1, <1>2, <1>3

(* The values that were found have what was sent, and are found again.     *)
LEMMA WriteFound ==
  ASSUME NEW a \in Attrs, Multi(a), NEW old \in Good(a), NEW f, NEW s, s = Nil \/ s \in SubsOf(a),
         NEW v \in RawValue, Settles(a, f, SentAs(s, v)), Matches(f, old) # {},
         NEW x, WriteToElements(a, old, Matches(f, old), s, v) = Done(x)
  PROVE  /\ x \in Good(a) /\ x # Bad /\ SentAs(s, v) # Bad /\ Matches(f, x) # {}
         /\ \A k \in Matches(f, x) : Has(a, s, SentAs(s, v), x[k])
<1> DEFINE at == SentAs(s, v)
           hit == Matches(f, old)
           n == Len(old)
           new == [i \in DOMAIN old |->
                     IF i \notin hit THEN old[i]
                     ELSE IF s = Nil THEN MergedElem(a, old[i], at) ELSE [old[i] EXCEPT ![s] = at[s]]]
           refused == AnyRefusal({SubRefusal(a, t, old[i][t], at[t]) : i \in hit, t \in {u \in SubsOf(a) : at[u] # Nil}})
           d == DemoteOthers(new, hit)
<1>1. at # Bad /\ SetElements(a, d) = Done(x)
  <2>1. WriteToElements(a, old, hit, s, v) =
          IF at = Bad THEN Fail("invalidValue")
          ELSE IF refused # Nil THEN Fail(refused) ELSE SetElements(a, d)
    BY DEF WriteToElements, SentAs
  <2>2. \A y : Done(x) # Fail(y)
    BY Outcomes
  <2> HIDE DEF at, refused, d
  <2> QED BY <2>1, <2>2
<1>2. /\ SubsOf(a) \subseteq Subs /\ (s = Nil \/ s \in Subs)
      /\ n \in Nat /\ DOMAIN old = 1..n
      /\ \A i \in DOMAIN old : Fits(a, old[i]) /\ DOMAIN old[i] = Subs /\ old[i] \in Elem /\ old[i] # NoSubs
      /\ "primary" \in Subs
  BY SchemaFacts, OldElements, DataAssumption DEF Fits
<1>3. /\ at \in [Subs -> Scalars \cup {Nil, Null, Bad}]
      /\ s # Nil => at[s] # Nil /\ \A t \in Subs : t # s => at[t] = Nil
  <2>1. s = Nil => ElementIn(v) # Bad
    BY <1>1 DEF SentAs
  <2> QED BY <1>2, <2>1, SentIs
<1>4. /\ DOMAIN new = DOMAIN old
      /\ \A i \in DOMAIN old : new[i] = IF i \notin hit THEN old[i]
                                        ELSE IF s = Nil THEN MergedElem(a, old[i], at) ELSE [old[i] EXCEPT ![s] = at[s]]
  OBVIOUS
<1>5. hit \subseteq DOMAIN old /\ \A i \in DOMAIN old : i \in hit <=> Holds(f, old[i])
  BY DEF Matches
<1>6. /\ f \in Filter /\ ~f.negated
      /\ \A t \in Subs : at[t] # Nil => f.eqs[t] = Nil
      /\ (\E t \in Subs : f.eqs[t] \in Scalars) \/ (\A t \in Subs : at[t] # Null)
  BY DEF Settles
<1> HIDE DEF at, new, refused, n
<1>7. ASSUME NEW i \in hit, NEW t \in Subs
      PROVE  new[i][t] = IF at[t] # Nil /\ t \in SubsOf(a) /\ (s = Nil => Writable(a, t)) THEN at[t] ELSE old[i][t]
  <2>1. CASE s = Nil
    <3>1. new[i] = MergedElem(a, old[i], at)
      BY <1>4, <1>5, <2>1
    <3> QED BY <3>1, <2>1 DEF MergedElem
  <2>2. CASE s # Nil
    <3>1. new[i] = [old[i] EXCEPT ![s] = at[s]]
      BY <1>4, <1>5, <2>2
    <3>2. new[i][t] = IF t = s THEN at[s] ELSE old[i][t]
      BY <3>1, <1>2, <1>5
    <3> QED BY <3>2, <1>2, <1>3, <2>2
  <2> QED BY <2>1, <2>2
<1>8. DOMAIN d = DOMAIN old /\ \A i \in hit : d[i] = new[i]
  <2>1. \/ d = new
        \/ d = [i \in DOMAIN new |-> IF i \in Primaries(new) \ hit
                                     THEN [new[i] EXCEPT !["primary"] = Convert["boolean"]["false"]] ELSE new[i]]
    BY DEF DemoteOthers
  <2> HIDE DEF d, hit
  <2>2. \A i \in hit : i \in DOMAIN new
    BY <1>4, <1>5
  <2> QED BY <2>1, <2>2, <1>4
<1>9. ASSUME NEW i \in DOMAIN old, NEW t \in Subs, f.eqs[t] # Nil PROVE d[i][t] = old[i][t]
  <2>1. \A j \in DOMAIN old : new[j][t] = old[j][t]
    <3>1. \A j \in hit : new[j][t] = old[j][t]
      BY <1>6, <1>7, <1>9
    <3> QED BY <3>1, <1>4
  <2>2. CASE d[i] = new[i]
    BY <2>1, <2>2
  <2>3. CASE d[i] # new[i]
    <3>1. hit \cap Primaries(new) # {}
      BY <2>3 DEF DemoteOthers
    <3>2. d = [j \in DOMAIN new |-> IF j \in Primaries(new) \ hit
                                     THEN [new[j] EXCEPT !["primary"] = Convert["boolean"]["false"]] ELSE new[j]]
      BY <3>1 DEF DemoteOthers
    <3> HIDE DEF d, hit
    <3>3. i \in Primaries(new) \ hit /\ d[i] = [new[i] EXCEPT !["primary"] = Convert["boolean"]["false"]]
      BY <3>2, <2>3, <1>4
    <3>4. new[i] = old[i]
      BY <3>3, <1>4
    <3>5. CASE t # "primary"
      BY <3>3, <3>4, <3>5, <1>2
    <3>6. CASE t = "primary"
      <4>1. PICK j \in hit : j \in Primaries(new)
        BY <3>1
      <4>2. i \in Primaries(old) /\ j \in Primaries(old)
        BY <2>1, <3>3, <3>6, <4>1, <1>4, <1>5 DEF Primaries
      <4>3. i = j
        <5>1. old \in Seq(Elem)
          BY DEF Good
        <5> QED BY <5>1, <4>2, GoodIs
      <4> QED BY <4>1, <4>3, <3>3
    <3> QED BY <3>5, <3>6
  <2> QED BY <2>2, <2>3
<1> HIDE DEF d
<1>10. ASSUME NEW i \in DOMAIN old PROVE Holds(f, CoerceMembers(a, d[i])) <=> i \in hit
  <2>1. \A t \in Subs : f.eqs[t] # Nil => CoerceMembers(a, d[i])[t] = old[i][t]
    BY <1>2, <1>9, CoercedAt
  <2>2. Holds(f, CoerceMembers(a, d[i])) = Holds(f, old[i])
    BY <2>1, HoldsBy
  <2> QED BY <2>2, <1>5
<1>11. ASSUME NEW i \in hit PROVE Has(a, s, at, CoerceMembers(a, d[i]))
  <2>1. ASSUME NEW t \in SubsOf(a), at[t] # Nil, s = Nil => Writable(a, t)
        PROVE  CoerceMembers(a, d[i])[t] = CoerceScalar(a, t, at[t])
    <3>1. t \in Subs /\ d[i][t] = at[t]
      BY <1>2, <1>7, <1>8, <2>1
    <3> QED BY <3>1 DEF CoerceMembers
  <2> QED BY <2>1 DEF Has, Reached
<1>12. /\ x = CoerceElems(a, d) /\ CoerceElems(a, d) # Bad /\ DOMAIN d = 1..n
       /\ \A k \in DOMAIN x : \E i \in 1..n : x[k] = CoerceMembers(a, d[i])
       /\ \A i \in 1..n, t \in Subs : CoerceMembers(a, d[i])[t] # Bad
       /\ \A i \in 1..n : CoerceMembers(a, d[i]) # NoSubs => \E k \in DOMAIN x : x[k] = CoerceMembers(a, d[i])
  <2>1. x = CoerceElems(a, d) /\ CoerceElems(a, d) # Bad /\ DOMAIN d = 1..n
    BY <1>1, <1>2, <1>8, SetIs
  <2> QED BY <1>2, <2>1, CoercedFrom, CoercedKeeps
<1>13. x \in Good(a)
  BY <1>2, <1>12, CoercedList
<1>14. ASSUME NEW k \in Matches(f, x) PROVE Has(a, s, at, x[k])
  <2>1. k \in DOMAIN x /\ Holds(f, x[k])
    BY DEF Matches
  <2>2. PICK i \in 1..n : x[k] = CoerceMembers(a, d[i])
    BY <2>1, <1>12
  <2>3. i \in hit
    BY <2>1, <2>2, <1>2, <1>10
  <2> QED BY <2>2, <2>3, <1>11
<1>15. PICK i \in hit : TRUE
  OBVIOUS
<1>16. i \in 1..n /\ i \in DOMAIN old /\ Holds(f, CoerceMembers(a, d[i]))
  BY <1>2, <1>5, <1>10
<1>17. CoerceMembers(a, d[i]) # NoSubs
  <2>1. CASE \E t \in Subs : f.eqs[t] \in Scalars
    <3>1. PICK t \in Subs : f.eqs[t] \in Scalars
      BY <2>1
    <3>2. f.eqs[t] # Nil /\ f.eqs[t] # Null
      BY <3>1, DataAssumption
    <3>3. CoerceMembers(a, d[i])[t] # Nil
      BY <3>2, <1>6, <1>16, ClausesOf
    <3> QED BY <3>3 DEF NoSubs
  <2>2. CASE \A t \in Subs : at[t] # Null
    <3>1. PICK t \in Subs : old[i][t] # Nil
      <4>1. old[i] = [t \in Subs |-> old[i][t]]
        BY <1>2, <1>16 DEF Elem
      <4> QED BY <4>1, <1>2, <1>16 DEF NoSubs
    <3>2. t \in SubsOf(a) /\ d[i] = new[i]
      BY <3>1, <1>2, <1>8, <1>16 DEF Fits
    <3>3. CASE d[i][t] = old[i][t]
      <4>1. CoerceMembers(a, d[i])[t] = old[i][t]
        BY <3>3, <1>2, <1>16, CoercedAt
      <4> QED BY <3>1, <4>1 DEF NoSubs
    <3>4. CASE d[i][t] # old[i][t]
      <4>1. at[t] # Nil /\ d[i][t] = at[t] /\ at[t] # Null
        BY <3>2, <3>4, <1>7, <2>2
      <4>2. CoerceMembers(a, d[i])[t] = CoerceScalar(a, t, at[t])
        BY <3>2, <4>1 DEF CoerceMembers
      <4>3. CoerceScalar(a, t, at[t]) # Bad
        BY <4>2, <1>12, <1>16
      <4>4. at[t] \in Scalars /\ CoerceScalar(a, t, at[t]) = Convert[Schema[a].subs[t].type][at[t]]
        BY <4>1, <4>3, <1>3 DEF CoerceScalar
      <4>5. Convert[Schema[a].subs[t].type][at[t]] \in Scalars
        BY <4>3, <4>4, <3>2, SchemaFacts, DataAssumption
      <4>6. CoerceMembers(a, d[i])[t] # Nil
        BY <4>2, <4>4, <4>5, DataAssumption
      <4> QED BY <4>6 DEF NoSubs
    <3> QED BY <3>3, <3>4
  <2> QED BY <2>1, <2>2, <1>6
<1>18. Matches(f, x) # {}
  <2>1. PICK k \in DOMAIN x : x[k] = CoerceMembers(a, d[i])
    BY <1>12, <1>16, <1>17
  <2>2. k \in Matches(f, x)
    BY <2>1, <1>16 DEF Matches
  <2> QED BY <2>2
<1>19. x # Bad
  BY <1>12
<1> QED BY <1>1, <1>13, <1>14, <1>18, <1>19 DEF at

(* An element made up for a filter is found by it afterwards, or lost and  *)
(* nothing changed.                                                        *)
LEMMA SynthFound ==
  ASSUME NEW a \in Attrs, Multi(a), NEW old \in Good(a), NEW f, NEW s, s = Nil \/ s \in SubsOf(a),
         NEW v \in RawValue, Settles(a, f, SentAs(s, v)), Matches(f, old) = {},
         NEW x, Synthesize(a, old, f, s, v) = Done(x)
  PROVE  \/ x = old
         \/ /\ x \in Good(a) /\ x # Bad /\ SentAs(s, v) # Bad /\ Matches(f, x) # {}
            /\ \A k \in Matches(f, x) : Has(a, s, SentAs(s, v), x[k])
<1> DEFINE at == SentAs(s, v)
           seed == [t \in Subs |-> IF f.eqs[t] = Null THEN Nil ELSE f.eqs[t]]
           member == ElementIn(v)
           made == IF s # Nil THEN [seed EXCEPT ![s] = ScalarOf(v)]
                   ELSE [t \in Subs |-> IF member[t] # Nil THEN member[t] ELSE seed[t]]
           n == Len(old)
           list == Append(old, made)
           d == DemoteOthers(list, {Len(old) + 1})
           e == CoerceMembers(a, made)
<1>1. (s = Nil => member # Bad) /\ SetElements(a, d) = Done(x)
  <2>1. Synthesize(a, old, f, s, v) =
          IF f.negated THEN Fail("noTarget")
          ELSE IF s = Nil /\ member = Bad THEN Fail("invalidValue")
          ELSE SetElements(a, d)
    BY DEF Synthesize
  <2>2. \A y : Done(x) # Fail(y)
    BY Outcomes
  <2> HIDE DEF member, d
  <2> QED BY <2>1, <2>2
<1>2. /\ SubsOf(a) \subseteq Subs /\ (s = Nil \/ s \in Subs)
      /\ n \in Nat /\ DOMAIN old = 1..n
      /\ \A i \in DOMAIN old : Fits(a, old[i]) /\ DOMAIN old[i] = Subs /\ old[i] \in Elem /\ old[i] # NoSubs
      /\ "primary" \in Subs
  BY SchemaFacts, OldElements, DataAssumption DEF Fits
<1>3. /\ at \in [Subs -> Scalars \cup {Nil, Null, Bad}]
      /\ s # Nil => at[s] = ScalarOf(v) /\ at[s] # Nil /\ \A t \in Subs : t # s => at[t] = Nil
  BY <1>1, <1>2, SentIs
<1>4. /\ f \in Filter /\ ~f.negated
      /\ \A t \in Subs : at[t] # Nil => f.eqs[t] = Nil
      /\ \A t \in Subs \ SubsOf(a) : f.eqs[t] \notin Scalars
      /\ \A t \in Subs : f.eqs[t] \in Scalars \cup {Nil, Null}
  BY DEF Settles, Filter
<1>5. ASSUME NEW t \in Subs
      PROVE  made[t] = IF at[t] # Nil THEN at[t] ELSE IF f.eqs[t] = Null THEN Nil ELSE f.eqs[t]
  <2>1. CASE s = Nil
    BY <2>1 DEF SentAs
  <2>2. CASE s # Nil
    <3>1. made[t] = IF t = s THEN ScalarOf(v) ELSE seed[t]
      BY <2>2, <1>2
    <3> HIDE DEF at, made
    <3> QED BY <3>1, <2>2, <1>3
  <2> QED BY <2>1, <2>2
<1> HIDE DEF at, member
<1>6. /\ DOMAIN list = 1..(n + 1) /\ list[n + 1] = made
      /\ \A i \in 1..n : list[i] = old[i]
  <2>1. old \in Seq(Elem)
    BY DEF Good
  <2> HIDE DEF made
  <2> QED BY <2>1
<1> HIDE DEF made, list, n
<1>7. /\ DOMAIN d = 1..(n + 1) /\ d[n + 1] = made
      /\ \A i \in 1..n : d[i] # old[i] =>
           /\ d[i] = [old[i] EXCEPT !["primary"] = False]
           /\ old[i]["primary"] = True /\ made["primary"] = True
  <2>0. n = Len(old) /\ n + 1 \in 1..(n + 1) /\ \A i \in 1..n : i \in 1..(n + 1) /\ i # n + 1
    BY <1>2 DEF n
  <2>1. CASE {n + 1} \cap Primaries(list) = {}
    <3>1. d = list
      BY <2>0, <2>1 DEF DemoteOthers
    <3> QED BY <3>1, <1>6, <2>0
  <2>2. CASE {n + 1} \cap Primaries(list) # {}
    <3>1. d = [j \in DOMAIN list |-> IF j \in Primaries(list) \ {n + 1}
                                     THEN [list[j] EXCEPT !["primary"] = False] ELSE list[j]]
      BY <2>0, <2>2 DEF DemoteOthers, False
    <3> HIDE DEF d
    <3>2. \A j : j \in Primaries(list) <=> j \in DOMAIN list /\ list[j]["primary"] = True
      BY DEF Primaries, True
    <3> QED BY <3>1, <3>2, <1>6, <2>0, <2>2
  <2> QED BY <2>1, <2>2
<1> HIDE DEF d
<1>8. /\ x = CoerceElems(a, d) /\ CoerceElems(a, d) # Bad /\ n + 1 \in Nat /\ n + 1 \in 1..(n + 1)
      /\ \A i \in 1..n : i \in 1..(n + 1)
      /\ \A k \in DOMAIN x : \E i \in 1..(n + 1) : x[k] = CoerceMembers(a, d[i])
      /\ \A i \in 1..(n + 1), t \in Subs : CoerceMembers(a, d[i])[t] # Bad
      /\ \A i \in 1..(n + 1) : CoerceMembers(a, d[i]) # NoSubs =>
           \E k \in DOMAIN x : x[k] = CoerceMembers(a, d[i])
  <2>1. x = CoerceElems(a, d) /\ CoerceElems(a, d) # Bad
    BY <1>1, SetIs
  <2>2. n + 1 \in Nat /\ n + 1 \in 1..(n + 1) /\ \A i \in 1..n : i \in 1..(n + 1)
    BY <1>2
  <2> QED BY <2>1, <2>2, <1>7, CoercedFrom, CoercedKeeps
<1>9. /\ e = CoerceMembers(a, d[n + 1])
      /\ \A t \in Subs : e[t] = IF t \in SubsOf(a) THEN CoerceScalar(a, t, made[t]) ELSE Nil
      /\ \A t \in Subs : e[t] # Bad
  BY <1>7, <1>8 DEF CoerceMembers
<1> HIDE DEF e
<1>10. ASSUME NEW t \in SubsOf(a), made[t] \in Scalars
       PROVE  e[t] \in Scalars /\ e[t] # Nil /\ Fold[e[t]] = Fold[made[t]]
  <2>1. t \in Subs /\ Schema[a].subs[t].type \in Types
    BY <1>2, SchemaFacts
  <2>2. e[t] = Convert[Schema[a].subs[t].type][made[t]] /\ e[t] # Bad
    BY <1>9, <1>10, <2>1, DataAssumption DEF CoerceScalar
  <2> QED BY <2>1, <2>2, <1>10, DataAssumption, ApplyAssumption
<1>11. Holds(f, e)
  <2>1. ASSUME NEW t \in Subs, f.eqs[t] # Nil
        PROVE  IF f.eqs[t] = Null THEN e[t] = Nil ELSE e[t] # Nil /\ Fold[e[t]] = Fold[f.eqs[t]]
    <3>1. made[t] = IF f.eqs[t] = Null THEN Nil ELSE f.eqs[t]
      BY <1>4, <1>5, <2>1
    <3>2. CASE f.eqs[t] = Null
      <4>1. made[t] = Nil
        BY <3>1, <3>2
      <4>2. e[t] = Nil
        BY <4>1, <1>9 DEF CoerceScalar
      <4> QED BY <4>2, <3>2
    <3>3. CASE f.eqs[t] # Null
      <4>1. f.eqs[t] \in Scalars /\ t \in SubsOf(a) /\ made[t] = f.eqs[t]
        BY <1>4, <2>1, <3>1, <3>3
      <4> QED BY <4>1, <3>3, <1>10
    <3> QED BY <3>2, <3>3
  <2> QED BY <2>1, <1>4, ClausesOf
<1>12. Has(a, s, at, e)
  <2>1. \A t \in SubsOf(a) : at[t] # Nil => t \in Subs /\ e[t] = CoerceScalar(a, t, at[t])
    BY <1>2, <1>5, <1>9
  <2> QED BY <2>1 DEF Has, Reached
<1>13. ASSUME NEW i \in 1..n PROVE ~Holds(f, CoerceMembers(a, d[i]))
  <2>1. i \in DOMAIN old /\ ~Holds(f, old[i]) /\ Fits(a, old[i])
    BY <1>2 DEF Matches
  <2>2. CASE d[i] = old[i]
    BY <2>1, <2>2, FitsCoerced
  <2>3. CASE d[i] # old[i]
    <3>1. /\ d[i] = [old[i] EXCEPT !["primary"] = False]
          /\ old[i]["primary"] = True /\ made["primary"] = True
      BY <1>7, <2>3
    <3>2. SUFFICES ASSUME Holds(f, CoerceMembers(a, d[i])) PROVE Holds(f, old[i])
      BY <2>1
    <3>3. ASSUME NEW t \in Subs, f.eqs[t] # Nil
          PROVE  IF f.eqs[t] = Null THEN old[i][t] = Nil ELSE old[i][t] # Nil /\ Fold[old[i][t]] = Fold[f.eqs[t]]
      <4>1. CASE t # "primary"
        <5>1. d[i][t] = old[i][t]
          BY <1>2, <2>1, <3>1, <4>1
        <5>2. CoerceMembers(a, d[i])[t] = old[i][t]
          BY <5>1, <2>1, CoercedAt
        <5> QED BY <5>2, <3>2, <3>3, <1>4, ClausesOf
      <4>2. CASE t = "primary"
        <5>1. made[t] = True /\ True # Nil /\ True \in Scalars
          BY <3>1, <4>2, Truth
        <5>2. f.eqs[t] = True /\ f.eqs[t] # Null
          BY <5>1, <1>4, <1>5, <3>3, DataAssumption
        <5> QED BY <5>1, <5>2, <3>1, <4>2
      <4> QED BY <4>1, <4>2
    <3> QED BY <3>3, <1>4, ClausesOf
  <2> QED BY <2>2, <2>3
<1>14. CASE e = NoSubs
  <2>1. ASSUME NEW i \in 1..n PROVE d[i] = old[i]
    <3>1. SUFFICES ASSUME d[i] # old[i] PROVE FALSE
      OBVIOUS
    <3>2. old[i]["primary"] = True /\ made["primary"] = True /\ True # Nil /\ True \in Scalars
      BY <1>7, <3>1, Truth
    <3>3. "primary" \in SubsOf(a)
      BY <1>2, <3>2 DEF Fits
    <3>4. e["primary"] # Nil
      BY <3>2, <3>3, <1>10
    <3> QED BY <3>4, <1>2, <1>14 DEF NoSubs
  <2> DEFINE elems == [i \in DOMAIN d |-> CoerceMembers(a, d[i])]
             left == {i \in DOMAIN elems : elems[i] # NoSubs}
  <2>2. x = Selected(elems, left)
    <3>1. CoerceElems(a, d) = IF \/ \E i \in DOMAIN elems, t \in Subs : elems[i][t] = Bad
                                 \/ Cardinality(Primaries(WithoutEmpty(elems))) > 1
                              THEN Bad ELSE WithoutEmpty(elems)
      BY DEF CoerceElems
    <3>2. WithoutEmpty(elems) = Selected(elems, left)
      BY DEF WithoutEmpty
    <3> HIDE DEF elems, left
    <3> QED BY <3>1, <3>2, <1>8
  <2>3. /\ DOMAIN elems = 1..(n + 1)
        /\ \A i \in 1..n : elems[i] = old[i]
        /\ elems[n + 1] = NoSubs
    <3>1. DOMAIN elems = 1..(n + 1) /\ \A i \in 1..(n + 1) : elems[i] = CoerceMembers(a, d[i])
      BY <1>7
    <3> HIDE DEF elems
    <3>2. \A i \in 1..n : elems[i] = old[i]
      BY <3>1, <2>1, <1>2, <1>8, FitsCoerced
    <3> QED BY <3>1, <3>2, <1>8, <1>9, <1>14
  <2>4. 1..n \subseteq left /\ n + 1 \notin left
    <3> HIDE DEF elems
    <3> QED BY <2>3, <1>2, <1>8
  <2>5. old \in Seq(Elem) /\ n = Len(old)
    BY DEF Good, n
  <2> HIDE DEF elems, left
  <2>6. x = old
    BY <2>2, <2>3, <2>4, <2>5, <1>2, SelectedButLast
  <2> QED BY <2>6
<1>15. CASE e # NoSubs
  <2>1. PICK k \in DOMAIN x : x[k] = e
    BY <1>8, <1>9, <1>15
  <2>2. k \in Matches(f, x)
    BY <2>1, <1>11 DEF Matches
  <2>3. ASSUME NEW j \in Matches(f, x) PROVE Has(a, s, at, x[j])
    <3>1. j \in DOMAIN x /\ Holds(f, x[j])
      BY DEF Matches
    <3>2. PICK i \in 1..(n + 1) : x[j] = CoerceMembers(a, d[i])
      BY <3>1, <1>8
    <3>3. i = n + 1
      <4>1. i \in 1..n \/ i = n + 1
        BY <1>2
      <4> QED BY <4>1, <3>1, <3>2, <1>13
    <3> QED BY <3>2, <3>3, <1>9, <1>12
  <2>4. x \in Good(a) /\ x # Bad
    BY <1>7, <1>8, CoercedList
  <2>5. at # Bad
    BY <1>3, ApplyAssumption
  <2> QED BY <2>2, <2>3, <2>4, <2>5 DEF at
<1> QED BY <1>14, <1>15

(* A sub-attribute taken out of the elements a filter finds is out of all  *)
(* it finds then.                                                          *)
LEMMA RemoveSubAgain ==
  ASSUME NEW a \in Attrs, Multi(a), NEW old \in Good(a), NEW f, NEW s \in SubsOf(a), f.eqs[s] = Nil,
         NEW x, RemoveSub(a, old, Matches(f, old), s) = Done(x)
  PROVE  RemoveSub(a, x, Matches(f, x), s) = Done(x)
<1> DEFINE hit == Matches(f, old)
           n == Len(old)
           new == [i \in DOMAIN old |-> IF i \in hit THEN [old[i] EXCEPT ![s] = Nil] ELSE old[i]]
           found == Matches(f, x)
           more == [i \in DOMAIN x |-> IF i \in found THEN [x[i] EXCEPT ![s] = Nil] ELSE x[i]]
<1>1. SetElements(a, new) = Done(x)
  BY Outcomes DEF RemoveSub
<1>2. /\ SubsOf(a) \subseteq Subs /\ s \in Subs
      /\ n \in Nat /\ DOMAIN old = 1..n
      /\ \A i \in DOMAIN old : Fits(a, old[i]) /\ DOMAIN old[i] = Subs
  BY SchemaFacts, OldElements
<1>3. /\ DOMAIN new = 1..n
      /\ \A i \in 1..n, t \in Subs : new[i][t] = IF i \in hit /\ t = s THEN Nil ELSE old[i][t]
  BY <1>2
<1> HIDE DEF new, n
<1>4. /\ x = CoerceElems(a, new) /\ CoerceElems(a, new) # Bad
      /\ \A k \in DOMAIN x : \E i \in 1..n : x[k] = CoerceMembers(a, new[i])
  <2>1. x = CoerceElems(a, new) /\ CoerceElems(a, new) # Bad
    BY <1>1, SetIs
  <2> QED BY <2>1, <1>2, <1>3, CoercedFrom
<1>5. x \in Good(a)
  BY <1>2, <1>3, <1>4, CoercedList
<1>6. ASSUME NEW k \in found PROVE k \in DOMAIN x /\ x[k][s] = Nil
  <2>1. k \in DOMAIN x /\ Holds(f, x[k])
    BY DEF Matches
  <2>2. PICK i \in 1..n : x[k] = CoerceMembers(a, new[i])
    BY <2>1, <1>4
  <2>3. \A t \in Subs : f.eqs[t] # Nil => CoerceMembers(a, new[i])[t] = old[i][t]
    BY <1>2, <1>3, CoercedAt
  <2>4. Holds(f, CoerceMembers(a, new[i])) = Holds(f, old[i])
    BY <2>3, HoldsBy
  <2>5. i \in hit
    BY <2>1, <2>2, <2>4, <1>2 DEF Matches
  <2>6. new[i][s] = Nil
    BY <2>5, <1>2, <1>3
  <2>7. CoerceMembers(a, new[i])[s] = Nil
    BY <2>6, <1>2 DEF CoerceMembers, CoerceScalar
  <2> QED BY <2>1, <2>2, <2>7
<1>7. \A i \in DOMAIN x : Fits(a, x[i]) /\ x[i] \in Elem
  BY <1>5, OldElements DEF Fits
<1>8. SetElements(a, more) = Done(x)
  <2>1. ASSUME NEW i \in DOMAIN x PROVE more[i] = x[i]
    <3>1. CASE i \in found
      <4>1. x[i] = [t \in Subs |-> x[i][t]] /\ x[i][s] = Nil
        BY <1>6, <1>7, <3>1 DEF Elem
      <4>2. [x[i] EXCEPT ![s] = Nil] = x[i]
        BY <4>1
      <4> QED BY <3>1, <4>2
    <3>2. CASE i \notin found
      BY <3>2
    <3> QED BY <3>1, <3>2
  <2>2. DOMAIN more = DOMAIN x
    OBVIOUS
  <2> HIDE DEF more, found
  <2>3. \A i \in DOMAIN x : CoerceMembers(a, more[i]) = x[i]
    BY <2>1, <1>7, FitsCoerced
  <2>4. x # Bad
    BY <1>4
  <2> QED BY <2>2, <2>3, <2>4, <1>5, CoercedSame
<1>9. RemoveSub(a, x, found, s) = SetElements(a, more)
  <2>1. ~\E i \in found : x[i][s] # Nil
    BY <1>6
  <2> HIDE DEF found
  <2> QED BY <2>1 DEF RemoveSub
<1> HIDE DEF more
<1> QED BY <1>8, <1>9

(* Nothing is left that a removal's filter finds.                          *)
LEMMA NoneLeft ==
  ASSUME NEW a \in Attrs, NEW old \in Good(a), NEW f, NEW x, RemoveElements(a, old, f) = Done(x)
  PROVE  Matches(f, x) = {}
<1> DEFINE places == DOMAIN old \ Matches(f, old)
<1>1. x = Selected(old, places)
  BY Outcomes DEF RemoveElements
<1>2. old \in Seq(Elem)
  BY DEF Good
<1>3. PICK at : IsSelection(at, Selected(old, places), old, places)
  BY <1>2, SelectedIs
<1>4. \A k \in DOMAIN x : at[k] \in places /\ x[k] = old[at[k]]
  BY <1>1, <1>3 DEF IsSelection
<1>5. \A i \in places : ~Holds(f, old[i])
  BY DEF Matches
<1> HIDE DEF places
<1> QED BY <1>4, <1>5 DEF Matches

(* An operation with a value filter, again.                                *)
LEMMA FilteredAgain ==
  ASSUME NEW a \in Attrs, NEW op, op.kind \in {"add", "remove", "replace"}, NEW old \in Good(a), NEW prof,
         op.path.sub # Nil => op.path.sub \in SubsOf(a),
         op.kind # "remove" => /\ op.value \in RawValue
                               /\ SentAs(op.path.sub, op.value) # Bad =>
                                    Settles(a, op.path.filter, SentAs(op.path.sub, op.value)),
         op.kind = "replace" => op.path.sub # Nil,
         op.kind = "remove" /\ op.path.sub # Nil => op.path.filter.eqs[op.path.sub] = Nil,
         NEW x, ApplyFiltered(a, op, old, prof) = Done(x)
  PROVE  ApplyFiltered(a, op, x, prof) = Done(x)
<1> DEFINE f == op.path.filter
           s == op.path.sub
           v == op.value
           knob == IF op.kind = "add" THEN prof.SynthesizeAddValuePath ELSE prof.ReplaceNoTargetAsAdd
           found == Matches(f, x)
<1>1. \A y : Done(x) # Fail(y) /\ (Done(x) = Done(y) => x = y)
  BY Outcomes
<1>2. \A list : ApplyFiltered(a, op, list, prof) =
        IF ~Multi(a) \/ ~Schema[a].complex THEN Fail("invalidPath")
        ELSE IF op.kind = "remove"
        THEN IF Matches(f, list) = {} THEN Done(list)
             ELSE IF s # Nil THEN RemoveSub(a, list, Matches(f, list), s) ELSE RemoveElements(a, list, f)
        ELSE IF Matches(f, list) = {}
        THEN IF knob THEN Synthesize(a, list, f, s, v) ELSE Fail("noTarget")
        ELSE IF op.kind = "replace" /\ s = Nil THEN ReplaceElements(a, list, Matches(f, list), v)
        ELSE WriteToElements(a, list, Matches(f, list), s, v)
  BY DEF ApplyFiltered
<1>3. Multi(a) /\ Schema[a].complex
  BY <1>1, <1>2
<1> HIDE DEF f, s, v, knob
<1>4. CASE op.kind = "remove"
  <2>1. CASE Matches(f, old) = {}
    <3>1. x = old
      BY <1>1, <1>2, <1>3, <1>4, <2>1
    <3> QED BY <1>2, <1>3, <1>4, <2>1, <3>1
  <2>2. CASE Matches(f, old) # {} /\ s # Nil
    <3>1. RemoveSub(a, old, Matches(f, old), s) = Done(x)
      BY <1>2, <1>3, <1>4, <2>2
    <3>2. s \in SubsOf(a) /\ f.eqs[s] = Nil
      BY <1>4, <2>2 DEF s, f
    <3>3. RemoveSub(a, x, Matches(f, x), s) = Done(x)
      BY <1>3, <3>1, <3>2, RemoveSubAgain
    <3> QED BY <1>2, <1>3, <1>4, <2>2, <3>3
  <2>3. CASE Matches(f, old) # {} /\ s = Nil
    <3>1. RemoveElements(a, old, f) = Done(x)
      BY <1>2, <1>3, <1>4, <2>3
    <3>2. Matches(f, x) = {}
      BY <3>1, NoneLeft
    <3> QED BY <1>2, <1>3, <1>4, <2>3, <3>2
  <2> QED BY <2>1, <2>2, <2>3
<1>5. CASE op.kind # "remove"
  <2>1. v \in RawValue /\ (s = Nil \/ s \in SubsOf(a)) /\ ~(op.kind = "replace" /\ s = Nil)
    BY <1>5 DEF v, s
  <2>2. SentAs(s, v) # Bad => Settles(a, f, SentAs(s, v))
    BY <1>5 DEF v, s, f
  <2>3. SentAs(s, v) # Bad
    <3>1. SUFFICES ASSUME SentAs(s, v) = Bad PROVE FALSE
      OBVIOUS
    <3>2. s = Nil => ElementIn(v) = Bad
      BY <3>1 DEF SentAs
    <3>3. s # Nil => FALSE
      <4>1. SUFFICES ASSUME s # Nil PROVE FALSE
        OBVIOUS
      <4>2. s \in Subs
        BY <2>1, <4>1, SchemaFacts
      <4>3. SentAs(s, v) \in [Subs -> Scalars \cup {Nil, Null, Bad}]
        BY <2>1, <4>1, <4>2, SentIs
      <4> QED BY <3>1, <4>3, ApplyAssumption
    <3>4. CASE Matches(f, old) = {}
      <4>1. Synthesize(a, old, f, s, v) = Done(x)
        BY <1>1, <1>2, <1>3, <1>5, <3>4
      <4> QED BY <1>1, <3>2, <3>3, <4>1 DEF Synthesize
    <3>5. CASE Matches(f, old) # {}
      <4>1. WriteToElements(a, old, Matches(f, old), s, v) = Done(x)
        BY <1>1, <1>2, <1>3, <1>5, <2>1, <3>5
      <4> QED BY <1>1, <3>2, <3>3, <4>1 DEF WriteToElements
    <3> QED BY <3>4, <3>5
  <2>4. \/ x = old /\ Matches(f, old) = {}
        \/ /\ x \in Good(a) /\ x # Bad /\ SentAs(s, v) # Bad /\ found # {}
           /\ \A k \in found : Has(a, s, SentAs(s, v), x[k])
    <3>1. CASE Matches(f, old) = {}
      <4>1. Synthesize(a, old, f, s, v) = Done(x)
        BY <1>1, <1>2, <1>3, <1>5, <3>1
      <4> QED BY <1>3, <2>1, <2>2, <2>3, <3>1, <4>1, SynthFound
    <3>2. CASE Matches(f, old) # {}
      <4>1. WriteToElements(a, old, Matches(f, old), s, v) = Done(x)
        BY <1>1, <1>2, <1>3, <1>5, <2>1, <3>2
      <4> QED BY <1>3, <2>1, <2>2, <2>3, <3>2, <4>1, WriteFound
    <3> QED BY <3>1, <3>2
  <2>5. CASE x = old
    BY <2>5
  <2>6. CASE /\ x \in Good(a) /\ x # Bad /\ SentAs(s, v) # Bad /\ found # {}
             /\ \A k \in found : Has(a, s, SentAs(s, v), x[k])
    <3>1. found \subseteq DOMAIN x
      BY DEF Matches
    <3>2. WriteToElements(a, x, found, s, v) = Done(x)
      <4> HIDE DEF found
      <4> QED BY <2>1, <2>6, <3>1, WrittenAgain
    <3> QED BY <1>2, <1>3, <1>5, <2>1, <2>6, <3>2
  <2> QED BY <2>4, <2>5, <2>6
<1> QED BY <1>4, <1>5

(* A single element is kept unless it is empty.                            *)
LEMMA OnlyOne ==
  ASSUME NEW d
  PROVE  WithoutEmpty(<<d>>) = IF d = NoSubs THEN <<>> ELSE <<d>>
<1> DEFINE list == <<d>>
           places == {i \in DOMAIN list : list[i] # NoSubs}
<1>1. DOMAIN list = 1..1 /\ list[1] = d /\ list \in Seq({d}) /\ Len(list) = 1
  OBVIOUS
<1>2. 1 \in Nat /\ (1 \in places <=> d # NoSubs)
  OBVIOUS
<1>3. WithoutEmpty(list) = Selected(list, places)
  BY DEF WithoutEmpty
<1> HIDE DEF list, places
<1>4. PICK g : KeptSoFar(g, list, 1, places) /\ g[1] = Selected(list, places)
  BY <1>1, <1>2, SelectedSteps
<1>5. g[0] = <<>> /\ g[1] = IF 1 \in places THEN Append(g[0], list[1]) ELSE g[0]
  <2>1. g[0] = <<>> /\ \A k \in 1..1 : g[k] = IF k \in places THEN Append(g[k - 1], list[k]) ELSE g[k - 1]
    BY <1>4 DEF KeptSoFar
  <2>2. 1 \in 1..1 /\ 1 - 1 = 0
    OBVIOUS
  <2>3. g[1] = IF 1 \in places THEN Append(g[1 - 1], list[1]) ELSE g[1 - 1]
    BY <2>1, <2>2
  <2> QED BY <2>1, <2>2, <2>3
<1>6. Append(<<>>, d) = <<d>>
  OBVIOUS
<1>7. WithoutEmpty(list) = IF d # NoSubs THEN <<d>> ELSE <<>>
  <2>1. 1 \in places <=> d # NoSubs
    BY <1>2
  <2>2. CASE 1 \in places
    <3>1. g[1] = Append(g[0], d)
      BY <1>1, <1>5, <2>2
    <3> QED BY <3>1, <2>1, <2>2, <1>3, <1>4, <1>5, <1>6
  <2>3. CASE 1 \notin places
    BY <2>1, <2>3, <1>3, <1>4, <1>5
  <2> QED BY <2>2, <2>3
<1> QED BY <1>7 DEF list

(* A sub-attribute set, or unset, through its path.                        *)
LEMMA SubAgain ==
  ASSUME NEW a \in Attrs, ~Multi(a), NEW old \in Good(a), NEW s \in SubsOf(a), NEW y,
         NEW x, SetSub(a, old, s, y) = Done(x)
  PROVE  /\ SetSub(a, x, s, y) = Done(x)
         /\ CoerceScalar(a, s, y) = IF x = <<>> THEN Nil ELSE x[1][s]
         /\ old = <<>> /\ CoerceScalar(a, s, y) = Nil => x = <<>>
<1> DEFINE c == CoerceScalar(a, s, y)
           e == IF old = <<>> THEN NoSubs ELSE old[1]
           d == [e EXCEPT ![s] = c]
<1>1. \A z : Done(x) # Fail(z) /\ (Done(x) = Done(z) => x = z)
  BY Outcomes
<1>2. c # Bad /\ x = WithoutEmpty(<<d>>)
  BY <1>1 DEF SetSub, WithSub
<1>3. \A list : SetSub(a, list, s, y) =
        Done(WithoutEmpty(<<[(IF list = <<>> THEN NoSubs ELSE list[1]) EXCEPT ![s] = c]>>))
  BY <1>2 DEF SetSub, WithSub
<1>4. s \in Subs /\ e = [t \in Subs |-> e[t]]
  <2>1. CASE old = <<>>
    BY <2>1, SchemaFacts DEF NoSubs
  <2>2. CASE old # <<>>
    <3>1. old \in Seq(Elem)
      BY DEF Good
    <3>2. old[1] \in Elem
      BY <2>2, <3>1
    <3> QED BY <2>2, <3>2, SchemaFacts DEF Elem
  <2> QED BY <2>1, <2>2
<1> HIDE DEF c, e
<1>5. d = [t \in Subs |-> IF t = s THEN c ELSE e[t]] /\ d[s] = c
  BY <1>4
<1>6. [d EXCEPT ![s] = c] = d
  BY <1>4, <1>5
<1> HIDE DEF d
<1>7. CASE d = NoSubs
  <2>1. x = <<>> /\ c = Nil
    BY <1>2, <1>4, <1>5, <1>7, OnlyOne DEF NoSubs
  <2>2. SetSub(a, x, s, y) = Done(x)
    BY <1>2, <1>3, <1>6, <1>7, <2>1
  <2> QED BY <2>1, <2>2 DEF c
<1>8. CASE d # NoSubs
  <2>1. x = <<d>>
    BY <1>2, <1>8, OnlyOne
  <2>2. x # <<>> /\ x[1] = d
    BY <2>1
  <2>3. SetSub(a, x, s, y) = Done(x)
    BY <1>2, <1>3, <1>6, <2>1, <2>2
  <2>4. ~(old = <<>> /\ c = Nil)
    BY <1>4, <1>5, <1>8 DEF NoSubs, e
  <2> QED BY <2>2, <2>3, <2>4, <1>5 DEF c
<1> QED BY <1>7, <1>8

(* What is not one of the operations a retry of which is not the same.     *)
Repeatable(op) == ~(SelfDefeating(op) \/ Unfindable(op) \/ BareImmutable(op) \/ BelowImmutable(op))

LEMMA FilterSettles ==
  ASSUME NEW op \in DecodedOps, op.path # Nil, op.path.filter # Nil, Repeatable(op), op.path.attr \in Attrs,
         op.kind # "remove", SentAs(op.path.sub, op.value) # Bad
  PROVE  Settles(op.path.attr, op.path.filter, SentAs(op.path.sub, op.value))
<1> DEFINE f == op.path.filter
           s == op.path.sub
           a == op.path.attr
           at == SentAs(s, op.value)
<1>1. /\ op.path \in Paths /\ f \in Filter /\ s \in Subs \cup {Nil} /\ op.value \in RawValue
      /\ \A t \in Subs : f.eqs[t] \in Scalars \cup {Nil, Null}
  BY DEF DecodedOps, Paths, Filter
<1>2. /\ at = Sent(op)
      /\ at \in [Subs -> Scalars \cup {Nil, Null, Bad}]
      /\ s # Nil => \A t \in Subs : t # s => at[t] = Nil
  <2>1. s = Nil => ElementIn(op.value) # Bad
    BY DEF SentAs
  <2>2. at = Sent(op)
    BY <2>1 DEF SentAs, Sent
  <2> HIDE DEF at
  <2> QED BY <1>1, <2>1, <2>2, SentIs DEF at
<1>3. /\ ~f.negated
      /\ \A t \in Writes(op) : f.eqs[t] = Nil
      /\ (\E t \in Subs : at[t] = Null) => ~\A t \in Subs : f.eqs[t] \in {Nil, Null}
      /\ \A t \in Subs \ SubsOf(a) : f.eqs[t] \notin Scalars
  <2> HIDE DEF at
  <2> QED BY <1>2 DEF Repeatable, SelfDefeating, Unfindable
<1>4. \A t \in Subs : at[t] # Nil => t \in Writes(op)
  <2> HIDE DEF at
  <2> QED BY <1>2 DEF Writes
<1> HIDE DEF at
<1>5. (\E t \in Subs : f.eqs[t] \in Scalars) \/ (\A t \in Subs : at[t] # Null)
  BY <1>1, <1>3
<1> QED BY <1>1, <1>3, <1>4, <1>5 DEF Settles, at

(* An operation with a path, again: what was not refused is not refused    *)
(* now, and makes the same of the attribute.                               *)
LEMMA PathedAgain ==
  ASSUME NEW op \in DecodedOps, op.path # Nil, Repeatable(op), NEW res \in Resources, NEW prof,
         NEW next, ApplyPathed(op, res, prof) = Done(next)
  PROVE  ApplyPathed(op, next, prof) = Done(next)
<1> DEFINE a == op.path.attr
           s == op.path.sub
           f == op.path.filter
           v == op.value
           new == Pathed(op, res, prof)
           y == IF op.kind = "remove" THEN Nil ELSE ScalarOf(v)
<1>1. \A r : ApplyPathed(op, r, prof) =
        IF TargetRefusal(op, r) # Nil THEN Fail(TargetRefusal(op, r))
        ELSE IF ~Pathed(op, r, prof).ok THEN Pathed(op, r, prof)
        ELSE Done([r EXCEPT ![a] = Pathed(op, r, prof).val])
  BY DEF ApplyPathed, Pathed
<1>2. TargetRefusal(op, res) = Nil
  BY <1>1, Outcomes
<1>3. /\ a \in Attrs /\ (s # Nil => s \in SubsOf(a)) /\ (s # Nil /\ f = Nil => ~Multi(a))
      /\ MutableRefusal(a, op, res[a]) = Nil
  BY <1>2, Targeted
<1>4. /\ Resolves(op.path) /\ ~(Multi(a) /\ s # Nil /\ f = Nil)
  <2>1. Nil # "invalidPath"
    BY ApplyAssumption DEF Errors
  <2> QED BY <1>2, <2>1 DEF TargetRefusal
<1>5. /\ op.kind \in {"add", "remove", "replace"} /\ Decoded(op)
      /\ op.kind # "remove" => v \in RawValue
  BY DecodedIs DEF DecodedOps, Kinds
<1>6. Yields(new, a) /\ res[a] \in Good(a)
  BY <1>2, <1>3, <1>5, PathedYields, ResourceWith
<1> DEFINE x == new.val
<1>7. new = Done(x) /\ next = [res EXCEPT ![a] = x]
  <2> HIDE DEF new, a
  <2>1. new.ok
    BY <1>1, <1>2, Outcomes DEF new, a
  <2>2. new = Done(new.val)
    BY <2>1, <1>6, Outcomes DEF Yields
  <2>3. ApplyPathed(op, res, prof) = Done([res EXCEPT ![a] = new.val])
    BY <1>1, <1>2, <2>1 DEF new
  <2>4. next = [res EXCEPT ![a] = new.val]
    <3>1. \A r : Done(next) = Done(r) => next = r
      BY Outcomes
    <3> QED BY <2>3, <3>1
  <2> QED BY <2>2, <2>4
<1>8. x \in Good(a)
  <2> HIDE DEF new, a
  <2> QED BY <1>6, <1>7, Outcomes DEF Yields
<1> HIDE DEF x
<1>9. next[a] = x /\ [next EXCEPT ![a] = x] = next
  <2>1. res = [b \in Attrs |-> res[b]]
    BY DEF Resources
  <2> HIDE DEF a, new
  <2> QED BY <1>3, <1>7, <2>1
<1>10. MutableRefusal(a, op, x) = Nil /\ Pathed(op, next, prof) = Done(x)
       => ApplyPathed(op, next, prof) = Done(next)
  <2> SUFFICES ASSUME MutableRefusal(a, op, x) = Nil, Pathed(op, next, prof) = Done(x)
               PROVE  ApplyPathed(op, next, prof) = Done(next)
    OBVIOUS
  <2>1. TargetRefusal(op, next) = Nil
    BY <1>4, <1>9 DEF TargetRefusal
  <2> HIDE DEF a
  <2> QED BY <1>1, <1>9, <2>1, Outcomes
<1>11. \A old : MutableRefusal(a, op, old) =
         IF Schema[a].mutability = "readOnly" \/ (s # Nil /\ ~Writable(a, s)) THEN "mutability"
         ELSE IF s = Nil /\ f = Nil
         THEN IF ImmutableRefusal(a, op.kind, old, v) = Nil /\ op.kind = "remove" /\ Schema[a].required
              THEN "mutability" ELSE ImmutableRefusal(a, op.kind, old, v)
         ELSE IF Schema[a].mutability = "immutable" /\ old # <<>> THEN "mutability"
         ELSE IF s # Nil /\ f = Nil THEN SubRefusal(a, s, IF old = <<>> THEN Nil ELSE old[1][s], y)
         ELSE Nil
  BY DEF MutableRefusal
<1>12. "mutability" # Nil
  BY ApplyAssumption DEF Errors
<1>13. ~(Schema[a].mutability = "readOnly" \/ (s # Nil /\ ~Writable(a, s)))
  BY <1>3, <1>11, <1>12
<1>14. ~(s = Nil /\ f = Nil) /\ Schema[a].mutability = "immutable" => op.kind = "remove" /\ res[a] = <<>>
  <2>1. ~BelowImmutable(op)
    BY DEF Repeatable
  <2>2. ~(s = Nil /\ f = Nil) /\ Schema[a].mutability = "immutable" => op.kind = "remove"
    BY <2>1 DEF BelowImmutable
  <2> HIDE DEF a, s, f, v, y
  <2> QED BY <2>2, <1>3, <1>11, <1>12
<1>15. CASE f # Nil
  <2>1. \A r : Pathed(op, r, prof) = ApplyFiltered(a, op, r[a], prof)
    BY <1>15 DEF Pathed
  <2>2. ApplyFiltered(a, op, res[a], prof) = Done(x)
    BY <1>7, <2>1
  <2>3. op.kind = "replace" => s # Nil
    BY <1>15 DEF Repeatable, SelfDefeating
  <2>4. op.kind = "remove" /\ s # Nil => f.eqs[s] = Nil
    BY <1>15 DEF Repeatable, SelfDefeating, Writes
  <2>5. op.kind # "remove" => (SentAs(s, v) # Bad => Settles(a, f, SentAs(s, v)))
    BY <1>3, <1>15, FilterSettles
  <2>6. ApplyFiltered(a, op, x, prof) = Done(x)
    <3> HIDE DEF a, new
    <3> QED BY <1>3, <1>5, <1>6, <2>2, <2>3, <2>4, <2>5, FilteredAgain
  <2>7. MutableRefusal(a, op, x) = Nil
    <3>1. Schema[a].mutability = "immutable" => x = <<>>
      <4>1. SUFFICES ASSUME Schema[a].mutability = "immutable" PROVE x = <<>>
        OBVIOUS
      <4>2. op.kind = "remove" /\ res[a] = <<>>
        BY <1>14, <1>15, <4>1
      <4>3. Matches(f, res[a]) = {}
        BY <4>2 DEF Matches
      <4>4. ApplyFiltered(a, op, res[a], prof) = Done(res[a]) \/ ApplyFiltered(a, op, res[a], prof) = Fail("invalidPath")
        BY <4>2, <4>3 DEF ApplyFiltered
      <4> HIDE DEF a
      <4> QED BY <2>2, <4>2, <4>4, Outcomes
    <3> HIDE DEF a, s, f, v, y
    <3> QED BY <3>1, <1>11, <1>13, <1>15
  <2> HIDE DEF a
  <2> QED BY <1>9, <1>10, <2>1, <2>6, <2>7
<1>16. CASE f = Nil /\ s # Nil
  <2>1. \A r : Pathed(op, r, prof) = SetSub(a, r[a], s, y)
    BY <1>16 DEF Pathed
  <2> HIDE DEF a, s, f, v, y, new
  <2>2. SetSub(a, res[a], s, y) = Done(x)
    BY <1>7, <2>1 DEF new
  <2>3. /\ SetSub(a, x, s, y) = Done(x)
        /\ CoerceScalar(a, s, y) = IF x = <<>> THEN Nil ELSE x[1][s]
        /\ res[a] = <<>> /\ CoerceScalar(a, s, y) = Nil => x = <<>>
    <3>1. a \in Attrs /\ ~Multi(a) /\ s \in SubsOf(a) /\ res[a] \in Good(a)
      BY <1>3, <1>6, <1>16
    <3> DEFINE old == res[a]
    <3>2. old \in Good(a) /\ SetSub(a, old, s, y) = Done(x)
      BY <3>1, <2>2
    <3> HIDE DEF old
    <3>3. /\ SetSub(a, x, s, y) = Done(x)
          /\ CoerceScalar(a, s, y) = IF x = <<>> THEN Nil ELSE x[1][s]
          /\ old = <<>> /\ CoerceScalar(a, s, y) = Nil => x = <<>>
      BY <3>1, <3>2, SubAgain
    <3> QED BY <3>3 DEF old
  <2>4. Schema[a].mutability = "immutable" => x = <<>>
    <3>1. op.kind = "remove" => CoerceScalar(a, s, y) = Nil
      BY DEF y, CoerceScalar
    <3> QED BY <3>1, <1>14, <1>16, <2>3
  <2>5. SubRefusal(a, s, IF x = <<>> THEN Nil ELSE x[1][s], y) = Nil
    BY <2>3 DEF SubRefusal
  <2>6. MutableRefusal(a, op, x) = Nil
    BY <2>4, <2>5, <1>11, <1>13, <1>16
  <2> QED BY <1>9, <1>10, <2>1, <2>3, <2>6
<1>17. CASE f = Nil /\ s = Nil
  <2>1. \A r : Pathed(op, r, prof) = CASE op.kind = "add"     -> AddToAttribute(a, r[a], v)
                                       [] op.kind = "replace" -> ReplaceAttribute(a, r[a], v)
                                       [] op.kind = "remove"  -> Done(<<>>)
    BY <1>17 DEF Pathed
  <2>2. ImmutableRefusal(a, op.kind, res[a], v) = Nil /\ ~(op.kind = "remove" /\ Schema[a].required)
    <3> HIDE DEF a, s, f, v, y
    <3> QED BY <1>3, <1>11, <1>12, <1>13, <1>17
  <2>3. CASE op.kind = "remove"
    <3>1. x = <<>>
      <4> HIDE DEF a, new
      <4> QED BY <1>7, <2>1, <2>3, Outcomes DEF new
    <3>2. Pathed(op, next, prof) = Done(x)
      BY <2>1, <2>3, <3>1
    <3>3. ImmutableRefusal(a, op.kind, x, v) = Nil
      BY <3>1 DEF ImmutableRefusal
    <3> HIDE DEF a, s, f, v, y
    <3> QED BY <3>2, <3>3, <2>2, <1>10, <1>11, <1>13, <1>17
  <2>4. CASE op.kind \in {"add", "replace"}
    <3>1. \A r : Pathed(op, r, prof) = Whole(a, op.kind, r[a], v)
      BY <2>1, <2>4 DEF Whole
    <3>2. Whole(a, op.kind, res[a], v) = Done(x)
      BY <1>7, <3>1
    <3>3. ~Bare(a, v)
      BY <2>4 DEF Repeatable, BareImmutable
    <3> HIDE DEF a, s, f, v, y, new
    <3>4. v \in RawValue
      BY <1>5, <2>4
    <3>5. Whole(a, op.kind, x, v) = Done(x)
      BY <1>3, <1>6, <2>4, <3>2, <3>4, WholeAgain
    <3>6. ImmutableRefusal(a, op.kind, x, v) = Nil
      BY <1>3, <1>6, <2>2, <2>4, <3>2, <3>3, <3>4, OwnValueTaken
    <3>7. MutableRefusal(a, op, x) = Nil
      BY <3>6, <2>2, <1>11, <1>13, <1>17
    <3> QED BY <1>9, <1>10, <3>1, <3>5, <3>7
  <2> QED BY <1>5, <2>3, <2>4
<1> QED BY <1>15, <1>16, <1>17

-----------------------------------------------------------------------------
(* A key of an object is settled when writing it again changes nothing.    *)
KeySettled(op, a, list) ==
  \/ op.object[a] = Nil \/ Schema[a].mutability = "readOnly"
  \/ /\ ImmutableRefusal(a, op.kind, list, op.object[a]) = Nil
     /\ Whole(a, op.kind, list, op.object[a]) = Done(list)

LEMMA KeyWritten ==
  ASSUME NEW op, op.kind \in {"add", "replace"}, op.object \in [Attrs -> RawValue \cup {Nil}],
         NEW res \in Resources, NEW a \in Attrs, op.object[a] # Nil => ~Bare(a, op.object[a]),
         NEW next, ApplyKey(op, res, a) = Done(next)
  PROVE  /\ KeySettled(op, a, next[a])
         /\ \A b \in Attrs : b # a => next[b] = res[b]
<1> DEFINE v == op.object[a]
           new == Whole(a, op.kind, res[a], v)
           refused == ImmutableRefusal(a, op.kind, res[a], v)
           x == new.val
<1>1. ApplyKey(op, res, a) =
        IF v = Nil \/ Schema[a].mutability = "readOnly" THEN Done(res)
        ELSE IF refused # Nil THEN Fail(refused)
        ELSE IF ~new.ok THEN new ELSE Done([res EXCEPT ![a] = new.val])
  BY DEF ApplyKey, Whole
<1>2. \A z : Done(next) # Fail(z) /\ (Done(next) = Done(z) => next = z)
  BY Outcomes
<1>3. CASE v = Nil \/ Schema[a].mutability = "readOnly"
  <2>1. next = res
    BY <1>1, <1>2, <1>3
  <2> QED BY <2>1, <1>3 DEF KeySettled
<1>4. CASE ~(v = Nil \/ Schema[a].mutability = "readOnly")
  <2>1. v \in RawValue /\ res[a] \in Good(a)
    BY <1>4, ResourceWith
  <2>2. Yields(new, a)
    <3> HIDE DEF v
    <3> QED BY <2>1, AddYields, ReplaceYields DEF Whole
  <2> HIDE DEF v, new, refused
  <2>3. refused = Nil /\ new.ok /\ next = [res EXCEPT ![a] = new.val]
    <3>1. refused = Nil
      BY <1>1, <1>2, <1>4
    <3>2. new.ok
      BY <1>1, <1>4, <3>1, Outcomes
    <3> QED BY <1>1, <1>2, <1>4, <3>1, <3>2
  <2>4. new = Done(x)
    BY <2>2, <2>3, Outcomes DEF Yields
  <2>5. Whole(a, op.kind, x, v) = Done(x) /\ ImmutableRefusal(a, op.kind, x, v) = Nil
    <3>1. Whole(a, op.kind, res[a], v) = Done(x)
      BY <2>4 DEF new
    <3>2. ~Bare(a, v)
      BY <1>4 DEF v
    <3>3. ImmutableRefusal(a, op.kind, res[a], v) = Nil
      BY <2>3 DEF refused
    <3> HIDE DEF x
    <3> QED BY <2>1, <3>1, <3>2, <3>3, WholeAgain, OwnValueTaken
  <2> HIDE DEF x
  <2>6. next[a] = x /\ \A b \in Attrs : b # a => next[b] = res[b]
    <3>1. res = [b \in Attrs |-> res[b]]
      BY DEF Resources
    <3> QED BY <2>3, <3>1 DEF x
  <2> QED BY <2>5, <2>6 DEF KeySettled, v
<1> QED BY <1>3, <1>4

LEMMA SettledStays ==
  ASSUME NEW op, NEW res \in Resources, NEW a \in Attrs, KeySettled(op, a, res[a])
  PROVE  ApplyKey(op, res, a) = Done(res)
<1> DEFINE v == op.object[a]
           new == Whole(a, op.kind, res[a], v)
           refused == ImmutableRefusal(a, op.kind, res[a], v)
<1>1. ApplyKey(op, res, a) =
        IF v = Nil \/ Schema[a].mutability = "readOnly" THEN Done(res)
        ELSE IF refused # Nil THEN Fail(refused)
        ELSE IF ~new.ok THEN new ELSE Done([res EXCEPT ![a] = new.val])
  BY DEF ApplyKey, Whole
<1>2. v = Nil \/ Schema[a].mutability = "readOnly" \/ (refused = Nil /\ new = Done(res[a]))
  BY DEF KeySettled
<1>3. [res EXCEPT ![a] = res[a]] = res
  <2>1. res = [b \in Attrs |-> res[b]]
    BY DEF Resources
  <2> QED BY <2>1
<1> HIDE DEF v, new, refused
<1> QED BY <1>1, <1>2, <1>3, Outcomes

(* The keys of an object, again.                                           *)
LEMMA KeysAgain ==
  ASSUME NEW op, op.kind \in {"add", "replace"}, op.object \in [Attrs -> RawValue \cup {Nil}],
         \A a \in Attrs : op.object[a] # Nil => ~Bare(a, op.object[a]),
         NEW res \in Resources, NEW next \in Resources, KeyByKey(op, res) = Done(next)
  PROVE  KeyByKey(op, next) = Done(next)
<1> DEFINE n == Len(AttrOrder)
           key(i) == AttrOrder[i]
<1>1. n \in Nat /\ \A i \in 1..n : key(i) \in Attrs
  BY ApplyAssumption
<1> HIDE DEF n, key
<1>2. PICK f : IsRun(f, n, Results, Done(res), KeySteps(n, op)) /\ f[n] = KeyByKey(op, res)
  BY <1>1, KeyRuns DEF n
<1>3. PICK g : IsRun(g, n, Results, Done(next), KeySteps(n, op)) /\ g[n] = KeyByKey(op, next)
  BY <1>1, KeyRuns DEF n
<1>4. ASSUME NEW h, NEW r, IsRun(h, n, Results, Done(r), KeySteps(n, op))
      PROVE  /\ h[0] = Done(r) /\ \A k \in 0..n : h[k] \in Results
             /\ \A k \in 0..n : k < n =>
                  h[k + 1] = IF h[k].ok THEN ApplyKey(op, h[k].val, key(k + 1)) ELSE h[k]
  <2>1. /\ h \in [0..n -> Results] /\ h[0] = Done(r)
        /\ \A k \in 1..n : h[k] = KeySteps(n, op)[k][h[k - 1]]
    BY <1>4 DEF IsRun
  <2>2. ASSUME NEW k \in 0..n, k < n
        PROVE  h[k + 1] = IF h[k].ok THEN ApplyKey(op, h[k].val, key(k + 1)) ELSE h[k]
    <3>1. k + 1 \in 1..n /\ (k + 1) - 1 = k
      BY <1>1, <2>2
    <3>2. h[k + 1] = KeySteps(n, op)[k + 1][h[k]]
      BY <2>1, <3>1
    <3>3. h[k] \in Results
      BY <2>1
    <3> QED BY <3>1, <3>2, <3>3 DEF KeySteps, key
  <2> QED BY <2>1, <2>2
<1>5. /\ f[0] = Done(res) /\ \A k \in 0..n : f[k] \in Results
      /\ \A k \in 0..n : k < n => f[k + 1] = IF f[k].ok THEN ApplyKey(op, f[k].val, key(k + 1)) ELSE f[k]
  BY <1>2, <1>4
<1>6. /\ g[0] = Done(next)
      /\ \A k \in 0..n : k < n => g[k + 1] = IF g[k].ok THEN ApplyKey(op, g[k].val, key(k + 1)) ELSE g[k]
  BY <1>3, <1>4
<1> DEFINE H == {k \in 0..n : f[k].ok => \A i \in 1..k : KeySettled(op, key(i), f[k].val[key(i)])}
<1>7. 0 \in H
  BY <1>1
<1>8. ASSUME NEW k \in 0..n, k \in H, k < n PROVE k + 1 \in H
  <2>1. /\ k \in Nat /\ k + 1 \in 1..n /\ k + 1 \in 0..n
        /\ \A i \in 1..(k + 1) : i \in 1..n /\ (i \in 1..k \/ i = k + 1)
    BY <1>1, <1>8
  <2> SUFFICES ASSUME f[k + 1].ok, NEW i \in 1..(k + 1) PROVE KeySettled(op, key(i), f[k + 1].val[key(i)])
    BY <2>1
  <2>2. f[k + 1] = IF f[k].ok THEN ApplyKey(op, f[k].val, key(k + 1)) ELSE f[k]
    BY <1>5, <1>8
  <2>3. f[k].ok
    BY <2>2
  <2> DEFINE before == f[k].val
             after == f[k + 1].val
  <2>4. before \in Resources /\ ApplyKey(op, before, key(k + 1)) = Done(after)
    <3>1. f[k] \in Results /\ f[k + 1] \in Results
      BY <1>5, <2>1
    <3> QED BY <3>1, <2>2, <2>3, ResultsAre
  <2>5. key(k + 1) \in Attrs /\ key(i) \in Attrs
    BY <1>1, <2>1
  <2>6. \A j \in 1..k : KeySettled(op, key(j), before[key(j)])
    BY <1>8, <2>3
  <2> HIDE DEF before, after
  <2>7. /\ KeySettled(op, key(k + 1), after[key(k + 1)])
        /\ \A b \in Attrs : b # key(k + 1) => after[b] = before[b]
    BY <2>4, <2>5, KeyWritten
  <2>8. KeySettled(op, key(i), after[key(i)])
    <3>1. CASE key(i) = key(k + 1)
      BY <3>1, <2>7
    <3>2. CASE key(i) # key(k + 1)
      <4>1. i \in 1..k
        BY <2>1, <3>2
      <4> QED BY <4>1, <3>2, <2>5, <2>6, <2>7
    <3> QED BY <3>1, <3>2
  <2> QED BY <2>8 DEF after
<1>9. 0..n \subseteq H
  <2> HIDE DEF H
  <2> QED BY <1>1, <1>7, <1>8, UpTo
<1>10. \A i \in 1..n : KeySettled(op, key(i), next[key(i)])
  <2>1. n \in 0..n
    BY <1>1
  <2>2. f[n].ok /\ f[n].val = next
    BY <1>2, Outcomes
  <2> QED BY <2>1, <2>2, <1>9
<1> DEFINE G == {k \in 0..n : g[k] = Done(next)}
<1>11. 0 \in G
  BY <1>1, <1>6
<1>12. ASSUME NEW k \in 0..n, k \in G, k < n PROVE k + 1 \in G
  <2>1. k + 1 \in 1..n /\ k + 1 \in 0..n
    BY <1>1, <1>12
  <2>2. g[k + 1] = ApplyKey(op, next, key(k + 1))
    BY <1>6, <1>12, Outcomes
  <2>3. ApplyKey(op, next, key(k + 1)) = Done(next)
    BY <1>1, <1>10, <2>1, SettledStays
  <2> QED BY <2>1, <2>2, <2>3
<1>13. 0..n \subseteq G
  <2> HIDE DEF G
  <2> QED BY <1>1, <1>11, <1>12, UpTo
<1>14. n \in 0..n
  BY <1>1
<1> QED BY <1>3, <1>13, <1>14

(* What an operation made of a resource, it leaves as it is.               *)
LEMMA PerformedAgain ==
  ASSUME NEW op \in DecodedOps, Repeatable(op), NEW res \in Resources, NEW prof,
         NEW next \in Resources, Perform(op, res, prof) = Done(next)
  PROVE  Perform(op, next, prof) = Done(next)
<1>1. CASE op.path # Nil
  <2>1. \A r : Perform(op, r, prof) = ApplyPathed(op, r, prof)
    BY <1>1 DEF Perform
  <2> QED BY <2>1, <1>1, PathedAgain
<1>2. CASE op.path = Nil
  <2>1. op.kind # "remove" /\ op.object # Nil
    BY <1>2, Outcomes DEF Perform
  <2>2. \A r : Perform(op, r, prof) = KeyByKey(op, r)
    BY <1>2, <2>1 DEF Perform, KeyByKey
  <2>3. op.kind \in {"add", "replace"} /\ op.object \in [Attrs -> RawValue \cup {Nil}]
    BY <2>1 DEF DecodedOps, Kinds
  <2>4. \A a \in Attrs : op.object[a] # Nil => ~Bare(a, op.object[a])
    BY <1>2 DEF Repeatable, BareImmutable
  <2> QED BY <2>2, <2>3, <2>4, KeysAgain
<1> QED BY <1>1, <1>2

(* A client that sends the operation again because the answer was lost     *)
(* gets a success and changes nothing, for every stored resource and every *)
(* operation but those RetrySafe names; duplicates, primaries that were    *)
(* demoted, elements made up for a filter and assigned immutable           *)
(* attributes included (Result, appendNew, demoteOthers,                   *)
(* synthesizeElement, checkMutable).                                       *)
THEOREM RetriesSafe == Spec => []RetrySafe
<1> DEFINE Inv == Ready /\ RetrySafe
<1>1. Init => Inv
  <2>1. Init => Ready
    BY StartsReady
  <2>2. Init => done = 0
    BY DEF Init
  <2> QED BY <2>1, <2>2 DEF RetrySafe
<1>2. Inv /\ [Next]_vars => Inv'
  <2> SUFFICES ASSUME Ready, RetrySafe, [Next]_vars PROVE Inv'
    OBVIOUS
  <2>1. Ready'
    BY NextReady
  <2>2. ASSUME NEW kind, Step(kind) PROVE RetrySafe'
    <3>1. /\ done \in Nat /\ ops[done + 1] \in DecodedOps
          /\ ops' = ops /\ profile' = profile
          /\ \/ /\ Perform(ops[done + 1], work, profile) = Done(work')
                /\ work' \in Resources /\ done' = done + 1
             \/ err' \in Errors
      BY <2>2, StepApplies
    <3>2. CASE err' \in Errors
      <4>1. err' # Nil
        BY <3>2, ApplyAssumption
      <4> QED BY <4>1 DEF RetrySafe
    <3>3. CASE Perform(ops[done + 1], work, profile) = Done(work') /\ work' \in Resources /\ done' = done + 1
      <4> DEFINE op == ops[done + 1]
      <4>1. LastOp' = op
        BY <3>1, <3>3 DEF LastOp
      <4>2. work \in Resources
        BY DEF Ready
      <4>3. Repeatable(op) => Perform(op, work', profile) = Done(work')
        <5> HIDE DEF op
        <5> QED BY <3>1, <3>3, <4>2, PerformedAgain DEF op
      <4> QED BY <3>1, <4>1, <4>3 DEF RetrySafe, Repeatable
    <3> QED BY <3>1, <3>2, <3>3
  <2>3. CASE DecodeMessage
    <3>1. done' = 0
      BY <2>3 DEF Ready, DecodeMessage
    <3> QED BY <2>1, <3>1 DEF RetrySafe
  <2>4. CASE UNCHANGED vars
    BY <2>1, <2>4 DEF RetrySafe, LastOp, vars
  <2>5. CASE ApplyAdd \/ ApplyRemove \/ ApplyReplace
    BY <2>1, <2>2, <2>5 DEF ApplyAdd, ApplyRemove, ApplyReplace
  <2> QED BY <2>3, <2>4, <2>5 DEF Next
<1>3. Inv => RetrySafe
  OBVIOUS
<1> QED BY <1>1, <1>2, <1>3, PTL DEF Spec

-----------------------------------------------------------------------------
(* Tolerance: what the strict profile applies, no rewriting changes.       *)

LEMMA ScalarStays ==
  ASSUME NEW a \in Attrs, NEW s \in SubsOf(a), NEW x, CoerceScalar(a, s, x) # Bad
  PROVE  Unquoted(a, s, x) = x
<1>1. Schema[a].subs[s].type \in Types
  BY SchemaFacts
<1>2. CASE x \in Scalars
  <2>1. x \notin {Nil, Null}
    BY <1>2, DataAssumption
  <2>2. Convert[Schema[a].subs[s].type][x] # Bad
    BY <1>2, <2>1 DEF CoerceScalar
  <2>3. Unquote[Schema[a].subs[s].type][x] = x
    BY <1>1, <1>2, <2>2, DecodeAssumption
  <2> QED BY <1>2, <2>3 DEF Unquoted
<1>3. CASE x \notin Scalars
  BY <1>3 DEF Unquoted
<1> QED BY <1>2, <1>3

(* Every member of an element is one its sub-attribute takes.              *)
Accepted(a, at) == \A s \in SubsOf(a) : CoerceScalar(a, s, at[s]) # Bad

LEMMA ElemStays ==
  ASSUME NEW a \in Attrs, NEW e \in RawElem, Accepted(a, e.at)
  PROVE  UnquoteElem(a, e) = e
<1>1. e = [form |-> e.form, at |-> e.at] /\ e.at \in [Subs -> Scalars \cup {Nil, Null}]
  BY RawElemIs
<1>2. \A s \in SubsOf(a) : Unquoted(a, s, e.at[s]) = e.at[s]
  BY ScalarStays DEF Accepted
<1>3. [s \in Subs |-> IF s \in SubsOf(a) THEN Unquoted(a, s, e.at[s]) ELSE e.at[s]] = e.at
  BY <1>1, <1>2
<1> QED BY <1>1, <1>3 DEF UnquoteElem

LEMMA ValueStays ==
  ASSUME NEW a \in Attrs, NEW v \in RawValue, \A i \in DOMAIN v.elems : Accepted(a, v.elems[i].at)
  PROVE  UnquoteValue(a, Nil, v) = v
<1>1. v = [list |-> v.list, elems |-> v.elems] /\ v.elems \in Seq(RawElem)
  BY RawValueIs
<1>2. \A i \in DOMAIN v.elems : v.elems[i] \in RawElem
  BY <1>1
<1>3. \A i \in DOMAIN v.elems : UnquoteElem(a, v.elems[i]) = v.elems[i]
  BY <1>2, ElemStays
<1>4. [i \in DOMAIN v.elems |-> UnquoteElem(a, v.elems[i])] = v.elems
  BY <1>1, <1>3
<1>5. CASE v = Nil
  BY <1>5 DEF UnquoteValue
<1>6. CASE v # Nil
  <2>1. UnquoteValue(a, Nil, v) = [v EXCEPT !.elems = [i \in DOMAIN v.elems |-> UnquoteElem(a, v.elems[i])]]
    BY <1>6 DEF UnquoteValue
  <2> QED BY <1>1, <1>4, <2>1
<1> QED BY <1>5, <1>6

(* The value of a write of a whole attribute, as coerceOpValue reads it.   *)
AsWhole(a, v) == IF Multi(a) THEN Wrap(v) ELSE v

LEMMA AsWholeIs ==
  ASSUME NEW a, NEW v \in RawValue
  PROVE  AsWhole(a, v).elems = v.elems /\ (Multi(a) => AsWhole(a, v).list) /\ (~Multi(a) => AsWhole(a, v) = v)
<1>1. v = [list |-> v.list, elems |-> v.elems]
  BY RawValueIs
<1> QED BY <1>1 DEF AsWhole, Wrap

(* A value that is stored whole has the attribute's shape and nothing to   *)
(* rewrite.                                                                *)
LEMMA WholeTaken ==
  ASSUME NEW a \in Attrs, NEW v \in RawValue, Coerce(a, AsWhole(a, v)) # Bad
  PROVE  /\ \A i \in DOMAIN v.elems : Accepted(a, v.elems[i].at)
         /\ Multi(a) \/ ~v.list
         /\ ~Schema[a].complex => \A i \in DOMAIN v.elems : v.elems[i].form # "object"
<1> DEFINE w == AsWhole(a, v)
<1>1. w.elems = v.elems /\ (Multi(a) => w.list) /\ (~Multi(a) => w = v)
  BY AsWholeIs
<1>2. v.list \in BOOLEAN /\ v.elems \in Seq(RawElem) /\ (v.list \/ Len(v.elems) = 1)
  BY RawValueIs
<1>3. \A i \in DOMAIN v.elems : v.elems[i] \in RawElem
  BY <1>2
<1>4. SubsOf(a) \subseteq Subs /\ Nil # Bad
  BY SchemaFacts, DataAssumption
<1> HIDE DEF w
<1>5. CASE IsNull(w)
  <2>1. ~w.list /\ w.elems[1].form = "null"
    BY <1>5 DEF IsNull
  <2>2. ~Multi(a) /\ w = v
    BY <1>1, <2>1
  <2>3. ~v.list /\ Len(v.elems) = 1 /\ v.elems[1].form = "null"
    BY <1>2, <2>1, <2>2
  <2>4. DOMAIN v.elems = {1}
    BY <1>2, <2>3
  <2>5. \A s \in Subs : v.elems[1].at[s] = Nil
    <3>1. v.elems[1] \in RawElem
      BY <1>3, <2>4
    <3>2. v.elems[1].at["value"] = Nil /\ \A s \in Subs \ {"value"} : v.elems[1].at[s] = Nil
      BY <2>3, <3>1, RawElemIs
    <3> QED BY <3>2
  <2>6. Accepted(a, v.elems[1].at)
    BY <1>4, <2>5 DEF Accepted, CoerceScalar
  <2> QED BY <2>3, <2>4, <2>6
<1>6. CASE ~IsNull(w)
  <2> DEFINE ats == [i \in DOMAIN w.elems |-> w.elems[i].at]
  <2>1. /\ w.list = Multi(a)
        /\ \A i \in DOMAIN w.elems : FitsShape(a, w.elems[i])
        /\ CoerceElems(a, ats) # Bad
    BY <1>6 DEF Coerce, w, Multi
  <2>2. DOMAIN ats = DOMAIN v.elems /\ \A i \in DOMAIN v.elems : ats[i] = v.elems[i].at
    BY <1>1
  <2> HIDE DEF ats
  <2>3. \A i \in DOMAIN ats, s \in Subs : CoerceMembers(a, ats[i])[s] # Bad
    BY <2>1 DEF CoerceElems
  <2>4. \A i \in DOMAIN v.elems : Accepted(a, v.elems[i].at)
    BY <1>4, <2>2, <2>3 DEF Accepted, CoerceMembers
  <2>5. ~Schema[a].complex => \A i \in DOMAIN v.elems : v.elems[i].form # "object"
    BY <1>1, <2>1 DEF FitsShape
  <2>6. Multi(a) \/ ~v.list
    BY <1>1, <2>1
  <2> QED BY <2>4, <2>5, <2>6
<1> QED BY <1>5, <1>6

(* Nothing in a list or an element to unwrap.                              *)
LEMMA UnwrapStays ==
  ASSUME NEW path, NEW v \in RawValue,
         \A i \in DOMAIN v.elems : v.elems[i].form # "object",
         ~v.list \/ (Multi(path.attr) /\ path.sub = Nil)
  PROVE  Unwrap(path, v) = v
<1>1. v = [list |-> v.list, elems |-> v.elems] /\ v.list \in BOOLEAN /\ v.elems \in Seq(RawElem)
  BY RawValueIs
<1>2. \A i \in DOMAIN v.elems : UnwrapElem(v.elems[i]) = v.elems[i]
  BY DEF UnwrapElem, Wrapper
<1>3. [i \in DOMAIN v.elems |-> UnwrapElem(v.elems[i])] = v.elems
  BY <1>1, <1>2
<1>4. (v.list /\ (Len(v.elems) # 1 \/ (Multi(path.attr) /\ path.sub = Nil))) = v.list
  BY <1>1
<1> QED BY <1>1, <1>3, <1>4 DEF Unwrap

LEMMA WholeStays ==
  ASSUME NEW path, NEW a, a = path.attr, a \in Attrs, path.sub = Nil, NEW v \in RawValue,
         Coerce(a, AsWhole(a, v)) # Bad
  PROVE  UnquoteValue(a, Nil, Unwrap(path, v)) = v
<1>1. Unwrap(path, v) = v
  <2>1. CASE Schema[a].complex
    BY <2>1 DEF Unwrap
  <2>2. CASE ~Schema[a].complex
    <3>1. \A i \in DOMAIN v.elems : v.elems[i].form # "object"
      BY <2>2, WholeTaken
    <3>2. ~v.list \/ Multi(a)
      BY WholeTaken
    <3> QED BY <3>1, <3>2, UnwrapStays
  <2> QED BY <2>1, <2>2
<1> QED BY <1>1, WholeTaken, ValueStays

LEMMA ElemKept ==
  ASSUME NEW e \in RawElem, NEW y, y = e.at["value"]
  PROVE  [e EXCEPT !.at["value"] = y] = e
<1> DEFINE d == [e EXCEPT !.at["value"] = y]
           m == [e.at EXCEPT !["value"] = y]
<1>1. e = [form |-> e.form, at |-> e.at] /\ e.at \in [Subs -> Scalars \cup {Nil, Null}]
  BY RawElemIs
<1>2. d.form = e.form /\ d.at = m /\ d = [form |-> d.form, at |-> d.at]
  BY <1>1
<1>3. m = e.at
  BY <1>1
<1> HIDE DEF d, m
<1>4. d = e
  BY <1>1, <1>2, <1>3
<1> QED BY <1>4 DEF d

LEMMA SubStays ==
  ASSUME NEW path, NEW a, a = path.attr, a \in Attrs, path.sub # Nil, path.sub \in SubsOf(a), NEW v \in RawValue,
         CoerceScalar(a, path.sub, ScalarOf(v)) # Bad
  PROVE  UnquoteValue(a, path.sub, Unwrap(path, v)) = v
<1> DEFINE s == path.sub
<1>1. v = [list |-> v.list, elems |-> v.elems] /\ v.list \in BOOLEAN /\ v.elems \in Seq(RawElem)
      /\ (v.list \/ Len(v.elems) = 1)
  BY RawValueIs
<1>2. Bad \notin Scalars /\ Bad # Nil /\ Bad # Null /\ "value" \in Subs
  BY DataAssumption
<1>3. ScalarOf(v) # Bad
  BY <1>2 DEF CoerceScalar
<1>4. ~v.list /\ v.elems[1].form # "object"
  BY <1>3 DEF ScalarOf, IsNull
<1>5. DOMAIN v.elems = {1}
  BY <1>1, <1>4
<1>6. Unwrap(path, v) = v
  BY <1>4, <1>5, UnwrapStays
<1> DEFINE e == v.elems[1]
           x == e.at["value"]
<1>7. e \in RawElem
  BY <1>1, <1>5
<1>8. e = [form |-> e.form, at |-> e.at] /\ e.at \in [Subs -> Scalars \cup {Nil, Null}]
      /\ (e.form = "null" => x = Nil)
  BY <1>7, RawElemIs
<1>9. Unquoted(a, s, x) = x
  <2>1. CASE e.form = "null"
    <3>1. x \notin Scalars
      BY <1>8, <2>1, DataAssumption
    <3> QED BY <3>1 DEF Unquoted
  <2>2. CASE e.form # "null"
    <3>1. ScalarOf(v) = x
      BY <1>3, <2>2 DEF ScalarOf, IsNull
    <3> QED BY <3>1, ScalarStays
  <2> QED BY <2>1, <2>2
<1> DEFINE Respelled(d) == [d EXCEPT !.at["value"] = Unquoted(a, s, d.at["value"])]
<1>10. \A d \in RawElem : Unquoted(a, s, d.at["value"]) = d.at["value"] => Respelled(d) = d
  <2> SUFFICES ASSUME NEW d \in RawElem, Unquoted(a, s, d.at["value"]) = d.at["value"] PROVE Respelled(d) = d
    OBVIOUS
  <2> HIDE DEF s
  <2> QED BY ElemKept
<1>11. UnquoteValue(a, s, v) = v
  <2>1. CASE v = Nil
    BY <2>1 DEF UnquoteValue
  <2>2. CASE v # Nil
    <3>1. UnquoteValue(a, s, v) = [v EXCEPT !.elems = [i \in DOMAIN v.elems |-> Respelled(v.elems[i])]]
      BY <2>2 DEF UnquoteValue
    <3>2. Respelled(v.elems[1]) = v.elems[1]
      BY <1>7, <1>9, <1>10
    <3> DEFINE es == [i \in DOMAIN v.elems |-> Respelled(v.elems[i])]
    <3> HIDE DEF Respelled
    <3>3. es = v.elems
      <4>1. \A i \in DOMAIN v.elems : Respelled(v.elems[i]) = v.elems[i]
        BY <1>5, <3>2
      <4>2. v.elems = [i \in DOMAIN v.elems |-> v.elems[i]]
        BY <1>1
      <4> QED BY <4>1, <4>2
    <3>4. UnquoteValue(a, s, v) = [v EXCEPT !.elems = es]
      BY <3>1
    <3> HIDE DEF es
    <3> QED BY <1>1, <3>3, <3>4
  <2> QED BY <2>1, <2>2
<1> QED BY <1>6, <1>11

(* What CoerceElems stores, each element takes.                            *)
LEMMA StoredTakes ==
  ASSUME NEW a \in Attrs, NEW d, SetElements(a, d).ok, NEW i \in DOMAIN d
  PROVE  Accepted(a, d[i])
<1>1. CoerceElems(a, d) # Bad
  <2>1. SetElements(a, d) = IF CoerceElems(a, d) = Bad THEN Fail("invalidValue") ELSE Done(CoerceElems(a, d))
    BY DEF SetElements, Stored
  <2>2. Fail("invalidValue").ok = FALSE
    BY Outcomes
  <2> QED BY <2>1, <2>2
<1>2. \A s \in Subs : CoerceMembers(a, d[i])[s] # Bad
  BY <1>1 DEF CoerceElems
<1>3. SubsOf(a) \subseteq Subs
  BY SchemaFacts
<1> QED BY <1>2, <1>3 DEF Accepted, CoerceMembers

(* The elements a write chooses keep what it wrote.                        *)
LEMMA ChosenKept ==
  ASSUME NEW list, NEW hit, NEW i \in hit, i \in DOMAIN list
  PROVE  DOMAIN DemoteOthers(list, hit) = DOMAIN list /\ DemoteOthers(list, hit)[i] = list[i]
BY DEF DemoteOthers

LEMMA SubTaken ==
  ASSUME NEW a \in Attrs, NEW old \in Good(a), NEW hit, hit \subseteq DOMAIN old, hit # {},
         NEW s \in SubsOf(a), s # Nil, NEW v, WriteToElements(a, old, hit, s, v).ok
  PROVE  CoerceScalar(a, s, ScalarOf(v)) # Bad
<1> DEFINE at == [NoSubs EXCEPT ![s] = ScalarOf(v)]
           new == [i \in DOMAIN old |->
                     IF i \notin hit THEN old[i]
                     ELSE IF s = Nil THEN MergedElem(a, old[i], at) ELSE [old[i] EXCEPT ![s] = at[s]]]
           refused == AnyRefusal({SubRefusal(a, t, old[i][t], at[t]) : i \in hit, t \in {u \in SubsOf(a) : at[u] # Nil}})
           d == DemoteOthers(new, hit)
<1>1. SetElements(a, d).ok
  <2>1. WriteToElements(a, old, hit, s, v) =
          IF at = Bad THEN Fail("invalidValue")
          ELSE IF refused # Nil THEN Fail(refused) ELSE SetElements(a, d)
    BY DEF WriteToElements
  <2>2. \A y : Fail(y).ok = FALSE
    BY Outcomes
  <2> HIDE DEF at, refused, d
  <2> QED BY <2>1, <2>2
<1>2. PICK i \in hit : TRUE
  OBVIOUS
<1>3. s \in Subs /\ i \in DOMAIN old /\ old[i] \in Elem
  BY SchemaFacts, OldElements DEF Fits
<1>4. new[i][s] = ScalarOf(v) /\ i \in DOMAIN new
  <2>1. at[s] = ScalarOf(v)
    BY <1>3 DEF NoSubs
  <2>2. new[i] = [old[i] EXCEPT ![s] = at[s]]
    BY <1>3
  <2> HIDE DEF at, new
  <2>3. new[i][s] = at[s]
    BY <1>3, <2>2 DEF Elem
  <2>4. DOMAIN new = DOMAIN old
    BY DEF new
  <2> QED BY <1>3, <2>1, <2>3, <2>4
<1> HIDE DEF new
<1>5. d[i] = new[i] /\ i \in DOMAIN d
  BY <1>4, ChosenKept
<1>6. Accepted(a, d[i])
  BY <1>1, <1>5, StoredTakes
<1> QED BY <1>4, <1>5, <1>6 DEF Accepted

LEMMA ReplaceTaken ==
  ASSUME NEW a \in Attrs, NEW old \in Good(a), NEW hit, hit \subseteq DOMAIN old, hit # {},
         NEW v \in RawValue, ReplaceElements(a, old, hit, v).ok
  PROVE  \A i \in DOMAIN v.elems : Accepted(a, v.elems[i].at)
<1> DEFINE at == ElementIn(v)
           new == [i \in DOMAIN old |-> IF i \in hit THEN at ELSE old[i]]
           refused == AnyRefusal({SubRefusal(a, t, old[i][t], at[t]) : i \in hit, t \in SubsOf(a)})
           d == DemoteOthers(new, hit)
<1>1. at # Bad /\ SetElements(a, d).ok
  <2>1. ReplaceElements(a, old, hit, v) =
          IF at = Bad THEN Fail("invalidValue")
          ELSE IF refused # Nil THEN Fail(refused) ELSE SetElements(a, d)
    BY DEF ReplaceElements
  <2>2. \A y : Fail(y).ok = FALSE
    BY Outcomes
  <2> HIDE DEF at, refused, d
  <2> QED BY <2>1, <2>2
<1>2. PICK i \in hit : TRUE
  OBVIOUS
<1>3. i \in DOMAIN new /\ new[i] = at
  OBVIOUS
<1>4. ~v.list /\ at = v.elems[1].at
  BY <1>1 DEF ElementIn
<1>5. DOMAIN v.elems = {1}
  BY <1>4, RawValueIs
<1> HIDE DEF new, at
<1>6. d[i] = at /\ i \in DOMAIN d
  BY <1>3, ChosenKept
<1>7. Accepted(a, d[i])
  BY <1>1, <1>6, StoredTakes
<1> QED BY <1>4, <1>5, <1>6, <1>7

(* What a typed value sends for a whole element: what was sent, except for *)
(* strings that spell a value of the member's type.                        *)
LEMMA TypedElement ==
  ASSUME NEW a \in Attrs, NEW v \in RawValue, v # Nil, NEW w, w = UnquoteValue(a, Nil, v)
  PROVE  /\ ElementIn(w) = Bad <=> ElementIn(v) = Bad
         /\ ElementIn(v) # Bad => \A t \in Subs :
              ElementIn(w)[t] = IF t \in SubsOf(a) THEN Unquoted(a, t, ElementIn(v)[t]) ELSE ElementIn(v)[t]
<1> DEFINE es == [i \in DOMAIN v.elems |-> UnquoteElem(a, v.elems[i])]
<1>1. v = [list |-> v.list, elems |-> v.elems] /\ v.list \in BOOLEAN /\ v.elems \in Seq(RawElem)
      /\ (v.list \/ Len(v.elems) = 1)
  BY RawValueIs
<1>2. w = [list |-> v.list, elems |-> es]
  BY <1>1 DEF UnquoteValue
<1>3. CASE v.list
  BY <1>2, <1>3 DEF ElementIn
<1>4. CASE ~v.list
  <2> DEFINE e == v.elems[1]
  <2>1. e \in RawElem /\ 1 \in DOMAIN v.elems
    BY <1>1, <1>4
  <2>2. es[1] = UnquoteElem(a, e)
    BY <2>1
  <2> HIDE DEF es
  <2>3. e = [form |-> e.form, at |-> e.at] /\ e.at \in [Subs -> Scalars \cup {Nil, Null}]
    BY <2>1, RawElemIs
  <2> HIDE DEF e
  <2> DEFINE at == [t \in Subs |-> IF t \in SubsOf(a) THEN Unquoted(a, t, e.at[t]) ELSE e.at[t]]
  <2>4. es[1] = [form |-> e.form, at |-> at]
    BY <2>2, <2>3 DEF UnquoteElem
  <2>5. UnquoteElem(a, e) \in RawElem
    BY <2>1, UnquotedElem DEF e
  <2>6. at \in [Subs -> Scalars \cup {Nil, Null}]
    <3>1. es[1].at \in [Subs -> Scalars \cup {Nil, Null}]
      BY <2>2, <2>5, RawElemIs
    <3> HIDE DEF at
    <3> QED BY <2>4, <3>1
  <2>7. Bad \notin {at, e.at}
    <3>1. [Subs -> Scalars \cup {Nil, Null}] \subseteq [Subs -> Scalars \cup {Nil, Null, Bad}]
      OBVIOUS
    <3> HIDE DEF at
    <3> QED BY <3>1, <2>3, <2>6, ApplyAssumption
  <2>8. ElementIn(v) = IF e.form = "object" THEN e.at ELSE Bad
    BY <1>4 DEF ElementIn, e
  <2>9. ElementIn(w) = IF e.form = "object" THEN at ELSE Bad
    <3> HIDE DEF at
    <3> QED BY <1>2, <1>4, <2>4 DEF ElementIn
  <2>10. \A t \in Subs : at[t] = IF t \in SubsOf(a) THEN Unquoted(a, t, e.at[t]) ELSE e.at[t]
    OBVIOUS
  <2> HIDE DEF at
  <2> QED BY <2>7, <2>8, <2>9, <2>10
<1> QED BY <1>1, <1>3, <1>4

(* A write to the members of the elements found is the same of the typed   *)
(* value: what it rewrites is readOnly, and skipped.                       *)
LEMMA MergeTyped ==
  ASSUME NEW a \in Attrs, NEW old \in Good(a), NEW hit, hit \subseteq DOMAIN old, hit # {},
         NEW v \in RawValue, WriteToElements(a, old, hit, Nil, v).ok,
         NEW w, w = UnquoteValue(a, Nil, v)
  PROVE  WriteToElements(a, old, hit, Nil, w) = WriteToElements(a, old, hit, Nil, v)
<1> DEFINE New(at) == [i \in DOMAIN old |-> IF i \notin hit THEN old[i] ELSE MergedElem(a, old[i], at)]
           Refused(at) == {SubRefusal(a, t, old[i][t], at[t]) : i \in hit, t \in {u \in SubsOf(a) : at[u] # Nil}}
           x == ElementIn(v)
           y == ElementIn(w)
<1>1. \A u : WriteToElements(a, old, hit, Nil, u) =
        IF ElementIn(u) = Bad THEN Fail("invalidValue")
        ELSE IF AnyRefusal(Refused(ElementIn(u))) # Nil THEN Fail(AnyRefusal(Refused(ElementIn(u))))
        ELSE SetElements(a, DemoteOthers(New(ElementIn(u)), hit))
  BY DEF WriteToElements
<1>2. CASE v = Nil
  BY <1>2 DEF UnquoteValue
<1>3. CASE v # Nil
  <2>1. x # Bad /\ SetElements(a, DemoteOthers(New(x), hit)).ok
    <3>1. \A e : Fail(e).ok = FALSE
      BY Outcomes
    <3> HIDE DEF New, Refused
    <3> QED BY <1>1, <3>1
  <2>2. SubsOf(a) \subseteq Subs /\ Nil \notin Scalars
    BY SchemaFacts, DataAssumption
  <2>3. y # Bad /\ \A t \in Subs : y[t] = IF t \in SubsOf(a) THEN Unquoted(a, t, x[t]) ELSE x[t]
    BY <1>3, <2>1, TypedElement
  <2>4. ASSUME NEW t \in SubsOf(a), Writable(a, t) PROVE y[t] = x[t]
    <3>1. CASE x[t] = Nil
      BY <2>2, <2>3, <3>1 DEF Unquoted
    <3>2. CASE x[t] # Nil
      <4>1. PICK i \in hit : TRUE
        OBVIOUS
      <4>2. i \in DOMAIN New(x) /\ New(x)[i] = MergedElem(a, old[i], x)
        OBVIOUS
      <4>3. MergedElem(a, old[i], x)[t] = x[t]
        BY <2>2, <2>4, <3>2 DEF MergedElem
      <4> HIDE DEF New, x
      <4>4. DemoteOthers(New(x), hit)[i] = New(x)[i] /\ i \in DOMAIN DemoteOthers(New(x), hit)
        BY <4>2, ChosenKept
      <4>5. Accepted(a, DemoteOthers(New(x), hit)[i])
        BY <2>1, <4>4, StoredTakes
      <4>6. CoerceScalar(a, t, x[t]) # Bad
        BY <4>2, <4>3, <4>4, <4>5 DEF Accepted
      <4>7. Unquoted(a, t, x[t]) = x[t]
        BY <4>6, ScalarStays
      <4> QED BY <2>2, <2>3, <4>7
    <3> QED BY <3>1, <3>2
  <2>5. \A t \in Subs : y[t] = Nil <=> x[t] = Nil
    <3>1. \A t \in SubsOf(a) : Unquoted(a, t, x[t]) = Nil <=> x[t] = Nil
      <4> SUFFICES ASSUME NEW t \in SubsOf(a) PROVE Unquoted(a, t, x[t]) = Nil <=> x[t] = Nil
        OBVIOUS
      <4> QED BY <2>2, UnquotedIs
    <3> QED BY <2>2, <2>3, <3>1
  <2> HIDE DEF x, y
  <2>6. \A i \in DOMAIN old : MergedElem(a, old[i], y) = MergedElem(a, old[i], x)
    <3>1. \A i \in DOMAIN old, s \in Subs :
            (IF y[s] = Nil \/ s \notin SubsOf(a) \/ ~Writable(a, s) THEN old[i][s] ELSE y[s])
              = (IF x[s] = Nil \/ s \notin SubsOf(a) \/ ~Writable(a, s) THEN old[i][s] ELSE x[s])
      BY <2>4, <2>5
    <3> QED BY <3>1 DEF MergedElem
  <2>7. New(y) = New(x)
    BY <2>6
  <2>8. \A i \in hit, t \in SubsOf(a) : SubRefusal(a, t, old[i][t], y[t]) = SubRefusal(a, t, old[i][t], x[t])
    <3> SUFFICES ASSUME NEW i \in hit, NEW t \in SubsOf(a)
                 PROVE  SubRefusal(a, t, old[i][t], y[t]) = SubRefusal(a, t, old[i][t], x[t])
      OBVIOUS
    <3>1. CASE Immutable(a, t)
      <4>1. Writable(a, t)
        BY <3>1 DEF Immutable, Writable
      <4> QED BY <2>4, <4>1
    <3>2. CASE ~Immutable(a, t)
      BY <3>2 DEF SubRefusal
    <3> QED BY <3>1, <3>2
  <2>9. {u \in SubsOf(a) : y[u] # Nil} = {u \in SubsOf(a) : x[u] # Nil}
    BY <2>2, <2>5
  <2>10. Refused(y) = Refused(x)
    BY <2>8, <2>9
  <2> HIDE DEF New, Refused
  <2> QED BY <1>1, <2>1, <2>3, <2>7, <2>10 DEF x, y
<1> QED BY <1>2, <1>3

(* The value an operation has once it is typed.                            *)
TypedValue(path, v) == UnquoteValue(path.attr, path.sub, Unwrap(path, v))

(* What the strict profile writes through a filter, every profile writes,  *)
(* of the typed value too: no element is made up, for one was found.       *)
LEMMA FilteredTyped ==
  ASSUME NEW op, NEW a \in Attrs, a = op.path.attr, op.kind \in {"add", "replace"}, op.value \in RawValue,
         op.path.sub # Nil => op.path.sub \in SubsOf(a),
         NEW old \in Good(a), ApplyFiltered(a, op, old, Strict).ok,
         NEW typed, typed.path = op.path, typed.kind = op.kind,
         typed.value \in {op.value, TypedValue(op.path, op.value)}, NEW prof
  PROVE  ApplyFiltered(a, typed, old, prof) = ApplyFiltered(a, op, old, Strict)
<1> DEFINE hit == Matches(op.path.filter, old)
           s == op.path.sub
           v == op.value
           w == TypedValue(op.path, v)
           Wrote(u) == IF op.kind = "replace" /\ s = Nil THEN ReplaceElements(a, old, hit, u)
                       ELSE WriteToElements(a, old, hit, s, u)
<1>1. \A y : Fail(y).ok = FALSE
  BY Outcomes
<1>2. Multi(a) /\ Schema[a].complex /\ hit # {} /\ Wrote(v).ok
  <2>1. ApplyFiltered(a, op, old, Strict) =
          IF ~Multi(a) \/ ~Schema[a].complex THEN Fail("invalidPath")
          ELSE IF hit = {}
          THEN IF IF op.kind = "add" THEN Strict.SynthesizeAddValuePath ELSE Strict.ReplaceNoTargetAsAdd
               THEN Synthesize(a, old, op.path.filter, s, v) ELSE Fail("noTarget")
          ELSE Wrote(v)
    BY DEF ApplyFiltered
  <2>2. Strict.SynthesizeAddValuePath = FALSE /\ Strict.ReplaceNoTargetAsAdd = FALSE
    BY DEF Strict, Knobs
  <2> HIDE DEF hit, Wrote
  <2> QED BY <1>1, <2>1, <2>2
<1>3. \A q, o : q.path = op.path /\ q.kind = op.kind => ApplyFiltered(a, q, old, o) = Wrote(q.value)
  BY <1>2 DEF ApplyFiltered
<1>4. hit \subseteq DOMAIN old
  BY DEF Matches
<1>5. Wrote(w) = Wrote(v)
  <2>1. CASE s # Nil
    <3>1. CoerceScalar(a, s, ScalarOf(v)) # Bad
      <4> HIDE DEF hit
      <4> QED BY <1>2, <1>4, <2>1, SubTaken
    <3>2. w = v
      BY <2>1, <3>1, SubStays DEF TypedValue
    <3> QED BY <3>2
  <2>2. CASE s = Nil
    <3>1. w = UnquoteValue(a, Nil, v)
      BY <1>2, <2>2 DEF TypedValue, Unwrap
    <3>2. CASE op.kind = "replace"
      <4>1. ReplaceElements(a, old, hit, v).ok
        BY <1>2, <2>2, <3>2
      <4>2. \A i \in DOMAIN v.elems : Accepted(a, v.elems[i].at)
        <5> HIDE DEF hit
        <5> QED BY <1>2, <1>4, <4>1, ReplaceTaken
      <4>3. w = v
        BY <3>1, <4>2, ValueStays
      <4> QED BY <4>3
    <3>3. CASE op.kind = "add"
      <4>1. Wrote(v) = WriteToElements(a, old, hit, Nil, v) /\ Wrote(w) = WriteToElements(a, old, hit, Nil, w)
        BY <2>2, <3>3
      <4> HIDE DEF hit, w, Wrote
      <4> QED BY <1>2, <1>4, <3>1, <4>1, MergeTyped
    <3> QED BY <3>2, <3>3
  <2> QED BY <2>1, <2>2
<1>6. ApplyFiltered(a, typed, old, prof) = Wrote(typed.value) /\ ApplyFiltered(a, op, old, Strict) = Wrote(v)
  <2> HIDE DEF Wrote
  <2> QED BY <1>3
<1> HIDE DEF Wrote
<1> QED BY <1>5, <1>6

(* A written operation, as it is or typed, under any profile.              *)
LEMMA PathedTyped ==
  ASSUME NEW op \in DecodedOps, op.path # Nil, op.kind # "remove", NEW res \in Resources,
         NEW next, ApplyPathed(op, res, Strict) = Done(next),
         NEW typed, typed.path = op.path, typed.kind = op.kind,
         typed.value \in {op.value, TypedValue(op.path, op.value)}, NEW prof
  PROVE  ApplyPathed(typed, res, prof) = Done(next)
<1> DEFINE a == op.path.attr
           s == op.path.sub
           f == op.path.filter
           v == op.value
           w == typed.value
           new == Pathed(op, res, Strict)
<1>1. TargetRefusal(op, res) = Nil /\ new.ok /\ Done(next) = Done([res EXCEPT ![a] = new.val])
  <2>1. ApplyPathed(op, res, Strict) =
          IF TargetRefusal(op, res) # Nil THEN Fail(TargetRefusal(op, res))
          ELSE IF ~new.ok THEN new ELSE Done([res EXCEPT ![a] = new.val])
    BY DEF ApplyPathed, Pathed
  <2>2. Done(next).ok = TRUE /\ \A y : Fail(y).ok = FALSE
    BY Outcomes
  <2> HIDE DEF new, a
  <2> QED BY <2>1, <2>2
<1>2. /\ a \in Attrs /\ (s # Nil => s \in SubsOf(a)) /\ (s # Nil /\ f = Nil => ~Multi(a))
      /\ MutableRefusal(a, op, res[a]) = Nil
  BY <1>1, Targeted
<1>3. op.kind \in {"add", "replace"} /\ v \in RawValue
  BY DecodedOpIs DEF Kinds
<1>4. res[a] \in Good(a)
  BY <1>2, ResourceWith
<1>5. f = Nil => w = v
  <2>1. CASE f = Nil /\ s # Nil
    <3>1. new = SetSub(a, res[a], s, ScalarOf(v))
      BY <1>3, <2>1 DEF Pathed
    <3>2. CoerceScalar(a, s, ScalarOf(v)) # Bad
      <4> HIDE DEF new, a, s, v
      <4> QED BY <1>1, <3>1, Outcomes DEF SetSub
    <3>3. TypedValue(op.path, v) = v
      BY <1>2, <1>3, <2>1, <3>2, SubStays DEF TypedValue
    <3> QED BY <3>3
  <2>2. CASE f = Nil /\ s = Nil
    <3>1. new = IF op.kind = "add" THEN AddToAttribute(a, res[a], v) ELSE ReplaceAttribute(a, res[a], v)
      BY <1>3, <2>2 DEF Pathed
    <3>2. Coerce(a, AsWhole(a, v)) # Bad
      <4> HIDE DEF new, a, v
      <4> QED BY <1>1, <3>1, Outcomes DEF AddToAttribute, ReplaceAttribute, Stored, AsWhole
    <3>3. TypedValue(op.path, v) = v
      BY <1>2, <1>3, <2>2, <3>2, WholeStays DEF TypedValue
    <3> QED BY <3>3
  <2> QED BY <2>1, <2>2
<1>6. MutableRefusal(a, typed, res[a]) = Nil
  <2>1. CASE f = Nil
    BY <1>2, <1>5, <2>1 DEF MutableRefusal
  <2>2. CASE f # Nil
    <3> HIDE DEF a, v, w
    <3> QED BY <1>2, <1>3, <2>2 DEF MutableRefusal
  <2> QED BY <2>1, <2>2
<1>7. TargetRefusal(typed, res) = Nil
  BY <1>1, <1>6 DEF TargetRefusal
<1>8. Pathed(typed, res, prof) = new
  <2>1. CASE f # Nil
    <3>1. new = ApplyFiltered(a, op, res[a], Strict) /\ Pathed(typed, res, prof) = ApplyFiltered(a, typed, res[a], prof)
      BY <2>1 DEF Pathed
    <3>2. ApplyFiltered(a, op, res[a], Strict).ok
      BY <1>1, <3>1
    <3>3. ApplyFiltered(a, typed, res[a], prof) = ApplyFiltered(a, op, res[a], Strict)
      <4> DEFINE old == res[a]
      <4>1. old \in Good(a) /\ ApplyFiltered(a, op, old, Strict).ok
        BY <1>4, <3>2
      <4>2. a = op.path.attr
        OBVIOUS
      <4> HIDE DEF new, a, old
      <4>3. ApplyFiltered(a, typed, old, prof) = ApplyFiltered(a, op, old, Strict)
        BY <1>2, <1>3, <4>1, <4>2, FilteredTyped
      <4> QED BY <4>3 DEF old
    <3> HIDE DEF new, a
    <3> QED BY <3>1, <3>3
  <2>2. CASE f = Nil
    <3> DEFINE Unfiltered(u) ==
                 IF s # Nil THEN SetSub(a, res[a], s, ScalarOf(u))
                 ELSE IF op.kind = "add" THEN AddToAttribute(a, res[a], u) ELSE ReplaceAttribute(a, res[a], u)
    <3>1. \A q, o : q.path = op.path /\ q.kind = op.kind => Pathed(q, res, o) = Unfiltered(q.value)
      BY <1>3, <2>2 DEF Pathed
    <3> HIDE DEF Unfiltered
    <3> QED BY <1>5, <2>2, <3>1
  <2> QED BY <2>1, <2>2
<1>9. ApplyPathed(typed, res, prof) =
        IF TargetRefusal(typed, res) # Nil THEN Fail(TargetRefusal(typed, res))
        ELSE IF ~Pathed(typed, res, prof).ok THEN Pathed(typed, res, prof)
        ELSE Done([res EXCEPT ![a] = Pathed(typed, res, prof).val])
  BY DEF ApplyPathed, Pathed
<1> HIDE DEF new, a
<1> QED BY <1>1, <1>7, <1>8, <1>9

(* The outcome of a pathless operation after each of the keys.             *)
IsKeyRun(h, n, op, res) ==
  /\ h[0] = Done(res) /\ h[n] = KeyByKey(op, res) /\ \A k \in 0..n : h[k] \in Results
  /\ \A k \in 0..n : k < n => h[k + 1] = IF h[k].ok THEN ApplyKey(op, h[k].val, AttrOrder[k + 1]) ELSE h[k]

LEMMA KeysInTurn ==
  ASSUME NEW op, op.object \in [Attrs -> RawValue \cup {Nil}], NEW res \in Resources,
         NEW n \in Nat, n = Len(AttrOrder)
  PROVE  \E h : IsKeyRun(h, n, op, res)
<1>1. PICK h : IsRun(h, n, Results, Done(res), KeySteps(n, op)) /\ h[n] = KeyByKey(op, res)
  BY KeyRuns
<1>2. /\ h \in [0..n -> Results] /\ h[0] = Done(res)
      /\ \A k \in 1..n : h[k] = KeySteps(n, op)[k][h[k - 1]]
  BY <1>1 DEF IsRun
<1>3. ASSUME NEW k \in 0..n, k < n
      PROVE  h[k + 1] = IF h[k].ok THEN ApplyKey(op, h[k].val, AttrOrder[k + 1]) ELSE h[k]
  <2>1. k + 1 \in 1..n /\ (k + 1) - 1 = k
    BY <1>3
  <2>2. h[k + 1] = KeySteps(n, op)[k + 1][h[k]]
    BY <1>2, <2>1
  <2>3. h[k] \in Results
    BY <1>2
  <2> QED BY <2>1, <2>2, <2>3 DEF KeySteps
<1>4. IsKeyRun(h, n, op, res)
  BY <1>1, <1>2, <1>3 DEF IsKeyRun
<1> QED BY <1>4

(* The object of a pathless operation, typed: what it writes, it writes as *)
(* it is.                                                                  *)
TypedObject(object) == [a \in Attrs |-> UnquoteValue(a, Nil, object[a])]

LEMMA KeyTyped ==
  ASSUME NEW op, op.object \in [Attrs -> RawValue \cup {Nil}],
         NEW typed, typed.kind = op.kind, typed.object = TypedObject(op.object),
         NEW res, NEW a \in Attrs, ApplyKey(op, res, a).ok
  PROVE  ApplyKey(typed, res, a) = ApplyKey(op, res, a)
<1> DEFINE v == op.object[a]
           w == typed.object[a]
           New(u) == IF op.kind = "replace" THEN ReplaceAttribute(a, res[a], u) ELSE AddToAttribute(a, res[a], u)
           Wrote(u) == IF u = Nil \/ Schema[a].mutability = "readOnly" THEN Done(res)
                       ELSE IF ImmutableRefusal(a, op.kind, res[a], u) # Nil
                       THEN Fail(ImmutableRefusal(a, op.kind, res[a], u))
                       ELSE IF ~New(u).ok THEN New(u) ELSE Done([res EXCEPT ![a] = New(u).val])
<1>1. ApplyKey(op, res, a) = Wrote(v) /\ ApplyKey(typed, res, a) = Wrote(w)
  BY DEF ApplyKey
<1>2. w = UnquoteValue(a, Nil, v)
  BY DEF TypedObject
<1>3. CASE v = Nil
  <2>1. w = v
    BY <1>2, <1>3 DEF UnquoteValue
  <2> QED BY <1>1, <2>1
<1>4. CASE v # Nil /\ Schema[a].mutability = "readOnly"
  BY <1>1, <1>4
<1>5. CASE v # Nil /\ Schema[a].mutability # "readOnly"
  <2>1. v \in RawValue
    BY <1>5
  <2>2. New(v).ok
    <3>1. \A y : Fail(y).ok = FALSE
      BY Outcomes
    <3> HIDE DEF New
    <3> QED BY <1>1, <1>5, <3>1
  <2>3. Coerce(a, AsWhole(a, v)) # Bad
    <3>1. \A y : Fail(y).ok = FALSE
      BY Outcomes
    <3> HIDE DEF v
    <3> QED BY <2>2, <3>1 DEF AddToAttribute, ReplaceAttribute, Stored, AsWhole
  <2>4. w = v
    BY <1>2, <2>1, <2>3, WholeTaken, ValueStays
  <2> QED BY <1>1, <2>4
<1> QED BY <1>3, <1>4, <1>5

LEMMA KeysTyped ==
  ASSUME NEW op, op.object \in [Attrs -> RawValue \cup {Nil}],
         NEW typed, typed.kind = op.kind, typed.object = TypedObject(op.object),
         typed.object \in [Attrs -> RawValue \cup {Nil}],
         NEW res \in Resources, NEW next, KeyByKey(op, res) = Done(next)
  PROVE  KeyByKey(typed, res) = Done(next)
<1> DEFINE n == Len(AttrOrder)
<1>1. n \in Nat /\ \A i \in 1..n : AttrOrder[i] \in Attrs
  BY ApplyAssumption
<1>2. PICK f : IsKeyRun(f, n, op, res)
  <2> HIDE DEF n
  <2> QED BY <1>1, KeysInTurn DEF n
<1>3. PICK g : IsKeyRun(g, n, typed, res)
  <2> HIDE DEF n
  <2> QED BY <1>1, KeysInTurn DEF n
<1> HIDE DEF n
<1> DEFINE H == {k \in 0..n : f[k].ok => g[k] = f[k]}
<1>4. 0 \in H
  BY <1>1, <1>2, <1>3 DEF IsKeyRun
<1>5. ASSUME NEW k \in 0..n, k \in H, k < n PROVE k + 1 \in H
  <2>1. k + 1 \in 1..n /\ k + 1 \in 0..n
    BY <1>1, <1>5
  <2>2. /\ f[k + 1] = IF f[k].ok THEN ApplyKey(op, f[k].val, AttrOrder[k + 1]) ELSE f[k]
        /\ g[k + 1] = IF g[k].ok THEN ApplyKey(typed, g[k].val, AttrOrder[k + 1]) ELSE g[k]
    BY <1>2, <1>3, <1>5 DEF IsKeyRun
  <2> SUFFICES ASSUME f[k + 1].ok PROVE g[k + 1] = f[k + 1]
    BY <2>1
  <2>3. f[k].ok /\ g[k] = f[k]
    BY <1>5, <2>2
  <2>4. ApplyKey(op, f[k].val, AttrOrder[k + 1]).ok /\ AttrOrder[k + 1] \in Attrs
    BY <1>1, <2>1, <2>2, <2>3
  <2>5. ApplyKey(typed, f[k].val, AttrOrder[k + 1]) = ApplyKey(op, f[k].val, AttrOrder[k + 1])
    BY <2>4, KeyTyped
  <2> QED BY <2>2, <2>3, <2>5
<1>6. 0..n \subseteq H
  <2> HIDE DEF H
  <2> QED BY <1>1, <1>4, <1>5, UpTo
<1>7. n \in 0..n /\ f[n] = Done(next) /\ g[n] = KeyByKey(typed, res)
  BY <1>1, <1>2, <1>3 DEF IsKeyRun
<1> QED BY <1>6, <1>7, Outcomes

(* An object without keys writes nothing.                                  *)
LEMMA NoKeys ==
  ASSUME NEW op, op.object = [a \in Attrs |-> Nil], NEW res \in Resources
  PROVE  KeyByKey(op, res) = Done(res)
<1> DEFINE n == Len(AttrOrder)
<1>1. n \in Nat /\ \A i \in 1..n : AttrOrder[i] \in Attrs
  BY ApplyAssumption
<1>2. op.object \in [Attrs -> RawValue \cup {Nil}]
  OBVIOUS
<1>3. PICK f : IsKeyRun(f, n, op, res)
  <2> HIDE DEF n
  <2> QED BY <1>1, <1>2, KeysInTurn DEF n
<1> HIDE DEF n
<1> DEFINE H == {k \in 0..n : f[k] = Done(res)}
<1>4. 0 \in H
  BY <1>1, <1>3 DEF IsKeyRun
<1>5. ASSUME NEW k \in 0..n, k \in H, k < n PROVE k + 1 \in H
  <2>1. k + 1 \in 1..n /\ k + 1 \in 0..n
    BY <1>1, <1>5
  <2>2. f[k + 1] = IF f[k].ok THEN ApplyKey(op, f[k].val, AttrOrder[k + 1]) ELSE f[k]
    BY <1>3, <1>5 DEF IsKeyRun
  <2>3. f[k + 1] = ApplyKey(op, res, AttrOrder[k + 1])
    BY <1>5, <2>2, Outcomes
  <2>4. op.object[AttrOrder[k + 1]] = Nil
    BY <1>1, <2>1
  <2>5. ApplyKey(op, res, AttrOrder[k + 1]) = Done(res)
    BY <2>4 DEF ApplyKey
  <2> QED BY <2>1, <2>3, <2>5
<1>6. 0..n \subseteq H
  <2> HIDE DEF H
  <2> QED BY <1>1, <1>4, <1>5, UpTo
<1>7. n \in 0..n /\ f[n] = KeyByKey(op, res)
  BY <1>1, <1>3 DEF IsKeyRun
<1> QED BY <1>6, <1>7

(* What the strict profile makes of a resource, every profile makes of it, *)
(* of the operation as it is and typed.                                    *)
LEMMA PerformedTyped ==
  ASSUME NEW op \in DecodedOps, NEW typed \in {op, Typed(op)}, NEW res \in Resources,
         NEW next, Perform(op, res, Strict) = Done(next), NEW prof
  PROVE  Perform(typed, res, prof) = Done(next)
<1>1. CASE op.kind = "remove"
  <2>1. typed = op
    BY <1>1 DEF Typed
  <2>2. Perform(op, res, prof) = Perform(op, res, Strict)
    <3>1. CASE op.path = Nil
      BY <1>1, <3>1 DEF Perform
    <3>2. CASE op.path # Nil
      <4>1. ApplyFiltered(op.path.attr, op, res[op.path.attr], prof) = ApplyFiltered(op.path.attr, op, res[op.path.attr], Strict)
        BY <1>1 DEF ApplyFiltered
      <4>2. ApplyPathed(op, res, prof) = ApplyPathed(op, res, Strict)
        BY <4>1 DEF ApplyPathed
      <4> QED BY <3>2, <4>2 DEF Perform
    <3> QED BY <3>1, <3>2
  <2> QED BY <2>1, <2>2
<1>2. CASE op.kind # "remove" /\ op.path # Nil
  <2>1. ApplyPathed(op, res, Strict) = Done(next)
    BY <1>2 DEF Perform
  <2>2. /\ typed.path = op.path /\ typed.kind = op.kind
        /\ typed.value \in {op.value, TypedValue(op.path, op.value)}
    <3>1. op = [kind |-> op.kind, path |-> op.path, value |-> op.value, object |-> op.object]
      BY DecodedOpIs DEF Op
    <3>2. Typed(op) = op \/ Typed(op) = [op EXCEPT !.value = TypedValue(op.path, op.value)]
      BY <1>2 DEF Typed, TypedValue
    <3>3. CASE typed = op
      BY <3>3
    <3>4. CASE typed = [op EXCEPT !.value = TypedValue(op.path, op.value)]
      BY <3>1, <3>4
    <3> QED BY <3>2, <3>3, <3>4
  <2>3. ApplyPathed(typed, res, prof) = Done(next)
    BY <1>2, <2>1, <2>2, PathedTyped
  <2> QED BY <1>2, <2>2, <2>3 DEF Perform
<1>3. CASE op.kind # "remove" /\ op.path = Nil
  <2>1. op.object # Nil /\ KeyByKey(op, res) = Done(next)
    BY <1>3, Outcomes DEF Perform, KeyByKey
  <2>2. op.object \in [Attrs -> RawValue \cup {Nil}]
    BY <2>1, DecodedOpIs
  <2>3. CASE typed = op
    <3>1. Perform(op, res, prof) = KeyByKey(op, res)
      BY <1>3, <2>1 DEF Perform, KeyByKey
    <3> QED BY <2>1, <2>3, <3>1
  <2>4. CASE typed = Typed(op)
    <3>1. op = [kind |-> op.kind, path |-> op.path, value |-> op.value, object |-> op.object]
      BY DecodedOpIs DEF Op
    <3>2. typed = [op EXCEPT !.object = TypedObject(op.object)]
      BY <1>3, <2>1, <2>4 DEF Typed, TypedObject
    <3>3. typed.kind = op.kind /\ typed.path = op.path /\ typed.object = TypedObject(op.object)
      BY <3>1, <3>2
    <3>4. typed.object \in [Attrs -> RawValue \cup {Nil}]
      <4>1. \A a \in Attrs : op.object[a] # Nil => UnquoteValue(a, Nil, op.object[a]) \in RawValue
        BY <2>2, UnquotedValue
      <4>2. \A a \in Attrs : op.object[a] = Nil => UnquoteValue(a, Nil, op.object[a]) = Nil
        BY DEF UnquoteValue
      <4> QED BY <2>2, <3>3, <4>1, <4>2 DEF TypedObject
    <3>5. typed.object # Nil
      BY <3>4, DecodeAssumption
    <3>6. KeyByKey(typed, res) = Done(next)
      BY <2>1, <2>2, <3>3, <3>4, KeysTyped
    <3> QED BY <1>3, <3>3, <3>5, <3>6 DEF Perform, KeyByKey
  <2> QED BY <2>3, <2>4
<1> QED BY <1>1, <1>2, <1>3

(* Apply: the operations one after another, up to the first that fails.    *)
OpSteps(n, list, prof) ==
  [k \in 1..n |-> [r \in Results |-> IF r.ok THEN Perform(list[k], r.val, prof) ELSE r]]

LEMMA OpRuns ==
  ASSUME NEW list \in Seq(DecodedOps), NEW res \in Resources, NEW prof,
         NEW n \in Nat, n = Len(list)
  PROVE  \E f : IsRun(f, n, Results, Done(res), OpSteps(n, list, prof)) /\ f[n] = ApplyAll(list, res, prof)
<1> DEFINE g == OpSteps(n, list, prof)
           Solves(iter) == iter = [s \in SUBSET (DOMAIN list) |->
                             IF s = {} THEN Done(res)
                             ELSE IF iter[s \ {Max(s)}].ok
                                  THEN Perform(list[Max(s)], iter[s \ {Max(s)}].val, prof)
                                  ELSE iter[s \ {Max(s)}]]
           iter == CHOOSE iter : Solves(iter)
<1>1. ApplyAll(list, res, prof) = iter[DOMAIN list]
  BY DEF ApplyAll, FoldLeft, MapThenFoldSet
<1>2. DOMAIN list = 1..n /\ \A k \in 1..n : list[k] \in DecodedOps
  OBVIOUS
<1>3. ASSUME NEW k \in 1..n, NEW r \in Results
      PROVE  /\ g[k][r] = IF r.ok THEN Perform(list[k], r.val, prof) ELSE r
             /\ g[k][r] \in Results
  <2>1. g[k][r] = IF r.ok THEN Perform(list[k], r.val, prof) ELSE r
    BY DEF OpSteps
  <2> HIDE DEF g
  <2>2. r.ok => Perform(list[k], r.val, prof) \in Results
    BY <1>2, ResultsAre, DecodedIs, PerformResult
  <2> QED BY <2>1, <2>2
<1>4. g \in Steps(n, Results)
  <2>1. \A k \in 1..n : g[k] = [r \in Results |-> g[k][r]]
    BY DEF OpSteps
  <2>2. g = [k \in 1..n |-> g[k]]
    BY DEF OpSteps
  <2> HIDE DEF g
  <2>3. \A k \in 1..n : g[k] \in [Results -> Results]
    BY <2>1, <1>3
  <2> QED BY <2>2, <2>3 DEF Steps
<1>5. Done(res) \in Results
  BY DEF Results
<1>6. PICK h : IsFold(h, n, Results, Done(res), g)
  <2> HIDE DEF g
  <2> QED BY <1>4, <1>5, FoldExists
<1>7. /\ h \in [SUBSET (1..n) -> Results]
      /\ h[{}] = Done(res)
      /\ \A s \in SUBSET (1..n) : s # {} => h[s] = g[Max(s)][h[s \ {Max(s)}]]
  BY <1>6 DEF IsFold
<1>8. Solves(h)
  <2>1. ASSUME NEW s \in SUBSET (1..n), s # {}
        PROVE  h[s] = IF h[s \ {Max(s)}].ok
                      THEN Perform(list[Max(s)], h[s \ {Max(s)}].val, prof) ELSE h[s \ {Max(s)}]
    <3>1. Max(s) \in s
      BY <2>1, LargestOf
    <3>2. Max(s) \in 1..n /\ s \ {Max(s)} \in SUBSET (1..n)
      BY <3>1
    <3>3. h[s \ {Max(s)}] \in Results
      BY <1>7, <3>2
    <3>4. h[s] = g[Max(s)][h[s \ {Max(s)}]]
      BY <1>7, <2>1
    <3> HIDE DEF g
    <3> QED BY <3>2, <3>3, <3>4, <1>3
  <2>2. h = [s \in SUBSET (1..n) |-> h[s]]
    BY <1>7
  <2> HIDE DEF g
  <2> QED BY <1>2, <1>7, <2>1, <2>2
<1>9. Solves(iter)
  <2> HIDE DEF Solves
  <2> QED BY <1>8
<1>10. \A s \in SUBSET (1..n) :
         iter[s] = IF s = {} THEN Done(res)
                   ELSE IF iter[s \ {Max(s)}].ok
                        THEN Perform(list[Max(s)], iter[s \ {Max(s)}].val, prof)
                        ELSE iter[s \ {Max(s)}]
  <2> HIDE DEF iter
  <2> QED BY <1>2, <1>9
<1>11. iter[{}] = Done(res)
  <2> HIDE DEF iter
  <2> QED BY <1>10
<1>12. ASSUME NEW k \in 1..n, iter[1..(k - 1)] \in Results
       PROVE  iter[1..k] = g[k][iter[1..(k - 1)]]
  <2>1. /\ 1..k \in SUBSET (1..n) /\ 1..k # {}
        /\ Max(1..k) = k /\ (1..k) \ {Max(1..k)} = 1..(k - 1)
    BY LargestOfFirst
  <2>2. g[k][iter[1..(k - 1)]] =
          IF iter[1..(k - 1)].ok THEN Perform(list[k], iter[1..(k - 1)].val, prof) ELSE iter[1..(k - 1)]
    <3> HIDE DEF iter, g
    <3> QED BY <1>3, <1>12
  <2> HIDE DEF iter, g
  <2> QED BY <2>1, <2>2, <1>10
<1>13. PICK f : IsRun(f, n, Results, Done(res), g) /\ f[n] = iter[1..n]
  <2> HIDE DEF iter, g
  <2> QED BY <1>4, <1>5, <1>11, <1>12, FoldRuns
<1> HIDE DEF iter
<1> QED BY <1>1, <1>2, <1>13

(* The outcome of a message after each of its operations.                  *)
IsOpRun(f, n, list, res, prof) ==
  /\ f[0] = Done(res) /\ f[n] = ApplyAll(list, res, prof) /\ \A k \in 0..n : f[k] \in Results
  /\ \A k \in 0..n : k < n => f[k + 1] = IF f[k].ok THEN Perform(list[k + 1], f[k].val, prof) ELSE f[k]

LEMMA OpsInTurn ==
  ASSUME NEW list \in Seq(DecodedOps), NEW res \in Resources, NEW prof,
         NEW n \in Nat, n = Len(list)
  PROVE  \E f : IsOpRun(f, n, list, res, prof)
<1>1. PICK f : IsRun(f, n, Results, Done(res), OpSteps(n, list, prof)) /\ f[n] = ApplyAll(list, res, prof)
  BY OpRuns
<1>2. /\ f \in [0..n -> Results] /\ f[0] = Done(res)
      /\ \A k \in 1..n : f[k] = OpSteps(n, list, prof)[k][f[k - 1]]
  BY <1>1 DEF IsRun
<1>3. ASSUME NEW k \in 0..n, k < n
      PROVE  f[k + 1] = IF f[k].ok THEN Perform(list[k + 1], f[k].val, prof) ELSE f[k]
  <2>1. k + 1 \in 1..n /\ (k + 1) - 1 = k
    BY <1>3
  <2>2. f[k + 1] = OpSteps(n, list, prof)[k + 1][f[k]]
    BY <1>2, <2>1
  <2>3. f[k] \in Results
    BY <1>2
  <2> QED BY <2>1, <2>2, <2>3 DEF OpSteps
<1>4. IsOpRun(f, n, list, res, prof)
  BY <1>1, <1>2, <1>3 DEF IsOpRun
<1> QED BY <1>4

(* Nothing follows a failure.                                              *)
LEMMA FailedStays ==
  ASSUME NEW n \in Nat, NEW f, NEW list, NEW res, NEW prof, IsOpRun(f, n, list, res, prof),
         NEW j \in 0..n, ~f[j].ok
  PROVE  f[n] = f[j]
<1> DEFINE H == {k \in 0..n : j <= k => f[k] = f[j]}
<1>1. 0 \in H
  OBVIOUS
<1>2. ASSUME NEW k \in 0..n, k \in H, k < n PROVE k + 1 \in H
  <2>1. k + 1 \in 0..n /\ (j <= k + 1 => j <= k \/ j = k + 1)
    BY <1>2
  <2>2. f[k + 1] = IF f[k].ok THEN Perform(list[k + 1], f[k].val, prof) ELSE f[k]
    BY <1>2 DEF IsOpRun
  <2>3. CASE j <= k
    BY <1>2, <2>1, <2>2, <2>3
  <2>4. CASE ~(j <= k)
    BY <2>1, <2>4
  <2> QED BY <2>3, <2>4
<1>3. 0..n \subseteq H
  <2> HIDE DEF H
  <2> QED BY <1>1, <1>2, UpTo
<1>4. n \in 0..n /\ j <= n
  OBVIOUS
<1> QED BY <1>3, <1>4

(* The operation a raw one is, when the strict profile has nothing to      *)
(* refuse of it.                                                           *)
Faultless == {raw \in RawOps : BuildRefusal(raw, Strict) = Nil}

Built(raw) == Op(raw.kind, raw.path, IF raw.kind = "remove" THEN Nil ELSE raw.value, raw.object)

Retyped(raw, prof) == IF prof.CoerceStringPrimitives THEN Typed(Built(raw)) ELSE Built(raw)

LEMMA FaultlessIs ==
  ASSUME NEW raw \in Faultless
  PROVE  /\ Built(raw) \in DecodedOps
         /\ raw.kind = "remove" => raw.value = Nil
         /\ \A prof \in [Knobs -> BOOLEAN] :
              BuildRefusal(raw, prof) = Nil /\ Build(raw, prof) = Done(<<Retyped(raw, prof)>>)
         /\ Retyped(raw, Strict) = Built(raw)
<1>1. /\ raw \in RawOps /\ BuildRefusal(raw, Strict) = Nil
      /\ raw.path \in Paths \cup {Nil, Malformed} /\ raw.value \in RawValue \cup {Nil}
      /\ raw.object \in [Attrs -> RawValue \cup {Nil}] \cup {Nil}
      /\ raw.object # Nil => raw.path = Nil /\ raw.value = Nil
  BY RawOpIs DEF Faultless
<1>2. Nil \notin Errors
  BY ApplyAssumption
<1>3. Strict.CaseInsensitiveOps = FALSE /\ Strict.RemoveValueAsSelector = FALSE /\ Strict.CoerceStringPrimitives = FALSE
  BY DEF Strict, Knobs
<1>4. /\ raw.kind \in Kinds /\ raw.exact /\ raw.path # Malformed
      /\ raw.kind # "remove" => HasValue(raw)
      /\ raw.kind = "remove" => raw.value = Nil
  BY <1>1, <1>2, <1>3 DEF BuildRefusal, Errors, KindKnown
<1>5. \A prof : BuildRefusal(raw, prof) = Nil
  BY <1>4 DEF BuildRefusal, KindKnown
<1>6. \A prof : Build(raw, prof) = Done(<<Retyped(raw, prof)>>)
  BY <1>4, <1>5 DEF Build, Retyped, Built
<1>7. Built(raw) \in DecodedOps
  <2> DEFINE value == IF raw.kind = "remove" THEN Nil ELSE raw.value
  <2>1. value \in RawValue \cup {Nil} /\ (raw.path # Nil /\ raw.kind # "remove" => value \in RawValue)
    BY <1>1, <1>4 DEF HasValue
  <2>2. raw.path \in Paths \cup {Nil}
    BY <1>1, <1>4
  <2> HIDE DEF value
  <2>3. Op(raw.kind, raw.path, value, raw.object) \in DecodedOps
    BY <1>1, <1>4, <2>1, <2>2, OpIs
  <2> QED BY <2>3 DEF Built, value
<1>8. Retyped(raw, Strict) = Built(raw)
  BY <1>3 DEF Retyped
<1> QED BY <1>4, <1>5, <1>6, <1>7, <1>8

(* A message whose raw operations are all faultless decodes to them.       *)
LEMMA FaultlessDecoded ==
  ASSUME NEW m \in Seq(RawOps), m # <<>>, ~(Len(m) > MaxOperations), NEW prof \in [Knobs -> BOOLEAN],
         NEW raws \in Seq(Faultless), raws = FlattenSeq([i \in DOMAIN m |-> Expand(m[i], prof)])
  PROVE  Decode(m, prof) = Done([j \in DOMAIN raws |-> Retyped(raws[j], prof)])
<1> DEFINE built == [i \in DOMAIN raws |-> Build(raws[i], prof)]
           early == {i \in DOMAIN raws : BuildRefusal(raws[i], prof) # Nil}
           late == {i \in DOMAIN raws : ~built[i].ok}
           vals == [i \in DOMAIN raws |-> built[i].val]
           First(I) == CHOOSE i \in I : \A j \in I : i <= j
           list == [j \in DOMAIN raws |-> Retyped(raws[j], prof)]
           n == Len(raws)
<1>1. Decode(m, prof) = IF m = <<>> \/ Len(m) > MaxOperations THEN Fail("invalidSyntax")
                        ELSE IF early # {} THEN built[First(early)]
                        ELSE IF late # {} THEN built[First(late)] ELSE Done(FlattenSeq(vals))
  BY DEF Decode
<1>2. DOMAIN raws = 1..n /\ n \in Nat /\ \A i \in DOMAIN raws : raws[i] \in Faultless
  OBVIOUS
<1>3. \A i \in DOMAIN raws : BuildRefusal(raws[i], prof) = Nil /\ Build(raws[i], prof) = Done(<<Retyped(raws[i], prof)>>)
  BY <1>2, FaultlessIs
<1>4. early = {}
  BY <1>3
<1>5. \A i \in DOMAIN raws : built[i].ok = TRUE /\ built[i].val = <<Retyped(raws[i], prof)>>
  <2>1. \A i \in DOMAIN raws : built[i] = Done(<<Retyped(raws[i], prof)>>)
    BY <1>3
  <2> HIDE DEF built
  <2> QED BY <2>1, Outcomes
<1>6. late = {}
  <2> HIDE DEF built
  <2> QED BY <1>5
<1>7. vals = [i \in DOMAIN list |-> <<list[i]>>]
  <2>1. vals = [i \in DOMAIN raws |-> <<Retyped(raws[i], prof)>>]
    <3> HIDE DEF built
    <3> QED BY <1>5
  <2>2. DOMAIN list = DOMAIN raws /\ \A i \in DOMAIN raws : list[i] = Retyped(raws[i], prof)
    OBVIOUS
  <2> HIDE DEF vals, list
  <2> QED BY <2>1, <2>2
<1>8. FlattenSeq(vals) = list
  <2> DEFINE T == {Retyped(raws[i], prof) : i \in DOMAIN raws}
  <2>1. list = [i \in 1..n |-> list[i]] /\ \A i \in 1..n : list[i] \in T
    BY <1>2
  <2> HIDE DEF list, T, vals
  <2>2. list \in Seq(T) /\ Len(list) = n
    BY <1>2, <2>1
  <2>3. FlattenSeq([i \in DOMAIN list |-> <<list[i]>>]) = list
    BY <1>2, <2>2, FlattenedSingles
  <2> QED BY <1>7, <2>3
<1> HIDE DEF early, late, vals, list, First, built
<1>9. Decode(m, prof) = Done(list)
  BY <1>1, <1>4, <1>6, <1>8
<1> QED BY <1>9 DEF list

(* What the strict profile decodes, operation by operation.                *)
LEMMA StrictDecoded ==
  ASSUME NEW m \in Seq(RawOps), Decode(m, Strict).ok
  PROVE  /\ m \in Seq(Faultless) /\ m # <<>> /\ ~(Len(m) > MaxOperations)
         /\ Decode(m, Strict) = Done([i \in DOMAIN m |-> Built(m[i])])
<1> DEFINE each == [i \in DOMAIN m |-> Expand(m[i], Strict)]
           raws == FlattenSeq(each)
           built == [i \in DOMAIN raws |-> Build(raws[i], Strict)]
           early == {i \in DOMAIN raws : BuildRefusal(raws[i], Strict) # Nil}
           late == {i \in DOMAIN raws : ~built[i].ok}
           vals == [i \in DOMAIN raws |-> built[i].val]
           First(I) == CHOOSE i \in I : \A j \in I : i <= j
           n == Len(m)
<1>1. Decode(m, Strict) = IF m = <<>> \/ Len(m) > MaxOperations THEN Fail("invalidSyntax")
                        ELSE IF early # {} THEN built[First(early)]
                        ELSE IF late # {} THEN built[First(late)] ELSE Done(FlattenSeq(vals))
  BY DEF Decode
<1>2. DOMAIN m = 1..n /\ n \in Nat /\ \A i \in DOMAIN m : m[i] \in RawOps
  OBVIOUS
<1>3. raws = m
  <2>1. Strict.ExpandPathlessReplace = FALSE
    BY DEF Strict, Knobs
  <2>2. \A i \in DOMAIN m : Expand(m[i], Strict) = <<m[i]>>
    BY <2>1 DEF Expand
  <2>3. each = [i \in DOMAIN m |-> <<m[i]>>]
    BY <2>2
  <2> HIDE DEF each
  <2> QED BY <1>2, <2>3, FlattenedSingles
<1> HIDE DEF raws
<1>4. \A x : Fail(x).ok = FALSE
  BY Outcomes
<1>5. m # <<>> /\ ~(Len(m) > MaxOperations)
  <2> HIDE DEF early, late, built, vals, First
  <2> QED BY <1>1, <1>4
<1>6. early = {}
  <2> SUFFICES ASSUME early # {} PROVE FALSE
    OBVIOUS
  <2>1. First(early) \in early
    <3>1. early \subseteq Nat
      BY <1>2, <1>3
    <3> HIDE DEF early
    <3>2. \E i \in early : \A j \in early : i <= j
      BY <3>1, Least
    <3> QED BY <3>2
  <2>2. PICK k \in early : Decode(m, Strict) = built[k]
    <3> HIDE DEF early, late, built, vals, First
    <3> QED BY <1>1, <1>5, <2>1
  <2>3. built[k] = Fail(BuildRefusal(raws[k], Strict))
    BY <2>2 DEF Build
  <2> QED BY <1>4, <2>2, <2>3
<1>7. m \in Seq(Faultless)
  <2>1. \A i \in 1..n : m[i] \in Faultless
    BY <1>2, <1>3, <1>6 DEF Faultless
  <2> QED BY <1>2, <2>1
<1>8. Decode(m, Strict) = Done([i \in DOMAIN m |-> Retyped(m[i], Strict)])
  <2>1. Strict \in [Knobs -> BOOLEAN]
    BY DEF Strict
  <2>2. m = FlattenSeq([i \in DOMAIN m |-> Expand(m[i], Strict)])
    BY <1>3 DEF raws
  <2> QED BY <1>5, <1>7, <2>1, <2>2, FaultlessDecoded
<1>9. [i \in DOMAIN m |-> Retyped(m[i], Strict)] = [i \in DOMAIN m |-> Built(m[i])]
  <2>1. \A i \in DOMAIN m : Retyped(m[i], Strict) = Built(m[i])
    BY <1>7, FaultlessIs
  <2> QED BY <2>1
<1> QED BY <1>5, <1>7, <1>8, <1>9

(* A replace without keys that are paths is one operation after expansion, *)
(* or none when there is nothing in it.                                    *)
Unflattened(raw) == raw.kind = "replace" => raw.flat = <<>> /\ ContainerKey(raw) = <<>>

LEMMA ExpandedSame ==
  ASSUME NEW raw \in Faultless, Unflattened(raw), NEW prof \in [Knobs -> BOOLEAN]
  PROVE  \/ \E r \in Faultless : Expand(raw, prof) = <<r>> /\ Built(r) = Built(raw)
         \/ /\ Expand(raw, prof) = <<>>
            /\ raw.kind = "replace" /\ raw.path = Nil /\ raw.object = [a \in Attrs |-> Nil]
<1>1. CASE Expand(raw, prof) = <<raw>>
  BY <1>1
<1>2. CASE Expand(raw, prof) # <<raw>>
  <2> DEFINE own == ContainerKey(raw)
             keys == own \o raw.flat
             plain == [a \in Attrs |-> IF Schema[a].ext /\ own # <<>> THEN Nil ELSE raw.object[a]]
             Pathed1(k) == RawOp(raw.kind, raw.exact, k.path, k.value, Nil, <<>>)
             rest == RawOp(raw.kind, raw.exact, Nil, Nil, plain, <<>>)
             first == IF plain = [a \in Attrs |-> Nil] THEN <<>> ELSE <<rest>>
             others == [i \in DOMAIN keys |-> Pathed1(keys[i])]
  <2>1. /\ Expand(raw, prof) = first \o others
        /\ raw.object # Nil /\ raw.kind = "replace" /\ raw.path = Nil
    BY <1>2 DEF Expand
  <2>2. /\ raw \in RawOps /\ BuildRefusal(raw, Strict) = Nil
        /\ raw.object \in [Attrs -> RawValue \cup {Nil}]
        /\ raw.kind \in STRING /\ raw.exact \in BOOLEAN
        /\ raw.value = Nil
    BY <2>1, RawOpIs DEF Faultless
  <2>3. own = <<>> /\ raw.flat = <<>>
    BY <2>1 DEF Unflattened
  <2>4. keys = <<>>
    <3> HIDE DEF own
    <3> QED BY <2>3
  <2>5. others = <<>>
    <3> HIDE DEF keys
    <3> QED BY <2>4
  <2>6. plain = raw.object
    <3> HIDE DEF own
    <3>1. plain = [a \in Attrs |-> raw.object[a]]
      BY <2>3
    <3> QED BY <2>2, <3>1
  <2>7. Expand(raw, prof) = first
    <3>1. first = <<>> \/ first = <<rest>>
      OBVIOUS
    <3> HIDE DEF others, rest, first
    <3> QED BY <2>1, <2>5, <3>1
  <2>8. CASE plain = [a \in Attrs |-> Nil]
    BY <2>1, <2>6, <2>7, <2>8
  <2>9. CASE plain # [a \in Attrs |-> Nil]
    <3> DEFINE none == <<>>
               r == RawOp(raw.kind, raw.exact, Nil, Nil, raw.object, none)
    <3>1. Expand(raw, prof) = <<r>>
      <4> HIDE DEF plain
      <4> QED BY <2>6, <2>7, <2>9
    <3>2. r \in RawOps
      <4>1. none \in Seq([path : Paths, value : RawValue])
        OBVIOUS
      <4> HIDE DEF none
      <4>2. RawOp(raw.kind, raw.exact, Nil, Nil, raw.object, none) \in RawOps
        BY <2>1, <2>2, <4>1, RawOpOf
      <4> QED BY <4>2 DEF none
    <3>3. /\ r.kind = raw.kind /\ r.exact = raw.exact /\ r.path = raw.path
          /\ r.value = raw.value /\ r.object = raw.object
      <4> HIDE DEF none
      <4> QED BY <2>1, <2>2 DEF RawOp
    <3> HIDE DEF r
    <3>4. BuildRefusal(r, Strict) = BuildRefusal(raw, Strict)
      BY <3>3 DEF BuildRefusal, KindKnown, HasValue
    <3>5. Built(r) = Built(raw)
      BY <3>3 DEF Built
    <3>6. r \in Faultless
      BY <2>2, <3>2, <3>4 DEF Faultless
    <3> QED BY <3>1, <3>5, <3>6
  <2> QED BY <2>8, <2>9
<1> QED BY <1>1, <1>2

(* What the strict profile makes of a message, every profile makes of it,  *)
(* unless keys of it are taken for paths.                                  *)
LEMMA Tolerated ==
  ASSUME NEW m \in Seq(RawOps), \A i \in DOMAIN m : Unflattened(m[i]), NEW res \in Resources,
         Decode(m, Strict).ok, NEW next, ApplyAll(Decode(m, Strict).val, res, Strict) = Done(next),
         NEW prof \in [Knobs -> BOOLEAN]
  PROVE  Decode(m, prof).ok /\ ApplyAll(Decode(m, prof).val, res, prof) = Done(next)
<1> DEFINE n == Len(m)
           each == [i \in DOMAIN m |-> Expand(m[i], prof)]
           raws == FlattenSeq(each)
           strictly == [i \in DOMAIN m |-> Built(m[i])]
           list == [j \in DOMAIN raws |-> Retyped(raws[j], prof)]
           l == Len(raws)
<1>1. /\ m \in Seq(Faultless) /\ m # <<>> /\ ~(Len(m) > MaxOperations)
      /\ Decode(m, Strict) = Done(strictly)
  BY StrictDecoded
<1>2. DOMAIN m = 1..n /\ n \in Nat /\ \A i \in 1..n : m[i] \in Faultless
  BY <1>1
<1>3. strictly \in Seq(DecodedOps) /\ Len(strictly) = n /\ \A i \in 1..n : strictly[i] = Built(m[i])
  <2>1. \A i \in 1..n : Built(m[i]) \in DecodedOps
    BY <1>2, FaultlessIs
  <2> QED BY <1>2, <2>1
<1>4. \A i \in 1..n :
        \/ \E r \in Faultless : each[i] = <<r>> /\ Built(r) = Built(m[i])
        \/ /\ each[i] = <<>>
           /\ m[i].kind = "replace" /\ m[i].path = Nil /\ m[i].object = [a \in Attrs |-> Nil]
  BY <1>2, ExpandedSame
<1>5. each \in Seq(Seq(Faultless)) /\ Len(each) = n
  <2>1. each = [i \in 1..n |-> each[i]]
    BY <1>2
  <2> HIDE DEF each
  <2>2. ASSUME NEW i \in 1..n PROVE each[i] \in Seq(Faultless)
    <3>1. CASE \E r \in Faultless : each[i] = <<r>>
      <4>1. PICK r \in Faultless : each[i] = <<r>>
        BY <3>1
      <4> HIDE DEF Faultless
      <4>2. <<r>> \in Seq(Faultless)
        OBVIOUS
      <4> QED BY <4>1, <4>2
    <3>2. CASE each[i] = <<>>
      BY <3>2
    <3> QED BY <1>4, <3>1, <3>2
  <2> QED BY <1>2, <2>1, <2>2
<1> HIDE DEF each
<1>6. PICK f : IsFlattening(f, n, Faultless, each)
  BY <1>2, <1>5, FlattenRuns
<1>7. /\ \A k \in 0..n : f[k] \in Seq(Faultless)
      /\ f[0] = <<>> /\ f[n] = raws
      /\ \A k \in 0..n : k < n => f[k + 1] = f[k] \o each[k + 1]
  BY <1>6, Zenon DEF IsFlattening
<1>8. \A k \in 0..n : Len(f[k]) \in Nat /\ Len(f[k]) <= l /\ \A i \in 1..Len(f[k]) : raws[i] = f[k][i]
  <2> SUFFICES ASSUME NEW k \in 0..n
               PROVE  Len(f[k]) \in Nat /\ Len(f[k]) <= l /\ \A i \in 1..Len(f[k]) : raws[i] = f[k][i]
    OBVIOUS
  <2>1. n \in Nat /\ each \in Seq(Seq(Faultless)) /\ Len(each) = n
    BY <1>2, <1>5
  <2> HIDE DEF n
  <2>2. /\ Len(f[k]) \in Nat /\ Len(f[k]) <= Len(FlattenSeq(each))
        /\ \A i \in 1..Len(f[k]) : FlattenSeq(each)[i] = f[k][i]
    BY <1>6, <2>1, FlattenedSoFar
  <2>3. raws = FlattenSeq(each) /\ l = Len(raws)
    OBVIOUS
  <2> HIDE DEF raws, l
  <2> QED BY <2>2, <2>3
<1>9. raws \in Seq(Faultless)
  BY <1>2, <1>7
<1>10. Decode(m, prof) = Done(list)
  BY <1>1, <1>9, FaultlessDecoded DEF each
<1> HIDE DEF raws
<1>11. l \in Nat /\ DOMAIN raws = 1..l /\ \A j \in 1..l : raws[j] \in Faultless
  BY <1>9
<1>12. list \in Seq(DecodedOps) /\ Len(list) = l /\ \A j \in 1..l : list[j] = Retyped(raws[j], prof)
  <2>1. \A j \in 1..l : Retyped(raws[j], prof) \in DecodedOps
    BY <1>11, FaultlessIs, TypedIs DEF Retyped
  <2> QED BY <1>11, <2>1
<1>13. ApplyAll(strictly, res, Strict) = Done(next)
  <2> HIDE DEF strictly
  <2> QED BY <1>1, Outcomes
<1> HIDE DEF list, strictly, l, n
<1>14. PICK s : IsOpRun(s, n, strictly, res, Strict)
  BY <1>2, <1>3, OpsInTurn
<1>15. PICK t : IsOpRun(t, l, list, res, prof)
  BY <1>11, <1>12, OpsInTurn
<1>16. /\ s[0] = Done(res) /\ s[n] = Done(next) /\ \A k \in 0..n : s[k] \in Results
       /\ \A k \in 0..n : k < n => s[k + 1] = IF s[k].ok THEN Perform(strictly[k + 1], s[k].val, Strict) ELSE s[k]
  BY <1>13, <1>14 DEF IsOpRun
<1>17. /\ t[0] = Done(res) /\ t[l] = ApplyAll(list, res, prof)
       /\ \A k \in 0..l : k < l => t[k + 1] = IF t[k].ok THEN Perform(list[k + 1], t[k].val, prof) ELSE t[k]
  BY <1>15 DEF IsOpRun
<1> DEFINE H == {k \in 0..n : s[k].ok => t[Len(f[k])] = s[k]}
<1>18. 0 \in H
  BY <1>2, <1>7, <1>16, <1>17
<1>19. ASSUME NEW k \in 0..n, k \in H, k < n PROVE k + 1 \in H
  <2>1. k + 1 \in 0..n /\ k + 1 \in 1..n
    BY <1>2, <1>19
  <2> SUFFICES ASSUME s[k + 1].ok PROVE t[Len(f[k + 1])] = s[k + 1]
    BY <2>1
  <2>2. s[k + 1] = IF s[k].ok THEN Perform(strictly[k + 1], s[k].val, Strict) ELSE s[k]
    BY <1>16, <1>19
  <2>3. s[k].ok
    BY <2>2
  <2> DEFINE before == s[k].val
             after == s[k + 1].val
             op == Built(m[k + 1])
  <2>4. /\ before \in Resources /\ s[k] = Done(before) /\ s[k + 1] = Done(after)
        /\ after \in Resources /\ Perform(op, before, Strict) = Done(after)
    <3>1. s[k] \in Results /\ s[k + 1] \in Results
      BY <1>16, <2>1
    <3>2. strictly[k + 1] = op
      BY <1>3, <2>1
    <3> HIDE DEF op
    <3> QED BY <2>2, <2>3, <3>1, <3>2, ResultsAre
  <2>5. t[Len(f[k])] = Done(before)
    BY <1>19, <2>3, <2>4
  <2>6. f[k + 1] = f[k] \o each[k + 1] /\ f[k] \in Seq(Faultless)
    BY <1>7, <1>19
  <2>7. CASE \E r \in Faultless : each[k + 1] = <<r>> /\ Built(r) = Built(m[k + 1])
    <3>1. PICK r \in Faultless : each[k + 1] = <<r>> /\ Built(r) = Built(m[k + 1])
      BY <2>7
    <3> DEFINE c == Len(f[k])
    <3>2. <<r>> \in Seq(Faultless) /\ Len(<<r>>) = 1 /\ 1 \in 1..Len(<<r>>) /\ <<r>>[1] = r
      BY <3>1
    <3>3. c \in Nat /\ Len(f[k + 1]) = c + 1 /\ f[k + 1][c + 1] = r
      BY <2>6, <3>1, <3>2, ConcatIs
    <3>4. c + 1 <= l /\ raws[c + 1] = r
      <4> HIDE DEF c
      <4> QED BY <1>8, <2>1, <3>3
    <3>5. c \in 0..l /\ c < l /\ c + 1 \in 1..l
      <4> HIDE DEF c
      <4> QED BY <1>11, <3>3, <3>4
    <3>6. t[c + 1] = Perform(Retyped(r, prof), before, prof)
      <4>1. t[c] = Done(before)
        BY <2>5
      <4>2. list[c + 1] = Retyped(r, prof)
        BY <1>12, <3>4, <3>5
      <4> HIDE DEF c, before
      <4> QED BY <1>17, <3>5, <4>1, <4>2, Outcomes
    <3>7. Retyped(r, prof) \in {op, Typed(op)} /\ op \in DecodedOps
      BY <3>1, FaultlessIs DEF Retyped
    <3> HIDE DEF op, before, after
    <3>8. Perform(Retyped(r, prof), before, prof) = Done(after)
      BY <2>4, <3>7, PerformedTyped
    <3> QED BY <2>4, <3>3, <3>6, <3>8
  <2>8. CASE /\ each[k + 1] = <<>>
             /\ m[k + 1].kind = "replace" /\ m[k + 1].path = Nil /\ m[k + 1].object = [a \in Attrs |-> Nil]
    <3>1. f[k + 1] = f[k]
      BY <2>6, <2>8
    <3>2. /\ op.kind = "replace" /\ op.path = Nil /\ op.object = [a \in Attrs |-> Nil]
      BY <2>8 DEF Built, Op
    <3>3. op.object # Nil
      <4>1. op.object \in [Attrs -> RawValue \cup {Nil}]
        BY <3>2
      <4> HIDE DEF op
      <4> QED BY <4>1, DecodeAssumption
    <3> HIDE DEF op, before, after
    <3>4. Perform(op, before, Strict) = KeyByKey(op, before)
      BY <3>2, <3>3 DEF Perform, KeyByKey
    <3>5. KeyByKey(op, before) = Done(before)
      BY <2>4, <3>2, NoKeys
    <3> QED BY <2>4, <2>5, <3>1, <3>4, <3>5
  <2>9. \/ \E r \in Faultless : each[k + 1] = <<r>> /\ Built(r) = Built(m[k + 1])
        \/ /\ each[k + 1] = <<>>
           /\ m[k + 1].kind = "replace" /\ m[k + 1].path = Nil /\ m[k + 1].object = [a \in Attrs |-> Nil]
    BY <1>4, <2>1
  <2> QED BY <2>7, <2>8, <2>9
<1>20. 0..n \subseteq H
  <2> HIDE DEF H
  <2> QED BY <1>2, <1>18, <1>19, UpTo
<1>21. t[l] = Done(next)
  <2>1. n \in 0..n /\ s[n].ok
    BY <1>2, <1>16, Outcomes
  <2>2. Len(f[n]) = l
    BY <1>7 DEF l
  <2> QED BY <1>16, <1>20, <2>1, <2>2
<1> QED BY <1>10, <1>17, <1>21, Outcomes

(* What has been applied so far: the working copy is what the run of the   *)
(* decoded operations gives after the ones that are done.                  *)
Following ==
  /\ given \in Resources
  /\ ops = Nil => done = 0 /\ work = given /\ (err # Nil => Decode(msg, profile) = Fail(err))
  /\ ops # Nil =>
       /\ Decode(msg, profile) = Done(ops)
       /\ \E f : /\ IsOpRun(f, Len(ops), ops, given, profile)
                 /\ f[done] = Done(work)
                 /\ err # Nil => done < Len(ops) /\ f[done + 1] = Fail(err)

LEMMA DecodeFollows ==
  ASSUME Ready, Following, DecodeMessage
  PROVE  Following'
<1> DEFINE decoded == Decode(msg, profile)
<1>1. /\ ops = Nil
      /\ IF decoded.ok THEN ops' = decoded.val /\ err' = Nil ELSE err' = decoded.val /\ ops' = Nil
      /\ UNCHANGED <<profile, msg, given, done, work>>
  BY DEF DecodeMessage
<1>2. given \in Resources /\ done = 0 /\ work = given
  BY <1>1 DEF Following
<1>3. \/ \E e \in Errors : decoded = Fail(e)
      \/ \E list \in Seq(DecodedOps) : decoded = Done(list)
  BY DecodeIs DEF Ready
<1>4. CASE \E e \in Errors : decoded = Fail(e)
  <2>1. ops' = Nil /\ decoded = Fail(err')
    <3> HIDE DEF decoded
    <3> QED BY <1>1, <1>4, Outcomes
  <2> QED BY <1>1, <1>2, <2>1 DEF Following
<1>5. CASE \E list \in Seq(DecodedOps) : decoded = Done(list)
  <2>1. ops' \in Seq(DecodedOps) /\ decoded = Done(ops') /\ err' = Nil
    <3> HIDE DEF decoded
    <3> QED BY <1>1, <1>5, Outcomes
  <2>2. PICK f : IsOpRun(f, Len(ops'), ops', given, profile)
    <3>1. Len(ops') \in Nat
      BY <2>1
    <3> QED BY <1>2, <2>1, <3>1, OpsInTurn
  <2>3. f[0] = Done(given)
    BY <2>2 DEF IsOpRun
  <2>4. /\ given' = given /\ done' = 0 /\ work' = given /\ profile' = profile /\ msg' = msg
    BY <1>1, <1>2
  <2> HIDE DEF decoded
  <2> QED BY <1>2, <2>1, <2>2, <2>3, <2>4 DEF Following, decoded
<1> QED BY <1>3, <1>4, <1>5

LEMMA StepFollows ==
  ASSUME Ready, Following, NEW kind, Step(kind)
  PROVE  Following'
<1> DEFINE op == ops[done + 1]
           result == Perform(op, work, profile)
<1>1. /\ ops # Nil /\ err = Nil /\ done \in Nat /\ done < Len(ops) /\ ops \in Seq(DecodedOps)
      /\ ops' = ops /\ profile' = profile /\ msg' = msg /\ given' = given
      /\ result \in Results
  BY StepApplies DEF Step
<1>2. IF result.ok THEN work' = result.val /\ done' = done + 1 /\ err' = err
      ELSE err' = result.val /\ UNCHANGED <<done, work>>
  BY DEF Step
<1>3. /\ given \in Resources /\ Decode(msg, profile) = Done(ops)
      /\ \E f : IsOpRun(f, Len(ops), ops, given, profile) /\ f[done] = Done(work)
  BY <1>1 DEF Following
<1>4. PICK f : IsOpRun(f, Len(ops), ops, given, profile) /\ f[done] = Done(work)
  BY <1>3
<1>5. f[done + 1] = result
  <2>1. done \in 0..Len(ops)
    BY <1>1
  <2>2. f[done + 1] = IF f[done].ok THEN Perform(op, f[done].val, profile) ELSE f[done]
    BY <1>1, <1>4, <2>1 DEF IsOpRun
  <2> HIDE DEF op
  <2> QED BY <1>4, <2>2, Outcomes
<1> HIDE DEF op, result
<1>6. CASE result.ok
  <2>1. result = Done(work') /\ done' = done + 1 /\ err' = Nil
    BY <1>1, <1>2, <1>6, ResultsAre
  <2>2. f[done'] = Done(work')
    BY <1>5, <2>1
  <2> QED BY <1>1, <1>3, <1>4, <2>1, <2>2 DEF Following
<1>7. CASE ~result.ok
  <2>1. result = Fail(err') /\ done' = done /\ work' = work
    BY <1>1, <1>2, <1>7, ResultsAre
  <2>2. f[done' + 1] = Fail(err') /\ f[done'] = Done(work')
    BY <1>4, <1>5, <2>1
  <2> QED BY <1>1, <1>3, <1>4, <2>1, <2>2 DEF Following
<1> QED BY <1>6, <1>7

(* A message the strict profile applies is applied by every other profile, *)
(* to the same resource: unwrapping lists, taking strings for numbers and  *)
(* booleans and expanding an operation key by key change no message that   *)
(* was right (Profile, expandOp, unquoteValue, unwrapSingleton).           *)
THEOREM ToleranceSafe == Spec => []ToleranceConservative
<1> DEFINE Inv == Ready /\ Following
<1>1. Init => Inv
  <2> SUFFICES ASSUME Init PROVE Following
    BY StartsReady
  <2>1. PICK c \in Cases : given \in c.bases
    BY DEF Init
  <2>2. given \in Resources
    BY <2>1, PatchAssumption
  <2> QED BY <2>2 DEF Init, Following
<1>2. Inv /\ [Next]_vars => Inv'
  <2> SUFFICES ASSUME Ready, Following, [Next]_vars PROVE Ready' /\ Following'
    OBVIOUS
  <2>1. Ready'
    BY NextReady
  <2>2. CASE DecodeMessage
    BY <2>1, <2>2, DecodeFollows
  <2>3. CASE ApplyAdd \/ ApplyRemove \/ ApplyReplace
    BY <2>1, <2>3, StepFollows DEF ApplyAdd, ApplyRemove, ApplyReplace
  <2>4. CASE UNCHANGED vars
    BY <2>1, <2>4 DEF Following, vars
  <2> QED BY <2>2, <2>3, <2>4 DEF Next
<1>3. Inv => ToleranceConservative
  <2> DEFINE n == Len(ops)
             strictly == Decode(msg, Strict)
             next == ApplyAll(strictly.val, given, Strict).val
  <2> SUFFICES ASSUME Ready, Following, Answered, ~Flattened, Outcome(Strict).ok
               PROVE  err = Nil /\ work = Outcome(Strict).val
    BY DEF ToleranceConservative
  <2>1. msg \in Seq(RawOps) /\ profile \in [Knobs -> BOOLEAN] /\ given \in Resources
    BY PatchAssumption DEF Ready, Following
  <2>2. \A i \in DOMAIN msg : Unflattened(msg[i])
    BY DEF Flattened, Unflattened
  <2>3. strictly.ok /\ Outcome(Strict) = ApplyAll(strictly.val, given, Strict)
    BY DEF Outcome
  <2>4. ApplyAll(strictly.val, given, Strict) = Done(next)
    <3>1. \/ strictly \in {Fail(e) : e \in Errors}
          \/ \E list \in Seq(DecodedOps) : strictly = Done(list)
      BY <2>1, DecodeIs
    <3>2. PICK list \in Seq(DecodedOps) : strictly = Done(list)
      <4> HIDE DEF strictly
      <4> QED BY <2>3, <3>1, Outcomes
    <3>3. strictly.val = list /\ Len(list) \in Nat
      <4> HIDE DEF strictly
      <4> QED BY <3>2, Outcomes
    <3> HIDE DEF strictly
    <3>4. PICK f : IsOpRun(f, Len(list), list, given, Strict)
      BY <2>1, <3>3, OpsInTurn
    <3>5. ApplyAll(list, given, Strict) \in Results
      BY <3>3, <3>4 DEF IsOpRun
    <3> QED BY <2>3, <3>3, <3>5, ResultsAre
  <2>5. Decode(msg, profile).ok /\ ApplyAll(Decode(msg, profile).val, given, profile) = Done(next)
    <3> HIDE DEF next
    <3> QED BY <2>1, <2>2, <2>3, <2>4, Tolerated
  <2> HIDE DEF next, strictly
  <2>6. ops # Nil
    BY <2>5, Outcomes DEF Following, Answered
  <2>7. PICK f : /\ IsOpRun(f, n, ops, given, profile) /\ f[done] = Done(work)
                 /\ err # Nil => done < n /\ f[done + 1] = Fail(err)
    BY <2>6 DEF Following
  <2>8. f[n] = Done(next)
    BY <2>5, <2>6, <2>7, Outcomes DEF Following, IsOpRun
  <2>9. ops \in Seq(DecodedOps) /\ n \in Nat /\ done \in 0..n
    BY <2>6 DEF Ready
  <2>10. err = Nil
    <3> SUFFICES ASSUME err # Nil PROVE FALSE
      OBVIOUS
    <3>1. f[done + 1] = Fail(err) /\ done + 1 \in 0..n
      BY <2>7, <2>9
    <3> DEFINE j == done + 1
    <3>2. j \in 0..n /\ f[j] = Fail(err) /\ ~f[j].ok
      BY <3>1, Outcomes
    <3> HIDE DEF j, n
    <3>3. f[n] = f[j]
      BY <2>7, <2>9, <3>2, FailedStays
    <3> QED BY <2>8, <3>2, <3>3, Outcomes
  <2>11. done = n
    BY <2>10 DEF Answered
  <2>12. work = next
    BY <2>7, <2>8, <2>11, Outcomes
  <2>13. Outcome(Strict).val = next
    BY <2>3, <2>4, Outcomes
  <2> QED BY <2>10, <2>12, <2>13
<1> QED BY <1>1, <1>2, <1>3, PTL DEF Spec

-----------------------------------------------------------------------------
(* What a response shows (ResourceView), whose values and elements are the  *)
(* ones patched above.                                                     *)

(* What the same places select of two lists goes hand in hand.             *)
LEMMA SelectedTogether ==
  ASSUME NEW n \in Nat, NEW list, DOMAIN list = 1..n, NEW more, DOMAIN more = 1..n, NEW places
  PROVE  LET kept == Selected(list, places)
             other == Selected(more, places)
         IN
         /\ Len(kept) \in Nat /\ DOMAIN kept = 1..Len(kept) /\ DOMAIN other = 1..Len(kept)
         /\ \A j \in 1..Len(kept) : \E i \in 1..n : i \in places /\ kept[j] = list[i] /\ other[j] = more[i]
<1> DEFINE kept == Selected(list, places)
           other == Selected(more, places)
<1> HIDE DEF kept, other
<1>1. PICK f : KeptSoFar(f, list, n, places) /\ f[n] = kept
  BY SelectedSteps DEF kept
<1>2. PICK g : KeptSoFar(g, more, n, places) /\ g[n] = other
  BY SelectedSteps DEF other
<1>3. /\ f[0] = <<>> /\ \A k \in 0..n : f[k] \in Seq(ValuesOf(list, n))
      /\ \A k \in 1..n : f[k] = IF k \in places THEN Append(f[k - 1], list[k]) ELSE f[k - 1]
  BY <1>1 DEF KeptSoFar
<1>4. /\ g[0] = <<>> /\ \A k \in 0..n : g[k] \in Seq(ValuesOf(more, n))
      /\ \A k \in 1..n : g[k] = IF k \in places THEN Append(g[k - 1], more[k]) ELSE g[k - 1]
  BY <1>2 DEF KeptSoFar
<1> DEFINE Paired(k) == /\ Len(f[k]) = Len(g[k])
                        /\ \A j \in 1..Len(f[k]) :
                             \E i \in 1..n : i \in places /\ f[k][j] = list[i] /\ g[k][j] = more[i]
           H == {k \in 0..n : Paired(k)}
<1>5. 0 \in H
  BY <1>3, <1>4
<1>6. ASSUME NEW k \in 0..n, k \in H, k < n PROVE k + 1 \in H
  <2>1. k + 1 \in 0..n /\ k + 1 \in 1..n /\ (k + 1) - 1 = k
    BY <1>6
  <2>2. /\ f[k + 1] = IF k + 1 \in places THEN Append(f[k], list[k + 1]) ELSE f[k]
        /\ g[k + 1] = IF k + 1 \in places THEN Append(g[k], more[k + 1]) ELSE g[k]
    BY <1>3, <1>4, <2>1
  <2>3. Paired(k)
    BY <1>6
  <2>4. CASE k + 1 \in places
    <3> DEFINE x == list[k + 1]
               y == more[k + 1]
               m == Len(f[k])
    <3>1. /\ f[k] \in Seq(ValuesOf(list, n)) /\ g[k] \in Seq(ValuesOf(more, n))
          /\ x \in ValuesOf(list, n) /\ y \in ValuesOf(more, n)
      BY <1>3, <1>4, <2>1 DEF ValuesOf
    <3>2. f[k + 1] = Append(f[k], x) /\ g[k + 1] = Append(g[k], y) /\ m = Len(g[k])
      BY <2>2, <2>3, <2>4
    <3>3. x = list[k + 1] /\ y = more[k + 1]
      OBVIOUS
    <3> HIDE DEF x, y
    <3>4. /\ m \in Nat /\ Len(f[k + 1]) = m + 1 /\ Len(g[k + 1]) = m + 1
          /\ f[k + 1][m + 1] = x /\ g[k + 1][m + 1] = y
          /\ \A j \in 1..m : f[k + 1][j] = f[k][j] /\ g[k + 1][j] = g[k][j]
      BY <3>1, <3>2
    <3>5. \A j \in 1..(m + 1) : j \in 1..m \/ j = m + 1
      BY <3>4
    <3>6. Paired(k + 1)
      BY <2>1, <2>3, <2>4, <3>3, <3>4, <3>5
    <3> QED BY <2>1, <3>6
  <2>5. CASE k + 1 \notin places
    BY <2>1, <2>2, <2>3, <2>5
  <2> QED BY <2>4, <2>5
<1>7. 0..n \subseteq H
  <2> HIDE DEF H
  <2> QED BY <1>5, <1>6, UpTo
<1>8. Paired(n)
  BY <1>7
<1>9. kept \in Seq(ValuesOf(list, n)) /\ other \in Seq(ValuesOf(more, n))
  BY <1>1, <1>2, <1>3, <1>4
<1> QED BY <1>1, <1>2, <1>8, <1>9 DEF kept, other

-----------------------------------------------------------------------------
(* Projections.                                                            *)

Indexes == [Attrs -> [whole : BOOLEAN, subs : SUBSET Subs]]

(* A path names the whole attribute.                                       *)
Wholly(p, a) == p = Path(a, Nil) \/ (a \in Extension /\ p = WholeExtension)

(* A path may name a part of the attribute.                                *)
Parted(a) == Schema[a].complex /\ ~Schema[a].multi

LEMMA IndexedIs ==
  ASSUME NEW index \in Indexes, NEW p \in NamedPaths
  PROVE  /\ Indexed(index, p) \in Indexes
         /\ \A a \in Attrs :
              LET new == Indexed(index, p)[a]
              IN  /\ new.whole <=> index[a].whole \/ Wholly(p, a)
                  /\ ~new.whole => new.subs = index[a].subs \cup {s \in SubsOf(a) : Parted(a) /\ p = Path(a, s)}
<1> DEFINE new == Indexed(index, p)
<1>1. /\ p = Path(p.attr, p.sub) /\ p.sub \in Subs \cup {Nil}
      /\ \A a, s : p = Path(a, s) <=> p.attr = a /\ p.sub = s
  BY DEF NamedPaths, Path
<1>2. /\ Nil \notin Subs /\ "extension" \notin Attrs /\ Extension \subseteq Attrs
      /\ \A a \in Attrs : SubsOf(a) \subseteq Subs
      /\ WholeExtension = Path("extension", Nil)
  BY DataAssumption, CodecAssumption, SchemaFacts DEF Extension, WholeExtension, Path
<1>3. Entire \in [whole : BOOLEAN, subs : SUBSET Subs] /\ Entire.whole = TRUE
  BY DEF Entire
<1>4. DOMAIN index = Attrs /\ \A a \in Attrs : index[a] \in [whole : BOOLEAN, subs : SUBSET Subs]
  BY DEF Indexes
<1>5. CASE ~PathResolves(p)
  <2>1. new = index
    BY <1>5 DEF Indexed
  <2>2. \A a \in Attrs : ~Wholly(p, a)
    BY <1>1, <1>2, <1>5 DEF PathResolves, Wholly
  <2>3. \A a \in Attrs : \A s \in SubsOf(a) : ~(Parted(a) /\ p = Path(a, s))
    BY <1>1, <1>5 DEF PathResolves, Parted
  <2> HIDE DEF new
  <2>4. \A a \in Attrs : {s \in SubsOf(a) : Parted(a) /\ p = Path(a, s)} = {}
    BY <2>3
  <2> QED BY <1>4, <2>1, <2>2, <2>4 DEF new
<1>6. CASE p = WholeExtension
  <2>1. new = [a \in Attrs |-> IF a \in Extension THEN Entire ELSE index[a]]
    BY <1>6 DEF Indexed, PathResolves
  <2>2. \A a \in Attrs : Wholly(p, a) <=> a \in Extension
    BY <1>1, <1>2, <1>6 DEF Wholly
  <2>3. \A a \in Attrs : \A s \in SubsOf(a) : p # Path(a, s)
    BY <1>1, <1>2, <1>6
  <2> HIDE DEF new
  <2>4. \A a \in Attrs : {s \in SubsOf(a) : Parted(a) /\ p = Path(a, s)} = {}
    BY <2>3
  <2>5. new \in Indexes
    BY <1>3, <1>4, <2>1 DEF Indexes
  <2>6. \A a \in Attrs : new[a] = IF a \in Extension THEN Entire ELSE index[a]
    BY <2>1
  <2> QED BY <1>3, <1>4, <2>2, <2>4, <2>5, <2>6 DEF new
<1>7. CASE PathResolves(p) /\ p # WholeExtension
  <2> DEFINE b == p.attr
  <2>1. b \in Attrs
    BY <1>7 DEF PathResolves
  <2>2. \A a \in Attrs : Wholly(p, a) <=> a = b /\ p.sub = Nil
    BY <1>1, <1>7 DEF Wholly
  <2>3. CASE p.sub = Nil
    <3>1. new = [index EXCEPT ![b] = Entire]
      BY <1>7, <2>3 DEF Indexed
    <3>2. \A a \in Attrs : \A s \in SubsOf(a) : p # Path(a, s)
      BY <1>1, <1>2, <2>3
    <3> HIDE DEF new, b
    <3>3. \A a \in Attrs : {s \in SubsOf(a) : Parted(a) /\ p = Path(a, s)} = {}
      BY <3>2
    <3>4. \A a \in Attrs : new[a] = IF a = b THEN Entire ELSE index[a]
      BY <1>4, <2>1, <3>1
    <3>5. new \in Indexes
      BY <1>3, <2>1, <3>1 DEF Indexes
    <3> QED BY <1>3, <1>4, <2>2, <2>3, <3>3, <3>4, <3>5 DEF new
  <2>4. CASE p.sub # Nil
    <3>1. Parted(b) /\ p.sub \in SubsOf(b)
      BY <1>7, <2>4 DEF PathResolves, Parted, WholeExtension
    <3>2. \A a \in Attrs : ~Wholly(p, a)
      BY <2>2, <2>4
    <3>3. \A a \in Attrs : {s \in SubsOf(a) : Parted(a) /\ p = Path(a, s)} = IF a = b THEN {p.sub} ELSE {}
      BY <1>1, <3>1
    <3>4. CASE index[b].whole
      <4>1. new = index
        BY <1>7, <2>4, <3>4 DEF Indexed
      <4> HIDE DEF new, b
      <4> QED BY <1>4, <3>2, <3>3, <3>4, <4>1 DEF new
    <3>5. CASE ~index[b].whole
      <4> DEFINE part == [whole |-> FALSE, subs |-> index[b].subs \cup {p.sub}]
      <4>1. new = [index EXCEPT ![b] = part]
        BY <1>7, <2>4, <3>5 DEF Indexed
      <4>2. part \in [whole : BOOLEAN, subs : SUBSET Subs]
        BY <1>2, <1>4, <2>1, <3>1
      <4>3. part.whole = FALSE /\ part.subs = index[b].subs \cup {p.sub}
        OBVIOUS
      <4> HIDE DEF new, b, part
      <4>4. \A a \in Attrs : new[a] = IF a = b THEN part ELSE index[a]
        BY <1>4, <2>1, <4>1
      <4>5. new \in Indexes
        BY <2>1, <4>1, <4>2 DEF Indexes
      <4> QED BY <1>4, <3>2, <3>3, <3>5, <4>3, <4>4, <4>5 DEF new
    <3> QED BY <3>4, <3>5
  <2> QED BY <2>3, <2>4
<1> QED BY <1>5, <1>6, <1>7

(* The index of a list of paths, one path after another.                   *)
IndexSteps(n, paths) == [k \in 1..n |-> [index \in Indexes |-> Indexed(index, paths[k])]]

LEMMA IndexRuns ==
  ASSUME NEW n \in Nat, NEW paths \in Seq(NamedPaths), n = Len(paths)
  PROVE  \E f : IsRun(f, n, Indexes, [a \in Attrs |-> Unlisted], IndexSteps(n, paths)) /\ f[n] = IndexPaths(paths)
<1> DEFINE g == IndexSteps(n, paths)
           none == [a \in Attrs |-> Unlisted]
           Solves(iter) == iter = [s \in SUBSET (DOMAIN paths) |->
                             IF s = {} THEN none ELSE Indexed(iter[s \ {Max(s)}], paths[Max(s)])]
           iter == CHOOSE iter : Solves(iter)
<1>1. IndexPaths(paths) = iter[DOMAIN paths]
  BY DEF IndexPaths, FoldLeft, MapThenFoldSet
<1>2. DOMAIN paths = 1..n /\ \A k \in 1..n : paths[k] \in NamedPaths
  OBVIOUS
<1>3. ASSUME NEW k \in 1..n, NEW index \in Indexes
      PROVE  g[k][index] = Indexed(index, paths[k]) /\ g[k][index] \in Indexes
  <2>1. g[k][index] = Indexed(index, paths[k])
    BY DEF IndexSteps
  <2> HIDE DEF g
  <2> QED BY <1>2, <2>1, IndexedIs
<1>4. g \in Steps(n, Indexes)
  <2>1. \A k \in 1..n : g[k] = [index \in Indexes |-> g[k][index]]
    BY DEF IndexSteps
  <2>2. g = [k \in 1..n |-> g[k]]
    BY DEF IndexSteps
  <2> HIDE DEF g
  <2>3. \A k \in 1..n : g[k] \in [Indexes -> Indexes]
    BY <2>1, <1>3
  <2> QED BY <2>2, <2>3 DEF Steps
<1>5. none \in Indexes
  BY DEF Indexes, Unlisted
<1>6. PICK h : IsFold(h, n, Indexes, none, g)
  <2> HIDE DEF g, none
  <2> QED BY <1>4, <1>5, FoldExists
<1>7. /\ h \in [SUBSET (1..n) -> Indexes]
      /\ h[{}] = none
      /\ \A s \in SUBSET (1..n) : s # {} => h[s] = g[Max(s)][h[s \ {Max(s)}]]
  BY <1>6 DEF IsFold
<1>8. Solves(h)
  <2>1. ASSUME NEW s \in SUBSET (1..n), s # {}
        PROVE  h[s] = Indexed(h[s \ {Max(s)}], paths[Max(s)])
    <3>1. Max(s) \in s
      BY <2>1, LargestOf
    <3>2. Max(s) \in 1..n /\ s \ {Max(s)} \in SUBSET (1..n)
      BY <3>1
    <3>3. h[s \ {Max(s)}] \in Indexes
      BY <1>7, <3>2
    <3>4. h[s] = g[Max(s)][h[s \ {Max(s)}]]
      BY <1>7, <2>1
    <3> HIDE DEF g
    <3> QED BY <3>2, <3>3, <3>4, <1>3
  <2>2. h = [s \in SUBSET (1..n) |-> h[s]]
    BY <1>7
  <2> HIDE DEF g, none
  <2> QED BY <1>2, <1>7, <2>1, <2>2
<1>9. Solves(iter)
  <2> HIDE DEF Solves
  <2> QED BY <1>8
<1>10. \A s \in SUBSET (1..n) :
         iter[s] = IF s = {} THEN none ELSE Indexed(iter[s \ {Max(s)}], paths[Max(s)])
  <2> HIDE DEF iter, none
  <2> QED BY <1>2, <1>9
<1>11. iter[{}] = none
  <2> HIDE DEF iter, none
  <2> QED BY <1>10
<1>12. ASSUME NEW k \in 1..n, iter[1..(k - 1)] \in Indexes
       PROVE  iter[1..k] = g[k][iter[1..(k - 1)]]
  <2>1. /\ 1..k \in SUBSET (1..n) /\ 1..k # {}
        /\ Max(1..k) = k /\ (1..k) \ {Max(1..k)} = 1..(k - 1)
    BY LargestOfFirst
  <2>2. g[k][iter[1..(k - 1)]] = Indexed(iter[1..(k - 1)], paths[k])
    <3> HIDE DEF iter, g
    <3> QED BY <1>3, <1>12
  <2> HIDE DEF iter, g, none
  <2> QED BY <2>1, <2>2, <1>10
<1>13. PICK f : IsRun(f, n, Indexes, none, g) /\ f[n] = iter[1..n]
  <2> HIDE DEF iter, g, none
  <2> QED BY <1>4, <1>5, <1>11, <1>12, FoldRuns
<1> HIDE DEF iter
<1> QED BY <1>1, <1>2, <1>13

(* What a list of paths names of an attribute does not depend on the order *)
(* in which it names it (indexPaths).                                      *)
LEMMA IndexIs ==
  ASSUME NEW paths \in Seq(NamedPaths), NEW a \in Attrs
  PROVE  LET index == IndexPaths(paths)[a]
         IN  /\ index.whole <=> \E i \in DOMAIN paths : Wholly(paths[i], a)
             /\ ~index.whole => index.subs = {s \in SubsOf(a) : Parted(a) /\ \E i \in DOMAIN paths : paths[i] = Path(a, s)}
<1> DEFINE n == Len(paths)
           Wholes(k) == \E i \in 1..k : Wholly(paths[i], a)
           Parts(k) == {s \in SubsOf(a) : Parted(a) /\ \E i \in 1..k : paths[i] = Path(a, s)}
<1>1. n \in Nat /\ DOMAIN paths = 1..n /\ \A k \in 1..n : paths[k] \in NamedPaths
  OBVIOUS
<1>2. PICK f : /\ IsRun(f, n, Indexes, [b \in Attrs |-> Unlisted], IndexSteps(n, paths))
               /\ f[n] = IndexPaths(paths)
  <2> HIDE DEF n
  <2> QED BY <1>1, IndexRuns DEF n
<1>3. /\ f \in [0..n -> Indexes] /\ f[0] = [b \in Attrs |-> Unlisted]
      /\ \A k \in 1..n : f[k] = IndexSteps(n, paths)[k][f[k - 1]]
  BY <1>2 DEF IsRun
<1> HIDE DEF n
<1> DEFINE H == {k \in 0..n : (f[k][a].whole <=> Wholes(k)) /\ (~f[k][a].whole => f[k][a].subs = Parts(k))}
<1>4. 0 \in H
  <2>1. f[0][a] = Unlisted /\ Unlisted.whole = FALSE /\ Unlisted.subs = {}
    BY <1>3 DEF Unlisted
  <2>2. ~Wholes(0) /\ Parts(0) = {}
    OBVIOUS
  <2>3. 0 \in 0..n
    BY <1>1
  <2> HIDE DEF Wholes, Parts
  <2>4. ~f[0][a].whole /\ f[0][a].subs = {}
    BY <2>1
  <2>5. (f[0][a].whole <=> Wholes(0)) /\ (~f[0][a].whole => f[0][a].subs = Parts(0))
    BY <2>2, <2>4
  <2> QED BY <2>3, <2>5
<1>5. ASSUME NEW k \in 0..n, k \in H, k < n PROVE k + 1 \in H
  <2> DEFINE p == paths[k + 1]
  <2>1. k \in Nat /\ k + 1 \in 0..n /\ k + 1 \in 1..n /\ (k + 1) - 1 = k
    BY <1>1, <1>5
  <2>2. f[k] \in Indexes /\ p \in NamedPaths
    BY <1>1, <1>3, <2>1
  <2>3. f[k + 1] = Indexed(f[k], p)
    BY <1>3, <2>1, <2>2 DEF IndexSteps
  <2>4. \A i \in 1..(k + 1) : i \in 1..k \/ i = k + 1
    BY <2>1
  <2>5. Wholes(k + 1) <=> Wholes(k) \/ Wholly(p, a)
    BY <2>1, <2>4
  <2>6. Parts(k + 1) = Parts(k) \cup {s \in SubsOf(a) : Parted(a) /\ p = Path(a, s)}
    BY <2>1, <2>4
  <2> HIDE DEF Wholes, Parts, p
  <2>7. /\ f[k + 1][a].whole <=> f[k][a].whole \/ Wholly(p, a)
        /\ ~f[k + 1][a].whole => f[k + 1][a].subs = f[k][a].subs \cup {s \in SubsOf(a) : Parted(a) /\ p = Path(a, s)}
    <3> DEFINE index == f[k]
    <3>1. index \in Indexes
      BY <2>2
    <3> HIDE DEF index
    <3>2. /\ Indexed(index, p)[a].whole <=> index[a].whole \/ Wholly(p, a)
          /\ ~Indexed(index, p)[a].whole =>
               Indexed(index, p)[a].subs = index[a].subs \cup {s \in SubsOf(a) : Parted(a) /\ p = Path(a, s)}
      BY ONLY <2>2, <3>1, a \in Attrs, IndexedIs
    <3> QED BY ONLY <2>3, <3>2 DEF index
  <2>8. (f[k][a].whole <=> Wholes(k)) /\ (~f[k][a].whole => f[k][a].subs = Parts(k))
    BY <1>5
  <2> QED BY <2>1, <2>5, <2>6, <2>7, <2>8
<1>6. n \in H
  <2>1. 0..n \subseteq H
    <3> HIDE DEF H
    <3> QED BY <1>1, <1>4, <1>5, UpTo
  <2> HIDE DEF H
  <2> QED BY <1>1, <2>1
<1> QED BY <1>1, <1>2, <1>6


LEMMA NamesAre ==
  ASSUME NEW paths \in Seq(NamedPaths), NEW a \in Attrs, NEW s \in SubsOf(a)
  PROVE  Names(paths, a, s) <=> IndexPaths(paths)[a].whole \/ s \in IndexPaths(paths)[a].subs
<1> DEFINE index == IndexPaths(paths)[a]
<1>1. /\ index.whole <=> \E i \in DOMAIN paths : Wholly(paths[i], a)
      /\ ~index.whole => index.subs = {t \in SubsOf(a) : Parted(a) /\ \E i \in DOMAIN paths : paths[i] = Path(a, t)}
  BY IndexIs
<1>2. DOMAIN paths = 1..Len(paths)
  OBVIOUS
<1>3. \A p : Contains(paths, p) <=> \E i \in DOMAIN paths : paths[i] = p
  BY <1>2 DEF Contains
<1>4. (\E i \in DOMAIN paths : Wholly(paths[i], a)) <=>
        Contains(paths, Path(a, Nil)) \/ (Schema[a].ext /\ Contains(paths, WholeExtension))
  BY <1>3 DEF Wholly, Extension
<1> HIDE DEF index
<1>5. ~index.whole => (s \in index.subs <=> Parted(a) /\ Contains(paths, Path(a, s)))
  BY <1>1, <1>3
<1> QED BY <1>1, <1>4, <1>5 DEF Names, Parted, index

ShownAs == [attributes : Seq(NamedPaths), excluded : Seq(NamedPaths)]

(* What the query's paths select is what they make visible (selection).    *)
LEMMA SelectionIs ==
  ASSUME NEW a \in Attrs, NEW s \in SubsOf(a), shown \in ShownAs
  PROVE  s \in Selection(a, shown.attributes, shown.excluded) /\ <<a, s>> \notin HiddenSubs <=> Visible(a, s)
<1> DEFINE only == IndexPaths(shown.attributes)[a]
           drop == IndexPaths(shown.excluded)[a]
           sel == Selection(a, shown.attributes, shown.excluded)
<1>1. shown.attributes \in Seq(NamedPaths) /\ shown.excluded \in Seq(NamedPaths)
  BY DEF ShownAs
<1>2. /\ Names(shown.attributes, a, s) <=> only.whole \/ s \in only.subs
      /\ Names(shown.excluded, a, s) <=> drop.whole \/ s \in drop.subs
  BY <1>1, NamesAre
<1>3. s \in Subs /\ Returned[a] \in {"always", "default", "request", "never"}
  BY SchemaFacts, CodecAssumption
<1>4. sel = CASE Returned[a] = "never"  -> {}
              [] Returned[a] = "always" -> Subs
              [] Returned[a] \in {"default", "request"} /\ shown.attributes # <<>> ->
                   IF only.whole THEN Subs ELSE only.subs
              [] Returned[a] = "request" /\ shown.attributes = <<>> -> {}
              [] Returned[a] = "default" /\ shown.attributes = <<>> -> IF drop.whole THEN {} ELSE Subs \ drop.subs
  BY DEF Selection
<1> HIDE DEF sel, only, drop
<1>5. CASE Returned[a] = "never"
  <2>1. sel = {}
    BY <1>4, <1>5
  <2> QED BY <2>1, <1>5 DEF Visible, sel
<1>6. CASE Returned[a] = "always"
  <2>1. sel = Subs
    BY <1>4, <1>6
  <2> QED BY <2>1, <1>3, <1>6 DEF Visible, sel
<1>7. CASE Returned[a] \in {"default", "request"} /\ shown.attributes # <<>>
  <2>1. sel = IF only.whole THEN Subs ELSE only.subs
    BY <1>4, <1>7
  <2>2. Visible(a, s) <=> <<a, s>> \notin HiddenSubs /\ Names(shown.attributes, a, s)
    BY <1>7 DEF Visible
  <2>3. s \in sel <=> Names(shown.attributes, a, s)
    BY <2>1, <1>2, <1>3
  <2> QED BY <2>2, <2>3 DEF sel
<1>8. CASE Returned[a] = "request" /\ shown.attributes = <<>>
  <2>1. sel = {}
    BY <1>4, <1>8
  <2> QED BY <2>1, <1>8 DEF Visible, sel
<1>9. CASE Returned[a] = "default" /\ shown.attributes = <<>>
  <2>1. sel = IF drop.whole THEN {} ELSE Subs \ drop.subs
    BY <1>4, <1>9
  <2>2. Visible(a, s) <=> <<a, s>> \notin HiddenSubs /\ ~Names(shown.excluded, a, s)
    BY <1>9 DEF Visible
  <2>3. s \in sel <=> ~Names(shown.excluded, a, s)
    BY <2>1, <1>2, <1>3
  <2> QED BY <2>2, <2>3 DEF sel
<1> QED BY <1>3, <1>5, <1>6, <1>7, <1>8, <1>9

-----------------------------------------------------------------------------
(* An element as it is sent, and the part of it that is to be seen.        *)
AsSent(a, kept, e) ==
  [s \in Subs |-> IF s \in kept /\ <<a, s>> \notin HiddenSubs /\ e[s] # Nil
                  THEN Wire[Schema[a].subs[s].type][e[s]] ELSE Nil]

PartOf(a, e) == [s \in Subs |-> IF Visible(a, s) THEN e[s] ELSE Nil]

(* What is sent of an element is read as the part of it to be seen.        *)
LEMMA SentReadsBack ==
  ASSUME NEW a \in Attrs, shown \in ShownAs, NEW e, Fits(a, e),
         NEW kept, kept = Selection(a, shown.attributes, shown.excluded)
  PROVE  /\ CoerceMembers(a, AsSent(a, kept, e)) = PartOf(a, e)
         /\ AsSent(a, kept, e) = NoSubs <=> PartOf(a, e) = NoSubs
         /\ PartOf(a, e) \in Elem
         /\ PartOf(a, e) # NoSubs => Fits(a, PartOf(a, e))
         /\ PartOf(a, e)["primary"] = True => e["primary"] = True
<1> DEFINE sent == AsSent(a, kept, e)
           part == PartOf(a, e)
<1>1. /\ \A s \in Subs : sent[s] = IF s \in kept /\ <<a, s>> \notin HiddenSubs /\ e[s] # Nil
                                   THEN Wire[Schema[a].subs[s].type][e[s]] ELSE Nil
      /\ sent = [s \in Subs |-> sent[s]]
  BY DEF AsSent
<1>2. /\ \A s \in Subs : part[s] = IF Visible(a, s) THEN e[s] ELSE Nil
      /\ part = [s \in Subs |-> part[s]]
  BY DEF PartOf
<1>3. /\ e \in Elem
      /\ \A s \in Subs : e[s] \in Scalars \cup {Nil}
      /\ \A s \in Subs : e[s] # Nil => s \in SubsOf(a) /\ \E x \in Scalars : e[s] = Convert[Schema[a].subs[s].type][x]
  BY DEF Fits, Elem
<1>4. /\ SubsOf(a) \subseteq Subs
      /\ \A s \in SubsOf(a) : Schema[a].subs[s].type \in Types
      /\ Nil \notin Scalars /\ Null \notin Scalars /\ Bad \notin Scalars
  BY SchemaFacts, DataAssumption
<1> HIDE DEF sent, part
<1>5. ASSUME NEW s \in Subs
      PROVE  /\ IF s \in SubsOf(a) THEN CoerceScalar(a, s, sent[s]) = part[s] ELSE part[s] = Nil
             /\ sent[s] = Nil <=> part[s] = Nil
  <2>1. CASE e[s] = Nil
    <3>1. sent[s] = Nil /\ part[s] = Nil
      BY <1>1, <1>2, <2>1
    <3> QED BY <3>1 DEF CoerceScalar
  <2>2. CASE e[s] # Nil
    <3> DEFINE t == Schema[a].subs[s].type
    <3>1. s \in SubsOf(a) /\ t \in Types /\ e[s] \in Scalars
      BY <1>3, <1>4, <2>2
    <3>2. PICK x \in Scalars : e[s] = Convert[t][x]
      BY <1>3, <2>2
    <3> HIDE DEF t
    <3>3. Wire[t][e[s]] \in Scalars /\ Convert[t][Wire[t][e[s]]] = e[s]
      BY <1>4, <3>1, <3>2, CodecAssumption
    <3>4. s \in kept /\ <<a, s>> \notin HiddenSubs <=> Visible(a, s)
      <4>1. s \in Selection(a, shown.attributes, shown.excluded) /\ <<a, s>> \notin HiddenSubs <=> Visible(a, s)
        BY ONLY <3>1, a \in Attrs, shown \in ShownAs, SelectionIs
      <4> QED BY <4>1
    <3>5. CASE Visible(a, s)
      <4>1. sent[s] = Wire[t][e[s]]
        <5>1. sent[s] = IF s \in kept /\ <<a, s>> \notin HiddenSubs /\ e[s] # Nil
                        THEN Wire[Schema[a].subs[s].type][e[s]] ELSE Nil
          BY ONLY <1>1, s \in Subs
        <5> QED BY ONLY <5>1, <2>2, <3>4, <3>5 DEF t
      <4>3. part[s] = e[s]
        <5>1. part[s] = IF Visible(a, s) THEN e[s] ELSE Nil
          BY ONLY <1>2, s \in Subs
        <5> QED BY ONLY <5>1, <3>5
      <4>2. CoerceScalar(a, s, sent[s]) = Convert[t][Wire[t][e[s]]]
        BY <1>4, <3>3, <4>1 DEF CoerceScalar, t
      <4> QED BY <1>4, <2>2, <3>1, <3>3, <4>1, <4>2, <4>3
    <3>6. CASE ~Visible(a, s)
      <4>1. sent[s] = Nil /\ part[s] = Nil
        BY <1>1, <1>2, <3>4, <3>6
      <4> QED BY <3>1, <4>1 DEF CoerceScalar
    <3> QED BY <3>5, <3>6
  <2> QED BY <2>1, <2>2
<1>6. CoerceMembers(a, sent) = part
  <2>1. CoerceMembers(a, sent) = [s \in Subs |-> IF s \in SubsOf(a) THEN CoerceScalar(a, s, sent[s]) ELSE Nil]
    BY DEF CoerceMembers
  <2> QED BY <2>1, <1>2, <1>5
<1>7. sent = NoSubs <=> part = NoSubs
  <2>1. sent = NoSubs <=> \A s \in Subs : sent[s] = Nil
    BY <1>1 DEF NoSubs
  <2>2. part = NoSubs <=> \A s \in Subs : part[s] = Nil
    BY <1>2 DEF NoSubs
  <2> QED BY <2>1, <2>2, <1>5
<1>8. \A s \in Subs : part[s] = e[s] \/ part[s] = Nil
  BY <1>2
<1>9. part \in Elem
  BY <1>2, <1>3, <1>8 DEF Elem
<1>10. part # NoSubs => Fits(a, part)
  BY <1>3, <1>8, <1>9 DEF Fits
<1>11. part["primary"] = True => e["primary"] = True
  BY <1>8, Truth, DataAssumption
<1> QED BY <1>6, <1>7, <1>9, <1>10, <1>11 DEF sent, part

LEMMA SentMembers ==
  ASSUME NEW a \in Attrs, NEW e, Fits(a, e), NEW kept, NEW s \in Subs
  PROVE  /\ AsSent(a, kept, e)[s] \in Scalars \cup {Nil}
         /\ s \notin SubsOf(a) => AsSent(a, kept, e)[s] = Nil
<1>1. AsSent(a, kept, e)[s] = IF s \in kept /\ <<a, s>> \notin HiddenSubs /\ e[s] # Nil
                              THEN Wire[Schema[a].subs[s].type][e[s]] ELSE Nil
  BY DEF AsSent
<1>2. CASE e[s] = Nil
  BY <1>1, <1>2
<1>3. CASE e[s] # Nil
  <2> DEFINE t == Schema[a].subs[s].type
  <2>1. s \in SubsOf(a) /\ e[s] \in Scalars /\ \E x \in Scalars : e[s] = Convert[t][x]
    BY <1>3 DEF Fits, Elem
  <2>2. t \in Types
    BY <2>1, SchemaFacts
  <2>3. PICK x \in Scalars : e[s] = Convert[t][x]
    BY <2>1
  <2>4. e[s] # Bad
    BY <2>1, DataAssumption
  <2> HIDE DEF t
  <2>5. Wire[t][e[s]] \in Scalars
    BY <2>2, <2>3, <2>4, CodecAssumption
  <2> QED BY <1>1, <2>1, <2>5 DEF t
<1> QED BY <1>2, <1>3

-----------------------------------------------------------------------------
(* An attribute as it is sent, and the part of it that is to be seen, have *)
(* their elements from the same places.                                    *)
LEMMA AttributeSent ==
  ASSUME NEW a \in Attrs, shown \in ShownAs, resource.res[a] \in Good(a),
         NEW enc, enc = Encoded(a, resource.res[a], Selection(a, shown.attributes, shown.excluded))
  PROVE  /\ VisiblePart(a) \in Good(a)
         /\ DOMAIN enc = DOMAIN VisiblePart(a)
         /\ enc = <<>> <=> VisiblePart(a) = <<>>
         /\ \A j \in DOMAIN enc : \E i \in DOMAIN resource.res[a] :
              /\ enc[j] = AsSent(a, Selection(a, shown.attributes, shown.excluded), resource.res[a][i])
              /\ enc[j] # NoSubs
              /\ VisiblePart(a)[j] = PartOf(a, resource.res[a][i])
<1> DEFINE stored == resource.res[a]
           kept == Selection(a, shown.attributes, shown.excluded)
           n == Len(stored)
           sents == [i \in DOMAIN stored |-> AsSent(a, kept, stored[i])]
           parts == [i \in DOMAIN stored |-> PartOf(a, stored[i])]
           places == {i \in DOMAIN sents : sents[i] # NoSubs}
           seen == VisiblePart(a)
<1>1. enc = Selected(sents, places)
  BY ONLY enc = Encoded(a, resource.res[a], Selection(a, shown.attributes, shown.excluded))
     DEF Encoded, AsSent, WithoutEmpty
<1>2. seen = Selected(parts, {i \in DOMAIN parts : parts[i] # NoSubs})
  BY DEF VisiblePart, PartOf, WithoutEmpty
<1>3. /\ stored \in Seq(Elem) /\ n \in Nat /\ DOMAIN stored = 1..n
      /\ \A i \in 1..n : Fits(a, stored[i])
      /\ ~Multi(a) => n <= 1
      /\ \A i, j \in Primaries(stored) : i = j
  <2> HIDE DEF stored
  <2>1. stored \in Seq(Elem)
    BY DEF Good, stored
  <2> QED BY <2>1, GoodIs DEF stored
<1>4. /\ DOMAIN sents = 1..n /\ DOMAIN parts = 1..n
      /\ \A i \in 1..n : sents[i] = AsSent(a, kept, stored[i]) /\ parts[i] = PartOf(a, stored[i])
      /\ parts = [i \in 1..n |-> parts[i]] /\ sents = [i \in 1..n |-> sents[i]]
  <2> HIDE DEF stored, kept, n
  <2> QED BY <1>3
<1>5. places = {i \in 1..n : sents[i] # NoSubs}
  BY <1>4
<1>6. kept = Selection(a, shown.attributes, shown.excluded)
  OBVIOUS
<1> HIDE DEF stored, kept, n, sents, parts, places, seen
<1>7. \A i \in 1..n : /\ sents[i] = NoSubs <=> parts[i] = NoSubs
                      /\ parts[i] \in Elem
                      /\ parts[i] # NoSubs => Fits(a, parts[i])
                      /\ parts[i]["primary"] = True => stored[i]["primary"] = True
  BY <1>3, <1>4, <1>6, SentReadsBack
<1>8. {i \in DOMAIN parts : parts[i] # NoSubs} = places
  BY <1>4, <1>5, <1>7
<1>9. seen = Selected(parts, places)
  BY <1>2, <1>8
<1>10. /\ Len(enc) \in Nat /\ DOMAIN enc = 1..Len(enc) /\ DOMAIN seen = 1..Len(enc)
       /\ \A j \in 1..Len(enc) : \E i \in 1..n : i \in places /\ enc[j] = sents[i] /\ seen[j] = parts[i]
  <2>1. n \in Nat /\ DOMAIN sents = 1..n /\ DOMAIN parts = 1..n
    BY <1>3, <1>4
  <2> DEFINE sel == Selected(sents, places)
             shows == Selected(parts, places)
  <2>2. /\ Len(sel) \in Nat /\ DOMAIN sel = 1..Len(sel) /\ DOMAIN shows = 1..Len(sel)
        /\ \A j \in 1..Len(sel) : \E i \in 1..n : i \in places /\ sel[j] = sents[i] /\ shows[j] = parts[i]
    BY ONLY <2>1, SelectedTogether, SMTT(60)
  <2>3. enc = sel /\ seen = shows
    BY <1>1, <1>9
  <2> HIDE DEF sel, shows
  <2> QED BY ONLY <2>2, <2>3
<1>11. parts \in Seq(Elem) /\ Len(parts) = n
  <2>1. \A i \in 1..n : parts[i] \in Elem
    BY <1>7
  <2>2. n \in Nat /\ parts = [i \in 1..n |-> parts[i]]
    BY <1>3, <1>4
  <2>3. parts \in [1..n -> Elem]
    BY <2>1, <2>2
  <2> QED BY <2>2, <2>3
<1>12. \A i, j \in Primaries(parts) : i = j
  <2>1. Primaries(parts) \subseteq Primaries(stored)
    BY <1>3, <1>4, <1>7 DEF Primaries, True
  <2> QED BY <2>1, <1>3
<1>13. seen \in Good(a)
  <2>1. \A i \in DOMAIN parts : i \in places => Fits(a, parts[i])
    BY <1>4, <1>5, <1>7
  <2> QED BY <1>3, <1>9, <1>11, <1>12, <2>1, SelectionGood
<1>14. enc \in Seq(ValuesOf(sents, n))
  <2>1. sents \in Seq(ValuesOf(sents, n))
    BY <1>3, <1>4 DEF ValuesOf
  <2> QED BY <1>1, <2>1, SelectedIs
<1>15. seen \in Seq(Elem)
  BY <1>13 DEF Good
<1>16. enc = <<>> <=> seen = <<>>
  BY <1>10, <1>14, <1>15
<1> QED BY <1>3, <1>4, <1>5, <1>10, <1>13, <1>16 DEF stored, kept, seen

(* Sent back, an attribute is read as its part to be seen.                 *)
LEMMA AttributeReadsBack ==
  ASSUME NEW a \in Attrs, shown \in ShownAs, resource.res[a] \in Good(a),
         view.at[a] = Encoded(a, resource.res[a], Selection(a, shown.attributes, shown.excluded))
  PROVE  /\ view.at[a] = <<>> <=> VisiblePart(a) = <<>>
         /\ VisiblePart(a) # Bad
         /\ view.at[a] # <<>> => /\ Coerce(a, SentBack(a)) = VisiblePart(a)
                                 /\ SentBack(a) \in RawValue
<1> DEFINE enc == view.at[a]
           seen == VisiblePart(a)
           stored == resource.res[a]
           kept == Selection(a, shown.attributes, shown.excluded)
           form == IF Schema[a].complex THEN "object" ELSE "scalar"
           v == SentBack(a)
<1>1. /\ seen \in Good(a) /\ DOMAIN enc = DOMAIN seen /\ (enc = <<>> <=> seen = <<>>)
      /\ \A j \in DOMAIN enc : \E i \in DOMAIN stored :
           enc[j] = AsSent(a, kept, stored[i]) /\ enc[j] # NoSubs /\ seen[j] = PartOf(a, stored[i])
  BY AttributeSent
<1>2. seen \in Seq(Elem) /\ Len(seen) \in Nat /\ DOMAIN seen = 1..Len(seen) /\ (~Multi(a) => Len(seen) <= 1)
  BY <1>1, GoodIs DEF Good
<1>3. seen # Bad
  BY <1>2, ViewAssumption DEF Elem
<1>4. \A i \in DOMAIN stored : Fits(a, stored[i])
  BY GoodIs DEF Good
<1>5. /\ v.list = Schema[a].multi /\ DOMAIN v.elems = DOMAIN enc
      /\ \A j \in DOMAIN enc : v.elems[j] = [form |-> form, at |-> enc[j]]
      /\ \A j \in DOMAIN enc : v.elems[j].form = form /\ v.elems[j].at = enc[j]
  BY DEF SentBack
<1>10. /\ v.elems = [j \in DOMAIN enc |-> v.elems[j]]
       /\ v = [list |-> v.list, elems |-> v.elems]
  BY DEF SentBack
<1>6. kept = Selection(a, shown.attributes, shown.excluded)
  OBVIOUS
<1>7. form \in {"object", "scalar"} /\ (form = "object" <=> Schema[a].complex) /\ Schema[a].multi \in BOOLEAN
  <2>1. Schema[a] \in Characteristics
    BY DataAssumption
  <2>2. Schema[a].multi \in BOOLEAN
    BY <2>1 DEF Characteristics
  <2> QED BY <2>2
<1> HIDE DEF enc, seen, stored, kept, v, form
<1>8. ASSUME NEW j \in DOMAIN enc
      PROVE  /\ CoerceMembers(a, enc[j]) = seen[j]
             /\ [form |-> form, at |-> enc[j]] \in RawElem
  <2>1. PICK i \in DOMAIN stored :
          enc[j] = AsSent(a, kept, stored[i]) /\ enc[j] # NoSubs /\ seen[j] = PartOf(a, stored[i])
    BY <1>1
  <2>2. CoerceMembers(a, enc[j]) = seen[j]
    <3> DEFINE e == stored[i]
    <3>1. Fits(a, e)
      BY ONLY <1>4, i \in DOMAIN stored
    <3> HIDE DEF e
    <3>2. CoerceMembers(a, AsSent(a, kept, e)) = PartOf(a, e)
      BY ONLY <1>6, <3>1, a \in Attrs, shown \in ShownAs, SentReadsBack
    <3> QED BY ONLY <2>1, <3>2 DEF e
  <2>3. \A s \in Subs : enc[j][s] \in Scalars \cup {Nil} /\ (s \notin SubsOf(a) => enc[j][s] = Nil)
    <3>1. Fits(a, stored[i])
      BY ONLY <1>4, i \in DOMAIN stored
    <3> QED BY ONLY <2>1, <3>1, a \in Attrs, SentMembers
  <2>4. enc[j] = [s \in Subs |-> enc[j][s]]
    BY <2>1 DEF AsSent
  <2>5. enc[j] \in [Subs -> Scalars \cup {Nil, Null}]
    BY <2>3, <2>4
  <2>6. CASE form = "scalar"
    <3>1. SubsOf(a) = {"value"} /\ "value" \in Subs
      BY <1>7, <2>6, SchemaFacts, DataAssumption
    <3>2. \A s \in Subs \ {"value"} : enc[j][s] = Nil
      BY <2>3, <3>1
    <3>3. enc[j]["value"] # Nil
      <4>1. SUFFICES ASSUME enc[j]["value"] = Nil PROVE FALSE
        OBVIOUS
      <4>2. \A s \in Subs : enc[j][s] = Nil
        BY <3>2, <4>1
      <4> QED BY <2>1, <2>4, <4>2 DEF NoSubs
    <3>4. enc[j]["value"] \in Scalars
      BY <2>3, <3>1, <3>3
    <3> QED BY <2>2, <2>5, <2>6, <3>2, <3>4 DEF RawElem
  <2>7. CASE form = "object"
    BY <2>2, <2>5, <2>7 DEF RawElem
  <2> QED BY <1>7, <2>6, <2>7
<1>9. ASSUME enc # <<>> PROVE Coerce(a, v) = seen /\ v \in RawValue
  <2>1. Len(seen) >= 1 /\ 1 \in DOMAIN enc
    BY <1>1, <1>2, <1>9
  <2>2. \A j \in DOMAIN enc : v.elems[j].form = form /\ v.elems[j].at = enc[j]
    BY <1>5
  <2>3. ~IsNull(v)
    BY <1>7, <2>1, <2>2 DEF IsNull
  <2>4. \A j \in DOMAIN v.elems : FitsShape(a, v.elems[j])
    BY <1>5, <1>7, <2>2 DEF FitsShape
  <2> DEFINE ats == [i \in DOMAIN v.elems |-> v.elems[i].at]
  <2>5. Coerce(a, v) = CoerceElems(a, ats)
    BY <1>5, <2>3, <2>4 DEF Coerce
  <2>6. DOMAIN ats = DOMAIN seen /\ \A j \in DOMAIN seen : CoerceMembers(a, ats[j]) = seen[j]
    BY <1>1, <1>5, <1>8, <2>2
  <2> HIDE DEF ats
  <2>7. CoerceElems(a, ats) = seen
    BY <1>1, <2>6, ElemsSame
  <2>8. v.elems \in Seq(RawElem) /\ Len(v.elems) = Len(seen)
    <3>1. \A j \in DOMAIN enc : v.elems[j] \in RawElem
      BY <1>5, <1>8
    <3>2. DOMAIN enc = 1..Len(seen) /\ Len(seen) \in Nat
      BY <1>1, <1>2
    <3>3. v.elems \in [1..Len(seen) -> RawElem]
      BY <1>10, <3>1, <3>2
    <3> QED BY <3>2, <3>3
  <2>9. v.list \/ Len(v.elems) = 1
    <3>1. v.list = Multi(a)
      BY <1>5 DEF Multi
    <3> QED BY <1>2, <1>7, <2>1, <2>8, <3>1
  <2>10. v \in [list : BOOLEAN, elems : Seq(RawElem)]
    <3>1. v.list \in BOOLEAN
      BY <1>5, <1>7
    <3> QED BY <1>10, <2>8, <3>1
  <2> QED BY <2>5, <2>7, <2>9, <2>10 DEF RawValue
<1> QED BY <1>1, <1>3, <1>9 DEF enc, seen, v

-----------------------------------------------------------------------------
(* Decoding.                                                               *)

(* The attributes some of the members name, each read in one of its ways,  *)
(* the others unassigned.                                                  *)
ReadIn(members, attrs, s, f) ==
  /\ f = [a \in attrs |-> f[a]]
  /\ \A a \in attrs : IF a \in s THEN f[a] \in Readings(members, a) ELSE f[a] = <<>>

AllReadIn(fs, members, attrs, s) == \A f : f \in fs <=> ReadIn(members, attrs, s, f)

OneMore(members, x, fs) == {[f EXCEPT ![x] = v] : f \in fs, v \in Readings(members, x)}

LEMMA OneMoreRead ==
  ASSUME NEW members, NEW attrs, NEW s, NEW x \in attrs, x \in s, NEW old,
         AllReadIn(old, members, attrs, s \ {x})
  PROVE  AllReadIn(OneMore(members, x, old), members, attrs, s)
<1> DEFINE new == OneMore(members, x, old)
<1>3. \A f : f \in old <=> ReadIn(members, attrs, s \ {x}, f)
  BY DEF AllReadIn
<1>4. \A f : f \in new <=> \E g \in old, v \in Readings(members, x) : f = [g EXCEPT ![x] = v]
  BY DEF OneMore
<1> HIDE DEF new
<1>1. ASSUME NEW f, f \in new PROVE ReadIn(members, attrs, s, f)
  <2>1. PICK g \in old, v \in Readings(members, x) : f = [g EXCEPT ![x] = v]
    BY <1>1, <1>4
  <2>2. /\ g = [a \in attrs |-> g[a]]
        /\ \A a \in attrs : IF a \in s \ {x} THEN g[a] \in Readings(members, a) ELSE g[a] = <<>>
    BY <1>3, <2>1 DEF ReadIn
  <2>3. DOMAIN g = attrs
    BY <2>2
  <2>4. f = [a \in attrs |-> IF a = x THEN v ELSE g[a]]
    BY <2>1, <2>3
  <2>5. f = [a \in attrs |-> f[a]] /\ f[x] = v /\ \A a \in attrs \ {x} : f[a] = g[a]
    BY <2>4
  <2> QED BY <2>1, <2>2, <2>5 DEF ReadIn
<1>2. ASSUME NEW f, ReadIn(members, attrs, s, f) PROVE f \in new
  <2> DEFINE g == [a \in attrs |-> IF a = x THEN <<>> ELSE f[a]]
  <2>1. /\ f = [a \in attrs |-> f[a]]
        /\ \A a \in attrs : IF a \in s THEN f[a] \in Readings(members, a) ELSE f[a] = <<>>
    BY <1>2 DEF ReadIn
  <2>2. g = [a \in attrs |-> g[a]] /\ \A a \in attrs : g[a] = IF a = x THEN <<>> ELSE f[a]
    OBVIOUS
  <2>3. f = [g EXCEPT ![x] = f[x]]
    <3>1. [g EXCEPT ![x] = f[x]] = [a \in attrs |-> IF a = x THEN f[x] ELSE g[a]]
      BY <2>2
    <3>2. \A a \in attrs : f[a] = IF a = x THEN f[x] ELSE g[a]
      BY <2>2
    <3> HIDE DEF g
    <3> QED BY <2>1, <3>1, <3>2
  <2> HIDE DEF g
  <2>4. ReadIn(members, attrs, s \ {x}, g)
    BY <2>1, <2>2 DEF ReadIn
  <2>5. g \in old /\ f[x] \in Readings(members, x)
    BY <1>3, <2>1, <2>4
  <2> QED BY <1>4, <2>3, <2>5
<1> QED BY <1>1, <1>2 DEF AllReadIn, new

(* Whatever the order of the visits, a body is read member by member into  *)
(* every assignment of one reading to each attribute (DecodeResource).     *)
LEMMA AssignmentsAre ==
  ASSUME NEW members, NEW attrs, IsFiniteSet(attrs)
  PROVE  \A f : f \in Assignments(members, attrs) <=>
                  f = [a \in attrs |-> f[a]] /\ \A a \in attrs : f[a] \in Readings(members, a)
<1> DEFINE named == {m.attr : m \in members} \cap attrs
           none == [a \in attrs |-> <<>>]
           More(x, fs) == OneMore(members, x, fs)
           Next1(s) == CHOOSE x \in s : TRUE
           Solves(iter) == iter = [s \in SUBSET named |->
                             IF s = {} THEN {none} ELSE More(Next1(s), iter[s \ {Next1(s)}])]
           iter == CHOOSE iter : Solves(iter)
           V == {<<>>} \cup UNION {Readings(members, a) : a \in attrs}
           Read(s) == {f \in [attrs -> V] : ReadIn(members, attrs, s, f)}
           h == [s \in SUBSET named |-> Read(s)]
<1>1. Assignments(members, attrs) = iter[named]
  BY DEF Assignments, FoldSet, MapThenFoldSet, OneMore
<1>2. ASSUME NEW s, NEW f PROVE f \in Read(s) <=> ReadIn(members, attrs, s, f)
  <2>1. ASSUME ReadIn(members, attrs, s, f) PROVE f \in [attrs -> V]
    <3>1. f = [a \in attrs |-> f[a]] /\ \A a \in attrs : f[a] \in V
      BY <2>1 DEF ReadIn
    <3> HIDE DEF V
    <3> QED BY <3>1
  <2> HIDE DEF V
  <2> QED BY <2>1
<1>3. ASSUME NEW s \in SUBSET named, s # {} PROVE Next1(s) \in s /\ Next1(s) \in attrs /\ s \ {Next1(s)} \in SUBSET named
  <2>1. Next1(s) \in s
    BY <1>3
  <2> HIDE DEF Next1
  <2> QED BY <2>1
<1>4. named \subseteq attrs
  OBVIOUS
<1> HIDE DEF V, Read, Next1, named
<1>5. ASSUME NEW s \in SUBSET named, s # {} PROVE Read(s) = More(Next1(s), Read(s \ {Next1(s)}))
  <2> DEFINE x == Next1(s)
             old == Read(s \ {x})
             new == More(x, old)
  <2>1. x \in s /\ x \in attrs
    BY <1>3, <1>5
  <2>2. AllReadIn(old, members, attrs, s \ {x})
    BY <1>2 DEF AllReadIn
  <2>3. new = OneMore(members, x, old)
    OBVIOUS
  <2> HIDE DEF x, old, new
  <2>4. AllReadIn(new, members, attrs, s)
    BY <2>1, <2>2, <2>3, OneMoreRead
  <2>5. Read(s) = new
    BY <1>2, <2>4 DEF AllReadIn
  <2> QED BY <2>5 DEF new, old, x
<1>6. none = [a \in attrs |-> none[a]] /\ \A a \in attrs : none[a] = <<>>
  OBVIOUS
<1> HIDE DEF none
<1>7. Read({}) = {none}
  <2>1. ASSUME NEW f PROVE ReadIn(members, attrs, {}, f) <=> f = none
    <3>1. ReadIn(members, attrs, {}, none)
      BY <1>6 DEF ReadIn
    <3>2. ASSUME ReadIn(members, attrs, {}, f) PROVE f = none
      BY <1>6, <3>2 DEF ReadIn
    <3> QED BY <3>1, <3>2
  <2> QED BY <1>2, <2>1
<1> HIDE DEF More
<1>8. Solves(h)
  <2>1. \A s \in SUBSET named : h[s] = Read(s)
    OBVIOUS
  <2>2. ASSUME NEW s \in SUBSET named
        PROVE  h[s] = IF s = {} THEN {none} ELSE More(Next1(s), h[s \ {Next1(s)}])
    <3>1. CASE s = {}
      BY <1>7, <2>1, <3>1
    <3>2. CASE s # {}
      <4>1. h[s \ {Next1(s)}] = Read(s \ {Next1(s)})
        BY <1>3, <2>1, <3>2
      <4> QED BY <1>5, <2>1, <3>2, <4>1
    <3> QED BY <3>1, <3>2
  <2>3. h = [s \in SUBSET named |-> h[s]]
    OBVIOUS
  <2> HIDE DEF h
  <2> QED BY <2>2, <2>3
<1> HIDE DEF h
<1>9. Solves(iter)
  <2> HIDE DEF Solves
  <2> QED BY <1>8
<1> HIDE DEF iter
<1>10. \A s \in SUBSET named : iter[s] = IF s = {} THEN {none} ELSE More(Next1(s), iter[s \ {Next1(s)}])
  BY <1>9
<1>11. IsFiniteSet(named) /\ Cardinality(named) \in Nat
  BY <1>4, FS_Subset, FS_CardinalityType
<1> DEFINE H == {k \in 0..Cardinality(named) : \A s \in SUBSET named : Cardinality(s) = k => iter[s] = Read(s)}
<1>12. ASSUME NEW s \in SUBSET named
       PROVE  /\ IsFiniteSet(s) /\ Cardinality(s) \in Nat /\ (Cardinality(s) = 0 <=> s = {})
              /\ \A x \in s : Cardinality(s \ {x}) = Cardinality(s) - 1
  BY <1>11, FS_Subset, FS_CardinalityType, FS_EmptySet, FS_RemoveElement
<1>13. 0 \in H
  <2>1. \A s \in SUBSET named : Cardinality(s) = 0 => iter[s] = Read(s)
    BY <1>7, <1>10, <1>12
  <2> QED BY <1>11, <2>1
<1>14. ASSUME NEW k \in 0..Cardinality(named), k \in H, k < Cardinality(named) PROVE k + 1 \in H
  <2>1. ASSUME NEW s \in SUBSET named, Cardinality(s) = k + 1 PROVE iter[s] = Read(s)
    <3> DEFINE x == Next1(s)
    <3>1. s # {}
      BY <1>12, <2>1
    <3>2. x \in s /\ s \ {x} \in SUBSET named
      BY <1>3, <3>1
    <3>3. Cardinality(s \ {x}) = k
      BY <1>12, <2>1, <3>2
    <3>4. iter[s \ {x}] = Read(s \ {x})
      BY <1>14, <3>2, <3>3
    <3>5. iter[s] = More(x, iter[s \ {x}])
      BY <1>10, <3>1
    <3> QED BY <1>5, <3>1, <3>4, <3>5
  <2> QED BY <1>11, <1>14, <2>1
<1>15. iter[named] = Read(named)
  <2>1. 0..Cardinality(named) \subseteq H
    <3> HIDE DEF H
    <3> QED BY <1>11, <1>13, <1>14, UpTo
  <2>2. Cardinality(named) \in H
    <3> HIDE DEF H
    <3> QED BY <1>11, <2>1
  <2>3. named \in SUBSET named
    OBVIOUS
  <2> QED BY <2>2, <2>3
<1>16. ASSUME NEW a \in attrs, a \notin named PROVE Readings(members, a) = {<<>>}
  <2>1. {n \in members : n.attr = a} = {}
    BY <1>16 DEF named
  <2> QED BY <2>1 DEF Readings
<1>17. \A f : ReadIn(members, attrs, named, f) <=>
                f = [a \in attrs |-> f[a]] /\ \A a \in attrs : f[a] \in Readings(members, a)
  BY <1>16 DEF ReadIn
<1> QED BY <1>1, <1>2, <1>15, <1>17

(* What an attribute is read as may be stored.                             *)
LEMMA ReadingGood ==
  ASSUME NEW members, ~Mistaken(members), NEW attrs \in SUBSET Attrs, members \subseteq Members(Attrs),
         NEW a \in attrs, NEW x \in Readings(members, a)
  PROVE  x \in Good(a)
<1>1. x = <<>> \/ \E m \in members : m.attr = a /\ x = Coerce(a, m.value)
  BY DEF Readings
<1>2. CASE x = <<>>
  BY <1>2, EmptyGood
<1>3. ASSUME NEW m \in members, m.attr = a, x = Coerce(a, m.value) PROVE x \in Good(a)
  <2>1. m.value \in RawValue
    BY <1>3 DEF Members
  <2>2. Coerce(a, m.value) # Bad
    BY <1>3 DEF Mistaken
  <2> QED BY <1>3, <2>1, <2>2, Coerced
<1> QED BY <1>1, <1>2, <1>3

LEMMA ExtensionFacts ==
  /\ Extension \subseteq Attrs /\ IsFiniteSet(Extension) /\ IsFiniteSet(Attrs \ Extension)
  /\ Members(Extension) \subseteq Members(Attrs) /\ Members(Attrs \ Extension) \subseteq Members(Attrs)
<1>1. Extension \subseteq Attrs
  BY DEF Extension
<1>2. IsFiniteSet(Extension) /\ IsFiniteSet(Attrs \ Extension)
  BY <1>1, FS_Subset, CodecAssumption
<1> QED BY <1>1, <1>2 DEF Members

(* What a body is decoded to is a resource of stored values.               *)
LEMMA DecodedGood ==
  ASSUME NEW body \in JSONBodies, NEW drop \in BOOLEAN, NEW out \in DecodeResource(body, drop), out.ok
  PROVE  \A a \in Attrs : out.res[a] \in Good(a)
<1>1. Refusals(body, drop) = {}
  <2>1. ASSUME Refusals(body, drop) # {} PROVE FALSE
    <3>1. PICK e \in Refusals(body, drop) : out = [ok |-> FALSE, err |-> e]
      BY <2>1 DEF DecodeResource
    <3> QED BY <3>1
  <2> QED BY <2>1
<1>2. PICK top \in Assignments(Considered(body.top, drop), Attrs \ Extension), ext \in Containers(body, drop) :
        out = [ok |-> TRUE, res |-> Join(top, ext)]
  BY <1>1 DEF DecodeResource
<1>3. /\ body.top \subseteq Members(Attrs \ Extension)
      /\ \A b \in Boxes : body.boxes[b] = NotAnObject \/ body.boxes[b] \subseteq Members(Extension)
  BY DEF JSONBodies
<1> DEFINE objects == {b \in Boxes : body.boxes[b] # NotAnObject}
           members == body.top \cup UNION {body.boxes[b] : b \in objects}
<1>4. objects = Boxes /\ ~Mistaken(Considered(members, drop))
  <2>1. \A e \in {"invalidValue", "invalidSyntax"} :
          ~(IF e = "invalidValue" THEN Mistaken(Considered(members, drop)) ELSE objects # Boxes)
    BY <1>1 DEF Refusals
  <2> HIDE DEF objects, members
  <2> QED BY <2>1
<1>5. ASSUME NEW some, some \subseteq members
      PROVE  ~Mistaken(Considered(some, drop)) /\ Considered(some, drop) \subseteq some
  <2>1. Considered(some, drop) \subseteq Considered(members, drop) /\ Considered(some, drop) \subseteq some
    BY <1>5 DEF Considered
  <2> QED BY <1>4, <2>1 DEF Mistaken
<1>6. body.top \subseteq members /\ \A b \in Boxes : body.boxes[b] \subseteq members /\ body.boxes[b] \subseteq Members(Extension)
  BY <1>3, <1>4
<1> HIDE DEF objects, members
<1>7. \A a \in Attrs \ Extension : top[a] \in Good(a)
  <2>1. \A a \in Attrs \ Extension : top[a] \in Readings(Considered(body.top, drop), a)
    BY AssignmentsAre, ExtensionFacts
  <2>2. ~Mistaken(Considered(body.top, drop)) /\ Considered(body.top, drop) \subseteq Members(Attrs)
    BY <1>3, <1>5, <1>6, ExtensionFacts
  <2> QED BY <2>1, <2>2, ReadingGood
<1>8. ext = [a \in Extension |-> <<>>] \/ \E b \in Boxes : ext \in Assignments(Considered(body.boxes[b], drop), Extension)
  BY DEF Containers
<1>9. \A a \in Extension : ext[a] \in Good(a)
  <2>1. CASE ext = [a \in Extension |-> <<>>]
    BY <2>1, EmptyGood, ExtensionFacts
  <2>2. ASSUME NEW b \in Boxes, ext \in Assignments(Considered(body.boxes[b], drop), Extension)
        PROVE  \A a \in Extension : ext[a] \in Good(a)
    <3>1. \A a \in Extension : ext[a] \in Readings(Considered(body.boxes[b], drop), a)
      BY <2>2, AssignmentsAre, ExtensionFacts
    <3>2. /\ ~Mistaken(Considered(body.boxes[b], drop))
          /\ Considered(body.boxes[b], drop) \subseteq Members(Attrs)
      BY <1>5, <1>6, ExtensionFacts
    <3> QED BY <3>1, <3>2, ReadingGood, ExtensionFacts
  <2> QED BY <1>8, <2>1, <2>2
<1>10. out.res = [a \in Attrs |-> IF a \in Extension THEN ext[a] ELSE top[a]]
  BY <1>2 DEF Join
<1> QED BY <1>7, <1>9, <1>10

-----------------------------------------------------------------------------
(* What a response shows is what is stored of a resource some body became. *)
Shows ==
  /\ resource # Nil /\ resource.ok => \A a \in Attrs : resource.res[a] \in Good(a)
  /\ view # Nil => /\ resource # Nil /\ resource.ok /\ shown \in ShownAs
                   /\ view = EncodeResource(resource.res, shown.attributes, shown.excluded)

LEMMA ShowsAlways == ViewSpec => []Shows
<1>1. ViewInit => Shows
  BY DEF ViewInit, Shows
<1>2. Shows /\ [ViewNext]_<<resource, shown, view>> => Shows'
  <2> SUFFICES ASSUME Shows, [ViewNext]_<<resource, shown, view>> PROVE Shows'
    OBVIOUS
  <2>1. ASSUME NEW body \in Bodies, NEW drop \in BOOLEAN, ReceiveBody(body, drop) PROVE Shows'
    <3>1. body \in JSONBodies
      BY ViewAssumption
    <3>2. resource = Nil /\ resource' \in DecodeResource(body, drop) /\ shown' = shown /\ view' = view
      BY <2>1 DEF ReceiveBody
    <3>3. view' = Nil
      BY <3>2 DEF Shows
    <3>4. resource'.ok => \A a \in Attrs : resource'.res[a] \in Good(a)
      BY <3>1, <3>2, DecodedGood
    <3> QED BY <3>3, <3>4 DEF Shows
  <2>2. ASSUME NEW p \in Projections, ShowResource(p) PROVE Shows'
    <3>1. /\ resource # Nil /\ resource.ok /\ resource' = resource /\ shown' = p
          /\ view' = EncodeResource(resource.res, p.attributes, p.excluded)
      BY <2>2 DEF ShowResource
    <3>2. p \in ShownAs
      BY ViewAssumption DEF ShownAs
    <3> QED BY <3>1, <3>2 DEF Shows
  <2>3. CASE UNCHANGED <<resource, shown, view>>
    BY <2>3 DEF Shows
  <2> QED BY <2>1, <2>2, <2>3 DEF ViewNext
<1> QED BY <1>1, <1>2, PTL DEF ViewSpec

(* What is written of an attribute when a response is sent back.           *)
Back(a, drop) == IF drop /\ ReadOnly(a) THEN <<>> ELSE VisiblePart(a)

Sendable(attrs, drop) ==
  {Member(a, a, SentBack(a)) : a \in {b \in attrs : view.at[b] # <<>> /\ ~(drop /\ ReadOnly(b))}}

LEMMA ShownReadsBack ==
  ASSUME Shows, view # Nil, NEW a \in Attrs
  PROVE  /\ view.at[a] = <<>> <=> VisiblePart(a) = <<>>
         /\ VisiblePart(a) # Bad
         /\ view.at[a] # <<>> => Coerce(a, SentBack(a)) = VisiblePart(a) /\ SentBack(a) \in RawValue
<1>1. shown \in ShownAs /\ resource.res[a] \in Good(a)
      /\ view = EncodeResource(resource.res, shown.attributes, shown.excluded)
  BY DEF Shows
<1>2. view.at[a] = Encoded(a, resource.res[a], Selection(a, shown.attributes, shown.excluded))
  BY <1>1 DEF EncodeResource
<1> QED BY <1>1, <1>2, AttributeReadsBack

(* Sent back, each attribute is read in one way.                           *)
LEMMA SentBackReads ==
  ASSUME Shows, view # Nil, NEW drop \in BOOLEAN, NEW attrs \in SUBSET Attrs, NEW a \in attrs
  PROVE  Readings(Sendable(attrs, drop), a) = {Back(a, drop)}
<1> DEFINE all == Sendable(attrs, drop)
           values == {Coerce(a, m.value) : m \in {n \in all : n.attr = a}}
<1>1. /\ view.at[a] = <<>> <=> VisiblePart(a) = <<>>
      /\ view.at[a] # <<>> => Coerce(a, SentBack(a)) = VisiblePart(a)
  BY ShownReadsBack
<1>2. CASE view.at[a] # <<>> /\ ~(drop /\ ReadOnly(a))
  <2>1. {n \in all : n.attr = a} = {Member(a, a, SentBack(a))}
    BY <1>2 DEF Sendable, Member
  <2>2. values = {VisiblePart(a)}
    <3>1. Member(a, a, SentBack(a)).value = SentBack(a)
      BY DEF Member
    <3> HIDE DEF all
    <3> QED BY <1>1, <1>2, <2>1, <3>1
  <2>3. Readings(all, a) = IF values \ {<<>>} = {} THEN {<<>>} ELSE values \ {<<>>}
    BY DEF Readings
  <2>4. VisiblePart(a) # <<>> /\ Back(a, drop) = VisiblePart(a)
    BY <1>1, <1>2 DEF Back
  <2> HIDE DEF values, all
  <2> QED BY <2>2, <2>3, <2>4 DEF all
<1>3. CASE ~(view.at[a] # <<>> /\ ~(drop /\ ReadOnly(a)))
  <2>1. {n \in all : n.attr = a} = {}
    BY <1>3 DEF Sendable, Member
  <2>2. Readings(all, a) = {<<>>}
    <3> HIDE DEF all
    <3> QED BY <2>1 DEF Readings
  <2>3. Back(a, drop) = <<>>
    BY <1>1, <1>3 DEF Back
  <2> QED BY <2>2, <2>3
<1> QED BY <1>2, <1>3

LEMMA SentBackAssigned ==
  ASSUME Shows, view # Nil, NEW drop \in BOOLEAN, NEW attrs \in SUBSET Attrs
  PROVE  Assignments(Sendable(attrs, drop), attrs) = {[a \in attrs |-> Back(a, drop)]}
<1> DEFINE back == [a \in attrs |-> Back(a, drop)]
<1>1. \A a \in attrs : Readings(Sendable(attrs, drop), a) = {Back(a, drop)}
  BY SentBackReads
<1>2. IsFiniteSet(attrs)
  BY FS_Subset, CodecAssumption
<1>3. back = [a \in attrs |-> back[a]] /\ \A a \in attrs : back[a] = Back(a, drop)
  OBVIOUS
<1>4. \A f : f \in Assignments(Sendable(attrs, drop), attrs) <=>
               f = [a \in attrs |-> f[a]] /\ \A a \in attrs : f[a] \in Readings(Sendable(attrs, drop), a)
  BY <1>2, AssignmentsAre
<1> HIDE DEF back
<1>5. \A f : f \in Assignments(Sendable(attrs, drop), attrs) <=> f = [a \in attrs |-> f[a]] /\ \A a \in attrs : f[a] = back[a]
  BY <1>1, <1>3, <1>4
<1>6. ASSUME NEW f, f = [a \in attrs |-> f[a]], \A a \in attrs : f[a] = back[a] PROVE f = back
  BY <1>3, <1>6
<1>7. \A f : f \in Assignments(Sendable(attrs, drop), attrs) <=> f = back
  BY <1>3, <1>5, <1>6
<1>8. Assignments(Sendable(attrs, drop), attrs) = {back}
  BY <1>7
<1> QED BY <1>8 DEF back

(* Sent back whole, a response is taken, and writes what it may.           *)
LEMMA SentBackDecoded ==
  ASSUME Shows, view # Nil, NEW drop \in BOOLEAN
  PROVE  DecodeResource(ViewBody, drop) = {[ok |-> TRUE, res |-> [a \in Attrs |-> Back(a, drop)]]}
<1> DEFINE body == ViewBody
           box == CHOOSE b \in Boxes : TRUE
           held(attrs) == {Member(a, a, SentBack(a)) : a \in {b \in attrs : view.at[b] # <<>>}}
           top == [a \in Attrs \ Extension |-> Back(a, drop)]
           ext == [a \in Extension |-> Back(a, drop)]
           none == [a \in Extension |-> <<>>]
<1>1. body.top = held(Attrs \ Extension) /\ \A b \in Boxes : body.boxes[b] = IF b = box THEN held(Extension) ELSE {}
  BY DEF ViewBody, Body
<1>2. box \in Boxes
  BY CodecAssumption
<1>3. Extension \subseteq Attrs /\ Unknown \notin Attrs
  BY ExtensionFacts, CodecAssumption
<1>4. ASSUME NEW attrs \in SUBSET Attrs PROVE Considered(held(attrs), drop) = Sendable(attrs, drop)
  BY <1>3 DEF Considered, Sendable, Member
<1>5. held(Extension) \subseteq Members(Extension)
  <2>1. ASSUME NEW a \in Extension, view.at[a] # <<>> PROVE Member(a, a, SentBack(a)) \in Members(Extension)
    <3>1. SentBack(a) \in RawValue /\ a \in STRING
      BY <1>3, <2>1, ShownReadsBack, ViewAssumption
    <3> QED BY <3>1 DEF Member, Members
  <2> QED BY <2>1
<1>6. \A b \in Boxes : body.boxes[b] # NotAnObject
  <2>1. Bad \notin held(Extension)
    BY <1>5, ViewAssumption
  <2> HIDE DEF held, body
  <2> QED BY <1>1, <2>1 DEF NotAnObject
<1>7. body.top \cup UNION {body.boxes[b] : b \in Boxes} = held(Attrs)
  <2>1. held(Attrs) = held(Attrs \ Extension) \cup held(Extension)
    BY <1>3
  <2> HIDE DEF held, body, box
  <2> QED BY <1>1, <1>2, <2>1
<1>8. ~Mistaken(Sendable(Attrs, drop))
  <2>1. \A a \in Attrs : view.at[a] # <<>> => Coerce(a, SentBack(a)) # Bad
    BY ShownReadsBack
  <2> QED BY <2>1 DEF Mistaken, Sendable, Member
<1> HIDE DEF held, body, box
<1>9. Refusals(body, drop) = {}
  <2>1. {b \in Boxes : body.boxes[b] # NotAnObject} = Boxes
    BY <1>6
  <2>2. ~Mistaken(Considered(body.top \cup UNION {body.boxes[b] : b \in Boxes}, drop))
    BY <1>4, <1>7, <1>8
  <2> QED BY <2>1, <2>2 DEF Refusals
<1>10. Assignments(Considered(body.top, drop), Attrs \ Extension) = {top}
  BY <1>1, <1>4, SentBackAssigned
<1>11. Assignments(Considered(held(Extension), drop), Extension) = {ext}
  BY <1>3, <1>4, SentBackAssigned
<1> HIDE DEF top
<1>12. Containers(body, drop) = {ext}
  <2> DEFINE full(b) == Assignments(Considered(body.boxes[b], drop), Extension)
             filled == (UNION {full(b) : b \in {c \in Boxes : body.boxes[c] # {}}}) \ {none}
  <2>1. Containers(body, drop) = IF filled = {} THEN {none} ELSE filled
    BY DEF Containers
  <2>2. CASE held(Extension) = {}
    <3>1. \A b \in Boxes : body.boxes[b] = {}
      BY <1>1, <2>2
    <3>2. {c \in Boxes : body.boxes[c] # {}} = {}
      BY <3>1
    <3>3. filled = {}
      BY <3>2
    <3>4. \A a \in Extension : view.at[a] = <<>>
      BY <2>2 DEF held
    <3>5. \A a \in Extension : Back(a, drop) = <<>>
      BY <1>3, <3>4, ShownReadsBack DEF Back
    <3>6. ext = none
      BY <3>5
    <3> HIDE DEF filled, none, ext
    <3> QED BY <2>1, <3>3, <3>6
  <2>3. CASE held(Extension) # {}
    <3>1. {c \in Boxes : body.boxes[c] # {}} = {box}
      BY <1>1, <1>2, <2>3
    <3>2. full(box) = {ext}
      BY <1>1, <1>2, <1>11
    <3>3. filled = full(box) \ {none}
      BY <3>1
    <3> HIDE DEF filled, none, ext, full
    <3> QED BY <2>1, <3>2, <3>3
  <2> QED BY <2>2, <2>3
<1>13. Join(top, ext) = [a \in Attrs |-> Back(a, drop)]
  BY DEF Join, top
<1>14. DecodeResource(body, drop) = {[ok |-> TRUE, res |-> Join(t, e)] : t \in {top}, e \in {ext}}
  BY <1>9, <1>10, <1>12 DEF DecodeResource
<1> HIDE DEF ext
<1>15. DecodeResource(body, drop) = {[ok |-> TRUE, res |-> Join(top, ext)]}
  BY <1>14
<1> QED BY <1>13, <1>15 DEF body

(* A response shows what the query names and no more, whatever the order   *)
(* of the paths and of the visits to a body's members: a client reads the  *)
(* values the query asked for, as they are stored (EncodeResource,         *)
(* indexPaths, selection, DecodeResource).                                 *)
THEOREM ViewSafe == ViewSpec => []ViewExact
<1>1. Shows => ViewExact
  <2> SUFFICES ASSUME Shows, view # Nil
               PROVE  DecodeResource(ViewBody, FALSE) = {[ok |-> TRUE, res |-> [a \in Attrs |-> VisiblePart(a)]]}
    BY DEF ViewExact
  <2> QED BY SentBackDecoded DEF Back
<1> QED BY <1>1, ShowsAlways, PTL

(* A response sent back whole writes what the client may write and nothing *)
(* it may not, at the top level and in the extension's container           *)
(* (DropReadOnly).                                                         *)
THEOREM SendsBackSafe == ViewSpec => []SendsBackWritable
<1>1. Shows => SendsBackWritable
  <2> SUFFICES ASSUME Shows, view # Nil
               PROVE  DecodeResource(ViewBody, TRUE) =
                        {[ok |-> TRUE, res |-> [a \in Attrs |-> IF ReadOnly(a) THEN <<>> ELSE VisiblePart(a)]]}
    BY DEF SendsBackWritable
  <2> QED BY SentBackDecoded DEF Back
<1> QED BY <1>1, ShowsAlways, PTL

==============================================================================
