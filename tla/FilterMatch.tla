------------------------------ MODULE FilterMatch -----------------------------
(***************************************************************************)
(* The evaluation of a filter against a resource (filter/match.go).  A     *)
(* resource maps attributes to what AttrData stores of them.  An attribute *)
(* that is simple has its values under the sub-attribute "value".          *)
(***************************************************************************)
EXTENDS AttrData, FilterLang

CONSTANTS
  Common,     \* the attributes no schema declares: id, externalId, meta
  CaseExact,  \* the pairs <<attribute, sub-attribute>> compared exactly
  Rank,       \* scalar -> its place in the order of its type
  Float,      \* number -> its place among floats; Bad for other scalars
  Within      \* "co", "sw", "ew" -> the pairs <<text, part>> of folded or exact strings

ASSUME MatchAssumption ==
  /\ Common \subseteq Attrs /\ \A a \in Common : ~Schema[a].ext
  /\ Literals \ {"null"} \subseteq Scalars
  /\ \A w \in Words : PathIn[w] # None => DOMAIN PathIn[w] = {"schema", "attr", "sub"}

TypeOf(a, s) == Schema[a].subs[s].type

(* namespace: what a schema's URN, or none, lets a name refer to.          *)
Namespace(schema) ==
  CASE schema = "none" -> {a \in Attrs : ~Schema[a].ext}
    [] schema = "core" -> {a \in Attrs : ~Schema[a].ext} \ Common
    [] schema = "ext"  -> {a \in Attrs : Schema[a].ext}
    [] OTHER -> {}

(* resolve: a path that does not is a no-value, never an error.            *)
Resolves(p) ==
  /\ p.attr \in Namespace(p.schema)
  /\ p.sub # None => Schema[p.attr].complex /\ p.sub \in SubsOf(p.attr)

(* The sub-attribute whose values a path compares, None for a whole        *)
(* complex attribute.                                                      *)
Target(p) == IF p.sub # None THEN p.sub ELSE IF Schema[p.attr].complex THEN None ELSE "value"

(* resolveTarget inside a value filter: bare sub-attributes of the parent, *)
(* of which a simple one has none.                                         *)
ResolvesIn(parent, p) ==
  Schema[parent].complex /\ p.schema = "none" /\ p.sub = None /\ p.attr \in SubsOf(parent)

-----------------------------------------------------------------------------
(* One comparison of one stored value.                                     *)

CompareOrdered(op, g, w) ==
  CASE op = "eq" -> g = w
    [] op = "ne" -> g # w
    [] op = "gt" -> g > w
    [] op = "ge" -> g >= w
    [] op = "lt" -> g < w
    [] op = "le" -> g <= w
    [] OTHER -> FALSE

Shown(a, s, x) == IF <<a, s>> \in CaseExact THEN x ELSE Fold[x]

CompareString(a, s, got, op, w) ==
  IF op \in DOMAIN Within THEN <<Shown(a, s, got), Shown(a, s, w)>> \in Within[op]
  ELSE CompareOrdered(op, Rank[Shown(a, s, got)], Rank[Shown(a, s, w)])

CompareNumber_AsFloat(t, got, op, lit) ==
  Float[lit] # Bad /\ CompareOrdered(op, Float[got], Float[lit])

(* compareNumber: two integers exactly, everything else as floats.         *)
CompareNumber(t, got, op, lit) ==
  IF t = "integer" /\ Convert[t][lit] # Bad
  THEN CompareOrdered(op, Rank[got], Rank[Convert[t][lit]])
  ELSE Float[lit] # Bad /\ CompareOrdered(op, Float[got], Float[lit])

(* compareValue: null equals what is not there; other mismatches of type   *)
(* are no match.                                                           *)
CompareValue(a, s, got, op, lit) ==
  LET t == TypeOf(a, s)
      w == IF lit = "null" THEN Bad ELSE Convert[t][lit]
  IN  CASE lit = "null" -> op = (IF got = Nil THEN "eq" ELSE "ne")
        [] lit # "null" /\ got = Nil -> FALSE
        [] lit # "null" /\ got # Nil /\ t \in {"integer", "decimal"} -> CompareNumber(t, got, op, lit)
        [] lit # "null" /\ got # Nil /\ t \notin {"integer", "decimal"} ->
             /\ w # Bad
             /\ CASE t \in {"string", "reference"} -> CompareString(a, s, got, op, w)
                  [] t \in {"boolean", "binary"}   -> op \in {"eq", "ne"} /\ (got = w) = (op = "eq")
                  [] t = "dateTime"                -> CompareOrdered(op, Rank[got], Rank[w])

-----------------------------------------------------------------------------
(* The leaves of a filter, against a resource and against one element.     *)

(* candidates: unassigned is one value that is not there.                  *)
Candidates(r, a, s) ==
  IF r[a] = <<>> THEN {Nil} ELSE {r[a][i][s] : i \in DOMAIN r[a]}

EvalCompare(r, p, op, lit) ==
  /\ Resolves(p)
  /\ IF Target(p) = None
     THEN lit = "null" /\ op = (IF r[p.attr] = <<>> THEN "eq" ELSE "ne")
     ELSE \E got \in Candidates(r, p.attr, Target(p)) : CompareValue(p.attr, Target(p), got, op, lit)

EvalPresent(r, p) ==
  /\ Resolves(p)
  /\ IF p.sub = None THEN r[p.attr] # <<>> ELSE Candidates(r, p.attr, p.sub) # {Nil}

(* evalElement, inside a value filter on the attribute a.                  *)
RECURSIVE EvalElement(_, _, _), FlatElements(_, _, _), EvalExpr(_, _)

EvalElement(e, elem, a) ==
  LET p == PathIn[e[2]]
  IN  CASE e[1] = "and"     -> EvalElement(e[2], elem, a) /\ EvalElement(e[3], elem, a)
        [] e[1] = "or"      -> EvalElement(e[2], elem, a) \/ EvalElement(e[3], elem, a)
        [] e[1] = "not"     -> ~EvalElement(e[2], elem, a)
        [] e[1] = "compare" -> ResolvesIn(a, p) /\ CompareValue(a, p.attr, elem[p.attr], e[3], e[4])
        [] e[1] = "pr"      -> ResolvesIn(a, p) /\ elem[p.attr] # Nil
        [] e[1] = "has"     -> FALSE

(* A value filter whose clauses different elements may satisfy.            *)
FlatElements(f, elems, a) ==
  CASE f[1] = "and" -> FlatElements(f[2], elems, a) /\ FlatElements(f[3], elems, a)
    [] f[1] = "or"  -> FlatElements(f[2], elems, a) \/ FlatElements(f[3], elems, a)
    [] OTHER        -> \E i \in DOMAIN elems : EvalElement(f, elems[i], a)

EvalValuePath_Flattened(r, p, f) ==
  Resolves(p) /\ p.sub = None /\ Schema[p.attr].complex /\ FlatElements(f, r[p.attr], p.attr)

(* evalValuePath: one element satisfies the whole filter by itself.        *)
EvalValuePath(r, p, f) ==
  /\ Resolves(p) /\ p.sub = None /\ Schema[p.attr].complex
  /\ \E i \in DOMAIN r[p.attr] : EvalElement(f, r[p.attr][i], p.attr)

(* eval, of a validated filter.                                            *)
EvalExpr(e, r) ==
  CASE e[1] = "and"     -> EvalExpr(e[2], r) /\ EvalExpr(e[3], r)
    [] e[1] = "or"      -> EvalExpr(e[2], r) \/ EvalExpr(e[3], r)
    [] e[1] = "not"     -> ~EvalExpr(e[2], r)
    [] e[1] = "compare" -> EvalCompare(r, PathIn[e[2]], e[3], e[4])
    [] e[1] = "pr"      -> EvalPresent(r, PathIn[e[2]])
    [] e[1] = "has"     -> EvalValuePath(r, PathIn[e[2]], e[3])

(* validate: no ordering of booleans and binaries.                         *)
Unordered(a, s) == s # None /\ TypeOf(a, s) \in {"boolean", "binary"}

RECURSIVE Invalid(_, _)

Invalid(e, parent) ==
  LET p == PathIn[e[2]]
  IN  CASE e[1] \in {"and", "or"} -> Invalid(e[2], parent) \/ Invalid(e[3], parent)
        [] e[1] = "not"     -> Invalid(e[2], parent)
        [] e[1] = "pr"      -> FALSE
        [] e[1] = "has"     -> parent # None \/ (Resolves(p) /\ Invalid(e[3], p.attr))
        [] e[1] = "compare" -> /\ e[3] \in Ordering
                               /\ IF parent = None THEN Resolves(p) /\ Unordered(p.attr, Target(p))
                                  ELSE ResolvesIn(parent, p) /\ Unordered(parent, p.attr)

(* Match: the verdict, or the one error there is.                          *)
Match(r, e) ==
  IF Invalid(e, None) THEN [ok |-> FALSE, hit |-> FALSE] ELSE [ok |-> TRUE, hit |-> EvalExpr(e, r)]

===============================================================================
