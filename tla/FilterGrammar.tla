----------------------------- MODULE FilterGrammar ----------------------------
(***************************************************************************)
(* The grammar of RFC 7644, section 3.4.2.2, as the filter package's doc   *)
(* comments narrow it: and binds tighter than or, both associate to the    *)
(* left, not takes a parenthesised filter.  Given as the set of all the    *)
(* expressions a part of a text can be read as, with the depth to which    *)
(* each nests groupings: a reference for the parser, which commits itself  *)
(* token by token.                                                         *)
(***************************************************************************)
EXTENDS FilterLang

Deepest(m, n) == IF m > n THEN m ELSE n

Reading(ast, deep) == [ast |-> ast, deep |-> deep]

PathAt(text, i) == TokenAt(text, i) \in Words /\ PathIn[text[i]] # None

Clauses(text, i, j) ==
  {Reading(Present(text[k]), 0) : k \in {k \in {i} : j = i + 1 /\ PathAt(text, i) /\ Keyword(text, j, "pr")}}
  \cup {Reading(Compare(text[i], op, text[j]), 0) :
          op \in {op \in Comparisons : j = i + 2 /\ PathAt(text, i) /\ Keyword(text, i + 1, op)
                                       /\ text[j] \in Literals}}

(* The readings of the tokens from i to j at a level of the grammar;       *)
(* inside a value filter there is no other.                                *)
RECURSIVE ReadAs(_, _, _, _, _, _)

Joined(text, i, j, level, tighter, lenient, inside) ==
  UNION {{Reading(<<level, l.ast, r.ast>>, Deepest(l.deep, r.deep)) :
            l \in ReadAs(level, text, i, k - 1, lenient, inside),
            r \in ReadAs(tighter, text, k + 1, j, lenient, inside)} :
         k \in {k \in i + 1..j - 1 : Keyword(text, k, level)}}

ReadAs(level, text, i, j, lenient, inside) ==
  CASE level = "or" ->
         Joined(text, i, j, "or", "and", lenient, inside) \cup ReadAs("and", text, i, j, lenient, inside)
    [] level = "and" ->
         Joined(text, i, j, "and", "unary", lenient, inside) \cup ReadAs("unary", text, i, j, lenient, inside)
    [] level = "unary" /\ ~Keyword(text, i, "not") -> ReadAs("primary", text, i, j, lenient, inside)
    [] level = "unary" /\ Keyword(text, i, "not") ->
         {Reading(Not(r.ast), r.deep + 1) :
            r \in IF lenient \/ TokenAt(text, i + 1) = "("
                  THEN ReadAs("primary", text, i + 1, j, lenient, inside) ELSE {}}
    [] level = "primary" /\ i < j /\ text[i] = "(" ->
         {Reading(r.ast, r.deep + 1) :
            r \in IF text[j] = ")" THEN ReadAs("or", text, i + 1, j - 1, lenient, inside) ELSE {}}
    [] level = "primary" /\ i < j /\ PathAt(text, i) /\ text[i + 1] = "[" ->
         {Reading(HasValue(text[i], r.ast), r.deep) :
            r \in IF text[j] = "]" /\ ~inside THEN ReadAs("or", text, i + 2, j - 1, lenient, TRUE) ELSE {}}
    [] OTHER -> Clauses(text, i, j)

FilterReadings(text, lenient) ==
  IF text = <<>> THEN {} ELSE ReadAs("or", text, 1, Len(text), lenient, FALSE)

(* attrPath, or valuePath with an optional sub-attribute (Figure 7).       *)
PathReadings(text, lenient) ==
  LET suffix == Len(text) > 1 /\ TokenAt(text, Len(text)) \in Words /\ SuffixIn[text[Len(text)]] # None
      close  == IF suffix THEN Len(text) - 1 ELSE Len(text)
      inner  == IF close > 2 /\ text[2] = "[" /\ text[close] = "]" /\ PathIn[text[1]].sub = None
                THEN ReadAs("or", text, 3, close - 1, lenient, TRUE) ELSE {}
  IN  IF ~PathAt(text, 1) THEN {}
      ELSE IF Len(text) = 1 THEN {Reading(PatchPath(text[1], None, None), 0)}
      ELSE {Reading(PatchPath(text[1], r.ast, IF suffix THEN text[Len(text)] ELSE None), r.deep) : r \in inner}

===============================================================================
