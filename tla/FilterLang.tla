------------------------------ MODULE FilterLang ------------------------------
(***************************************************************************)
(* The filter and PATCH-path language (filter/token.go, parse.go, ast.go). *)
(* A text is a sequence of tokens: the four brackets, literals, and words, *)
(* which are attribute paths, keywords or both.  The parser is the code's  *)
(* recursive descent with one token of lookahead; an expression is a tuple *)
(* tagged with its node's kind.                                            *)
(***************************************************************************)
EXTENDS Naturals, Sequences

CONSTANTS
  Words,       \* tokens made of word characters, among them true, false, null
  Literals,    \* tokens that are JSON literals, among them true, false, null
  FoldedWord,  \* word -> its spelling in lower case
  PathIn,      \* word -> the attribute path it spells, None when it spells none
  SuffixIn,    \* word -> the sub-attribute s it names as ".s", None when none
  MaxDepth,    \* bound on open parentheses and nots
  None

Brackets == {"(", ")", "[", "]"}
Tokens   == Brackets \cup Words \cup Literals

Comparisons == {"eq", "ne", "co", "sw", "ew", "gt", "ge", "lt", "le"}
Ordering    == {"gt", "ge", "lt", "le"}

Compare(p, op, v) == <<"compare", p, op, v>>
Present(p)        == <<"pr", p>>
And(l, r)         == <<"and", l, r>>
Or(l, r)          == <<"or", l, r>>
Not(e)            == <<"not", e>>
HasValue(p, f)    == <<"has", p, f>>

(* What parsing from one token on yields: an expression and the next token. *)
Parsed(ast, at) == [ok |-> TRUE, ast |-> ast, at |-> at]
Failed          == [ok |-> FALSE, ast |-> None, at |-> 0]

TokenAt(text, i) == IF i \in DOMAIN text THEN text[i] ELSE None

Keyword(text, i, k) == TokenAt(text, i) \in Words /\ FoldedWord[text[i]] = k

(* Context: lenient, inside a value filter, and the open groupings.        *)
Outermost(lenient) == [lenient |-> lenient, inside |-> FALSE, depth |-> 0]
Deeper(c) == [c EXCEPT !.depth = @ + 1]

RECURSIVE ParseOr(_, _, _), ParseAnd(_, _, _), OrTail(_, _, _), AndTail(_, _, _)

(* An expression that was read, closed by a bracket, and wrapped.          *)
Closed(text, e, close) ==
  IF e.ok /\ TokenAt(text, e.at) = close THEN Parsed(e.ast, e.at + 1) ELSE Failed

Filtered(word, e) == IF e.ok THEN Parsed(HasValue(word, e.ast), e.at) ELSE Failed
Negated(e)        == IF e.ok THEN Parsed(Not(e.ast), e.at) ELSE Failed

ParseValueFilter(text, i, c) == Closed(text, ParseOr(text, i + 1, [c EXCEPT !.inside = TRUE]), "]")

ParseGroup(text, i, c) ==
  IF c.depth >= MaxDepth THEN Failed ELSE Closed(text, ParseOr(text, i + 1, Deeper(c)), ")")

ParseAttrExpr(text, i, c) ==
  LET op == IF TokenAt(text, i + 1) \in Words THEN FoldedWord[text[i + 1]] ELSE None
  IN  IF PathIn[text[i]] = None THEN Failed
      ELSE IF TokenAt(text, i + 1) = "["
      THEN IF c.inside THEN Failed ELSE Filtered(text[i], ParseValueFilter(text, i + 1, c))
      ELSE IF op = "pr" THEN Parsed(Present(text[i]), i + 2)
      ELSE IF op \in Comparisons /\ TokenAt(text, i + 2) \in Literals
      THEN Parsed(Compare(text[i], op, text[i + 2]), i + 3)
      ELSE Failed

ParsePrimary(text, i, c) ==
  IF TokenAt(text, i) = "(" THEN ParseGroup(text, i, c)
  ELSE IF TokenAt(text, i) \in Words THEN ParseAttrExpr(text, i, c)
  ELSE Failed

ParseUnary(text, i, c) ==
  IF ~Keyword(text, i, "not") THEN ParsePrimary(text, i, c)
  ELSE IF (TokenAt(text, i + 1) = "(" \/ c.lenient) /\ c.depth < MaxDepth
  THEN Negated(ParsePrimary(text, i + 1, Deeper(c)))
  ELSE Failed

(* The loops of parseOr and parseAnd, from the operand left on; none when *)
(* the operand right of a keyword could not be read.                       *)
Operands(node, left, right) ==
  IF right.ok THEN Parsed(<<node, left.ast, right.ast>>, right.at) ELSE Failed

More(text, left, k) == left.ok /\ Keyword(text, left.at, k)

AndTail(text, left, c) ==
  IF More(text, left, "and")
  THEN AndTail(text, Operands("and", left, ParseUnary(text, left.at + 1, c)), c) ELSE left

OrTail_RightToLeft(text, left, c) ==
  IF More(text, left, "or") THEN Operands("or", left, ParseOr(text, left.at + 1, c)) ELSE left

OrTail(text, left, c) ==
  IF More(text, left, "or")
  THEN OrTail(text, Operands("or", left, ParseAnd(text, left.at + 1, c)), c) ELSE left

ParseAnd(text, i, c) == AndTail(text, ParseUnary(text, i, c), c)
ParseOr(text, i, c)  == OrTail(text, ParseAnd(text, i, c), c)

(* Parse: the whole text is one filter.                                    *)
Whole(text, e) == IF e.ok /\ e.at = Len(text) + 1 THEN e ELSE Failed

Parse(text, lenient) == Whole(text, ParseOr(text, 1, Outermost(lenient)))

(* ParsePath: attr, attr.sub, attr[filter] or attr[filter].sub.            *)
PatchPath(word, filter, sub) == <<"path", word, filter, sub>>

Suffixed(text, f) ==
  LET sub == IF TokenAt(text, f.at) \in Words THEN SuffixIn[text[f.at]] ELSE None
  IN  IF ~f.ok THEN Failed
      ELSE IF sub = None THEN Whole(text, Parsed(PatchPath(text[1], f.ast, None), f.at))
      ELSE Whole(text, Parsed(PatchPath(text[1], f.ast, text[f.at]), f.at + 1))

ParsePath(text, lenient) ==
  IF TokenAt(text, 1) \notin Words \/ PathIn[text[1]] = None THEN Failed
  ELSE IF TokenAt(text, 2) # "[" THEN Whole(text, Parsed(PatchPath(text[1], None, None), 2))
  ELSE IF PathIn[text[1]].sub # None THEN Failed
  ELSE Suffixed(text, ParseValueFilter(text, 2, Outermost(lenient)))

-----------------------------------------------------------------------------
(* Rendering (String): an operand is parenthesised where the parser would  *)
(* otherwise read another tree.                                            *)

RECURSIVE Render(_)

Grouped(e, kinds) == IF e[1] \in kinds THEN <<"(">> \o Render(e) \o <<")">> ELSE Render(e)

AndRight_Flat(e) == Grouped(e, {"or"})
AndRight(e)      == Grouped(e, {"or", "and"})

Render(e) ==
  CASE e[1] = "compare" -> <<e[2], e[3], e[4]>>
    [] e[1] = "pr"      -> <<e[2], "pr">>
    [] e[1] = "and"     -> Grouped(e[2], {"or"}) \o <<"and">> \o AndRight(e[3])
    [] e[1] = "or"      -> Render(e[2]) \o <<"or">> \o Grouped(e[3], {"or"})
    [] e[1] = "not"     -> <<"not", "(">> \o Render(e[2]) \o <<")">>
    [] e[1] = "has"     -> <<e[2], "[">> \o Render(e[3]) \o <<"]">>
    [] e[1] = "path"    -> (IF e[3] = None THEN <<e[2]>> ELSE <<e[2], "[">> \o Render(e[3]) \o <<"]">>)
                           \o (IF e[4] = None THEN <<>> ELSE <<e[4]>>)

===============================================================================
