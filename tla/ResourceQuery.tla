----------------------------- MODULE ResourceQuery ----------------------------
(***************************************************************************)
(* One resource and one query, end to end: a body is decoded into a        *)
(* resource (scim), a text is parsed into a filter or a PATCH path         *)
(* (filter), the filter is evaluated, and a resource that matches is       *)
(* encoded under the query's projection.  A client that builds filters     *)
(* prints a tree and has the server parse the result.                      *)
(***************************************************************************)
EXTENDS FilterMatch, ResourceView, FilterGrammar

CONSTANTS
  Texts,        \* what clients start from: [kind, text], kind "filter" or "path"
  EditTokens,   \* the tokens a text may gain
  MaxEdits      \* bound: changes to a text

VARIABLES
  kind, text, edits,
  lenient,    \* how text was parsed last
  tree,       \* the outcome, Nil before
  printed,    \* what text was printed from and how that was parsed, None when it was not
  verdict

vars == <<kind, text, edits, lenient, tree, printed, resource, verdict, shown, view>>

Init ==
  /\ \E t \in Texts : kind = t.kind /\ text = t.text
  /\ edits = 0 /\ lenient = FALSE /\ tree = Nil /\ printed = None
  /\ verdict = Nil /\ ViewInit

(* Any text a few tokens away from the ones clients start from.            *)
Edit ==
  /\ edits < MaxEdits /\ tree = Nil /\ resource = Nil /\ printed = None
  /\ edits' = edits + 1
  /\ \/ \E i \in DOMAIN text : text' = RemoveAt(text, i)
     \/ \E i \in DOMAIN text, t \in EditTokens : text' = [text EXCEPT ![i] = t]
     \/ \E i \in 1..Len(text) + 1, t \in EditTokens : text' = InsertAt(text, i, t)
  /\ UNCHANGED <<kind, lenient, tree, printed, resource, verdict, shown, view>>

(* Parse and ParsePath, with and without the Lenient option.               *)
ParseText(l) ==
  /\ tree = Nil
  /\ lenient' = l
  /\ tree' = IF kind = "filter" THEN Parse(text, l) ELSE ParsePath(text, l)
  /\ UNCHANGED <<kind, text, edits, printed, resource, verdict, shown, view>>

(* String: the client direction of the package.                            *)
PrintTree ==
  /\ tree # Nil /\ tree.ok /\ printed = None /\ resource = Nil
  /\ printed' = [ast |-> tree.ast, lenient |-> lenient] /\ text' = Render(tree.ast) /\ tree' = Nil
  /\ UNCHANGED <<kind, edits, lenient, resource, verdict, shown, view>>

Receive(body, dropReadOnly) ==
  /\ kind = "filter" /\ edits = 0 /\ tree = Nil /\ printed = None
  /\ ReceiveBody(body, dropReadOnly)
  /\ UNCHANGED <<kind, text, edits, lenient, tree, printed, verdict>>

MatchResource ==
  /\ resource # Nil /\ resource.ok /\ tree # Nil /\ tree.ok /\ verdict = Nil
  /\ verdict' = Match(resource.res, tree.ast)
  /\ UNCHANGED <<kind, text, edits, lenient, tree, printed, resource, shown, view>>

Show(p) ==
  /\ verdict # Nil /\ verdict.hit
  /\ ShowResource(p)
  /\ UNCHANGED <<kind, text, edits, lenient, tree, printed, verdict>>

Next ==
  \/ Edit
  \/ \E l \in BOOLEAN : ParseText(l)
  \/ PrintTree
  \/ \E body \in Bodies, drop \in BOOLEAN : Receive(body, drop)
  \/ MatchResource
  \/ \E p \in Projections : Show(p)

Spec == Init /\ [][Next]_vars

-----------------------------------------------------------------------------
(* Properties.                                                             *)

(* The parser finds the one expression the grammar gives a text, wherever  *)
(* keywords, brackets and attributes named like keywords stand, and        *)
(* refuses a text exactly when the grammar gives it none or only one that  *)
(* nests deeper than maxDepth (Parse, ParsePath).                          *)
ParseExact ==
  tree # Nil =>
    LET all == IF kind = "filter" THEN FilterReadings(text, lenient) ELSE PathReadings(text, lenient)
        fit == {r \in all : r.deep <= MaxDepth}
    IN  /\ tree.ok = (fit # {})
        /\ tree.ok => {r.ast : r \in all} = {tree.ast}

(* What String prints of a parsed filter or path parses to the same tree.  *)
(* Of a leniently parsed one it may be refused, a not having gained its    *)
(* parentheses and a level of depth, but it is never another tree.         *)
PrintedReadsBack ==
  tree # Nil /\ printed # None =>
    (tree.ok /\ tree.ast = printed.ast) \/ (~tree.ok /\ printed.lenient)

RECURSIVE Parts(_)

Parts(e) ==
  {e} \cup (CASE e[1] \in {"and", "or"} -> Parts(e[2]) \cup Parts(e[3])
              [] e[1] = "not" -> Parts(e[2])
              [] OTHER -> {})

(* A value filter's clause as a clause on the resource.                    *)
Spelled(a, s) == CHOOSE w \in Words : /\ PathIn[w] # None
                                      /\ a \in Namespace(PathIn[w].schema)
                                      /\ PathIn[w].attr = a /\ PathIn[w].sub = s

Undefined == CHOOSE w \in Words : PathIn[w] # None /\ ~Resolves(PathIn[w])

Lifted(a, w) == IF ResolvesIn(a, PathIn[w]) THEN Spelled(a, PathIn[w].attr) ELSE Undefined

RECURSIVE Spread(_, _)

Spread(f, a) ==
  CASE f[1] \in {"and", "or"} -> <<f[1], Spread(f[2], a), Spread(f[3], a)>>
    [] f[1] = "not"     -> Not(Spread(f[2], a))
    [] f[1] = "pr"      -> Present(Lifted(a, f[2]))
    [] f[1] = "compare" -> Compare(Lifted(a, f[2]), f[3], f[4])

(* attr[f] holds when some element, were it the only one, satisfies f      *)
(* written with dotted paths: the clauses are never met by different       *)
(* elements (evalValuePath).                                               *)
ElementwiseOnly(e, r) ==
  LET p == PathIn[e[2]]
  IN  e[1] = "has" /\ Resolves(p) /\ p.sub = None /\ Schema[p.attr].complex =>
        EvalExpr(e, r) = \E i \in DOMAIN r[p.attr] :
                            EvalExpr(Spread(e[3], p.attr), [r EXCEPT ![p.attr] = <<@[i]>>])

(* An integer equals the one literal that spells it, also where floats     *)
(* cannot tell integers apart (compareNumber).                             *)
IntegersExact(e, r) ==
  LET p == PathIn[e[2]]
  IN  e[1] = "compare" /\ e[3] = "eq" /\ Resolves(p) /\ Target(p) # None =>
        LET n == IF e[4] \in Scalars THEN Convert["integer"][e[4]] ELSE Bad
        IN  TypeOf(p.attr, Target(p)) = "integer" /\ n # Bad =>
              EvalExpr(e, r) = (n \in Candidates(r, p.attr, Target(p)))

(* ne null says what pr says (compareValue, evalPresent).                  *)
NullIsAbsent(e, r) ==
  e[1] \in {"compare", "pr"} =>
    EvalExpr(Compare(e[2], "ne", "null"), r) = EvalExpr(Present(e[2]), r)

MatchSound ==
  verdict # Nil /\ verdict.ok =>
    /\ verdict.hit = EvalExpr(tree.ast, resource.res)
    /\ \A e \in Parts(tree.ast) :
         /\ ElementwiseOnly(e, resource.res)
         /\ IntegersExact(e, resource.res)
         /\ NullIsAbsent(e, resource.res)

===============================================================================
