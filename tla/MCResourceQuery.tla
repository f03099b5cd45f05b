---------------------------- MODULE MCResourceQuery ---------------------------
(* An instance of ResourceQuery: attributes of every kind, the filters and *)
(* paths clients send, and bodies with each kind of mistake.               *)
EXTENDS ResourceQuery

MCAttrs  == {"id", "nick", "active", "size", "seen", "secret", "emails", "name", "manager"}
MCSubs   == {"value", "type", "primary"}
MCCommon == {"id"}

Sub(t, m) == [type |-> t, mutability |-> m]
Attr(multi, complex, ext, m, subs) ==
  [multi |-> multi, complex |-> complex, ext |-> ext, required |-> FALSE, mutability |-> m, subs |-> subs]
Simple(t, m) == Attr(FALSE, FALSE, FALSE, m, [value |-> Sub(t, "readWrite")])

StringSub == Sub("string", "readWrite")

MCSchema ==
  [id      |-> Simple("string", "readOnly"),
   nick    |-> Simple("string", "readWrite"),
   active  |-> Simple("boolean", "readWrite"),
   size    |-> Simple("integer", "readWrite"),
   seen    |-> Simple("dateTime", "readWrite"),
   secret  |-> Simple("string", "readWrite"),
   emails  |-> Attr(TRUE, TRUE, FALSE, "readWrite",
                    [value |-> StringSub, type |-> StringSub, primary |-> Sub("boolean", "readWrite")]),
   name    |-> Attr(FALSE, TRUE, FALSE, "readWrite", [value |-> StringSub, type |-> StringSub]),
   manager |-> Attr(FALSE, TRUE, TRUE, "readOnly", [value |-> StringSub, type |-> StringSub])]

MCReturned == [a \in MCAttrs |-> CASE a = "id" -> "always" [] a = "seen" -> "request"
                                   [] a = "secret" -> "never" [] OTHER -> "default"]
MCHiddenSubs == {<<"name", "type">>}
MCCaseExact  == {<<"id", "value">>}

(* Strings and their parts; 8 and 9 are one float, 9.5 is no integer, and  *)
(* T1 is the instant the string '1985' spells.                             *)
Strings   == {"'x'", "'X'", "'xy'", "'work'", "'1985'"}
Numbers   == {"8", "9", "9.5"}
Bools     == {"true", "false"}
MCScalars == Strings \cup Numbers \cup Bools \cup {"T1"}
MCConvert ==
  [string   |-> [x \in MCScalars |-> IF x \in Strings THEN x ELSE Bad],
   boolean  |-> [x \in MCScalars |-> IF x \in Bools THEN x ELSE Bad],
   integer  |-> [x \in MCScalars |-> IF x \in {"8", "9"} THEN x ELSE Bad],
   dateTime |-> [x \in MCScalars |-> IF x \in {"'1985'", "T1"} THEN "T1" ELSE Bad]]
MCWire   == [t \in DOMAIN MCConvert |-> [x \in MCScalars |-> IF x = "T1" THEN "'1985'" ELSE x]]
MCFold   == [x \in MCScalars |-> IF x = "'X'" THEN "'x'" ELSE x]
Ranked   == <<"'1985'", "'X'", "'work'", "'x'", "'xy'", "8", "9", "T1">>
MCRank   == [x \in ToSet(Ranked) |-> CHOOSE i \in DOMAIN Ranked : Ranked[i] = x]
MCFloat  == [x \in MCScalars \cup {"null"} |-> CASE x \in {"8", "9"} -> 8 [] x = "9.5" -> 10 [] OTHER -> Bad]
Begins == {<<x, x>> : x \in Strings} \cup {<<"'xy'", "'x'">>}
MCWithin == [co |-> Begins, sw |-> Begins, ew |-> {<<x, x>> : x \in Strings}]

MCLiterals == {"'x'", "'X'", "'work'", "'1985'", "8", "9", "9.5", "true", "null"}

Bare(n)     == [schema |-> "none", attr |-> n, sub |-> None]
Dotted(n, s) == [schema |-> "none", attr |-> n, sub |-> s]

Keywords == {"and", "or", "not", "pr", "eq", "ne", "gt", "co", "true", "null"}
PlainNames == (MCAttrs \ {"manager"}) \cup MCSubs \cup Keywords
Others == [EMAILS |-> Bare("emails"), AND |-> Bare("and"), Eq |-> Bare("eq")]
          @@ ("emails.value" :> Dotted("emails", "value")) @@ ("emails.type" :> Dotted("emails", "type"))
          @@ ("emails.primary" :> Dotted("emails", "primary")) @@ ("name.value" :> Dotted("name", "value"))
          @@ ("name.type" :> Dotted("name", "type")) @@ ("nick.value" :> Dotted("nick", "value"))
          @@ ("c:id" :> [schema |-> "core", attr |-> "id", sub |-> None])
          @@ ("e:manager" :> [schema |-> "ext", attr |-> "manager", sub |-> None])
          @@ ("e:manager.value" :> [schema |-> "ext", attr |-> "manager", sub |-> "value"])
          @@ ("e:manager.type" :> [schema |-> "ext", attr |-> "manager", sub |-> "type"])
          @@ ("?:nick" :> [schema |-> "other", attr |-> "nick", sub |-> None])
          @@ (".value" :> None)
MCPathIn == [w \in PlainNames |-> Bare(w)] @@ Others
MCWords  == DOMAIN MCPathIn
MCFoldedWord == [w \in MCWords |-> CASE w = "EMAILS" -> "emails" [] w = "AND" -> "and" [] w = "Eq" -> "eq" [] OTHER -> w]
MCSuffixIn == [w \in MCWords |-> IF w = ".value" THEN "value" ELSE None]

-----------------------------------------------------------------------------
F(t) == [kind |-> "filter", text |-> t]
P(t) == [kind |-> "path", text |-> t]

(* Filters that are edited, among them ones at the depth bound.            *)
MCTexts == {
  F(<<"nick", "pr", "or", "id", "pr", "AND", "active", "eq", "true">>),
  F(<<"(", "nick", "pr", "or", "id", "pr", ")", "and", "size", "gt", "8">>),
  F(<<"nick", "pr", "and", "(", "id", "pr", "and", "size", "pr", ")">>),
  F(<<"not", "(", "not", "(", "nick", "pr", ")", ")">>),
  F(<<"emails", "[", "type", "eq", "'work'", "and", "value", "co", "'x'", "]">>),
  F(<<"EMAILS", "[", "not", "(", "primary", "pr", ")", "or", "type", "ne", "null", "]">>),
  F(<<"emails.type", "eq", "null">>),
  F(<<"size", "Eq", "9">>), F(<<"size", "ne", "9.5">>), F(<<"seen", "gt", "'1985'">>),
  F(<<"name", "[", "value", "eq", "'X'", "]">>), F(<<"name.value", "eq", "'x'">>),
  F(<<"c:id", "pr">>), F(<<"e:manager.value", "ne", "null">>), F(<<"not", "(", "?:nick", "pr", ")">>),
  P(<<"emails", "[", "type", "eq", "'work'", "]", ".value">>),
  P(<<"emails", "[", "value", "pr", "or", "not", "(", "type", "pr", ")", "]">>),
  P(<<"e:manager.value">>)}

MCEditTokens == {"(", ")", "]", "and", "or", "not", "pr"}

E(v, t, p) == [value |-> v, type |-> t, primary |-> p]
Obj(v, t, p) == [form |-> "object", at |-> E(v, t, p)]
Sca(x)     == [form |-> "scalar", at |-> E(x, Nil, Nil)]
NullElem   == [form |-> "null", at |-> NoSubs]
One(e)     == [list |-> FALSE, elems |-> <<e>>]
List(es)   == [list |-> TRUE, elems |-> es]

MCBoxes == {"urn:e", "URN:E"}
NoBoxes == [b \in MCBoxes |-> {}]
In(b, ms) == [NoBoxes EXCEPT ![b] = ms]

Mem(a, v) == Member(a, a, v)
IdX == Mem("id", One(Sca("'x'")))
Managed(x) == {Mem("manager", One(Obj(x, "'work'", Nil)))}

TwoEmails == Mem("emails", List(<<Obj("'x'", Nil, "true"), Obj("'work'", "'work'", Nil)>>))

MCBodies == {
  Body({IdX, Mem("nick", One(Sca("'X'"))), Mem("size", One(Sca("9"))), Mem("secret", One(Sca("'x'")))}, NoBoxes),
  Body({IdX, TwoEmails, Mem("size", One(Sca("8"))), Mem("seen", One(Sca("'1985'")))}, In("urn:e", Managed("'x'"))),
  Body({IdX, Mem("emails", List(<<Obj(Nil, Nil, Nil), Obj("'X'", "'work'", "false")>>)),
        Mem("name", One(Obj("'x'", "'work'", Nil))), Mem("active", One(Sca("true")))}, NoBoxes),
  Body({Mem("nick", One(Sca("'x'"))), Member("NICK", "nick", One(Sca("'xy'"))), Member("Nick", "nick", One(NullElem))},
       [b \in MCBoxes |-> IF b = "urn:e" THEN Managed("'x'") ELSE Managed("'xy'")]),
  Body({Mem("name", One(Obj(Nil, "'work'", Nil))), Member("ghost", Unknown, One(Sca("8"))), Mem("emails", List(<<>>))},
       In("URN:E", {Member("ghost", Unknown, One(Sca("8")))})),
  Body({Mem("size", One(Sca("9.5")))}, In("urn:e", NotAnObject)),
  Body({Mem("emails", List(<<Obj("'x'", Nil, "true"), Obj("'xy'", Nil, "true")>>))}, NoBoxes)}

Q(as, es) == [attributes |-> as, excluded |-> es]
Of(a) == Path(a, Nil)

MCProjections == {
  Q(<<>>, <<>>), Q(<<Of("seen"), Of("secret")>>, <<>>), Q(<<Of("emails"), Path("emails", "type")>>, <<>>),
  Q(<<Of("name"), Path("name", "value"), Of("nick")>>, <<>>), Q(<<Path("name", "value"), Of("name")>>, <<>>),
  Q(<<WholeExtension, Path("manager", "value")>>, <<>>), Q(<<Path("manager", "value"), Path("manager", "type")>>, <<>>),
  Q(<<Path(Unknown, Nil)>>, <<>>),
  Q(<<>>, <<Of("id"), Of("emails")>>), Q(<<>>, <<Path("name", "value"), WholeExtension>>),
  Q(<<>>, <<Path("manager", "value"), Path("emails", "value")>>)}

===============================================================================
