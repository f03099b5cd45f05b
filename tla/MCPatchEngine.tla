---------------------------- MODULE MCPatchEngine ----------------------------
(* Instances of PatchEngine: a resource type with one attribute of every   *)
(* kind the engine treats differently, and the operations on each.         *)
EXTENDS PatchEngine

MCAttrs == {"active", "badge", "emails", "manager", "members", "nick", "tags"}
MCOrder == <<"active", "badge", "emails", "members", "nick", "tags", "manager">>
MCSubs  == {"value", "type", "primary"}

Sub(t, m) == [type |-> t, mutability |-> m]
Attr(multi, complex, ext, required, m, subs) ==
  [multi |-> multi, complex |-> complex, ext |-> ext, required |-> required, mutability |-> m, subs |-> subs]

MCSchema ==
  [active  |-> Attr(FALSE, FALSE, FALSE, FALSE, "immutable", [value |-> Sub("boolean", "readWrite")]),
   badge   |-> Attr(FALSE, TRUE, FALSE, FALSE, "immutable",
                    [value |-> Sub("string", "readWrite"), type |-> Sub("string", "readWrite")]),
   nick    |-> Attr(FALSE, FALSE, FALSE, FALSE, "readOnly", [value |-> Sub("string", "readWrite")]),
   tags    |-> Attr(TRUE, FALSE, FALSE, FALSE, "immutable", [value |-> Sub("string", "readWrite")]),
   emails  |-> Attr(TRUE, TRUE, FALSE, TRUE, "readWrite",
                    [value |-> Sub("string", "readWrite"), type |-> Sub("string", "readWrite"),
                     primary |-> Sub("boolean", "readWrite")]),
   members |-> Attr(TRUE, TRUE, FALSE, FALSE, "readWrite",
                    [value |-> Sub("string", "immutable"), type |-> Sub("string", "readOnly")]),
   manager |-> Attr(FALSE, TRUE, TRUE, FALSE, "readWrite",
                    [value |-> Sub("string", "readWrite"), type |-> Sub("string", "readOnly")])]

Strings   == {"x", "X", "y", "work", "home", "'True'"}
MCScalars == Strings \cup {"true", "false"}
MCConvert == [string  |-> [s \in MCScalars |-> IF s \in Strings THEN s ELSE Bad],
              boolean |-> [s \in MCScalars |-> IF s \in Strings THEN Bad ELSE s]]
MCUnquote == [string  |-> [s \in MCScalars |-> s],
              boolean |-> [s \in MCScalars |-> IF s = "'True'" THEN "true" ELSE s]]
MCFold    == [s \in MCScalars |-> IF s = "X" THEN "x" ELSE s]

-----------------------------------------------------------------------------
E(v, t, p) == [value |-> v, type |-> t, primary |-> p]
Obj(e)     == [form |-> "object", at |-> e]
Sca(x)     == [form |-> "scalar", at |-> E(x, Nil, Nil)]
NullElem   == [form |-> "null", at |-> NoSubs]
One(e)     == [list |-> FALSE, elems |-> <<e>>]
List(es)   == [list |-> TRUE, elems |-> es]
Null1      == One(NullElem)

If(e)    == [eqs |-> e, negated |-> FALSE]
IfNot(e) == [eqs |-> e, negated |-> TRUE]
P(a, s, f) == PathOf(a, s, f)
Whole(a) == P(a, Nil, Nil)

At(kind, path, v)  == RawOp(kind, TRUE, path, v, Nil, <<>>)
Pathless(kind, obj) == RawOp(kind, TRUE, Nil, Nil, [a \in MCAttrs |-> IF a \in DOMAIN obj THEN obj[a] ELSE Nil], <<>>)

Blank == [a \in MCAttrs |-> <<>>]
With(a, elems) == [Blank EXCEPT ![a] = elems]

ex == E("x", "work", Nil)
XP == E("x", "work", "true")
YH == E("y", "home", Nil)
YP == E("y", "home", "true")

Emails == [longest |-> 2, bases |-> {With("emails", l) : l \in {<<>>, <<XP>>, <<XP, YH>>, <<ex, E("X", "home", Nil)>>, <<E(Nil, "work", Nil)>>}},
  ops |-> LET e == "emails" IN {
    At("add", Whole(e), List(<<Obj(YP)>>)), At("add", Whole(e), One(Obj(E("x", Nil, "true")))),
    At("add", Whole(e), List(<<Obj(E(Nil, "home", "true")), Obj(ex)>>)), At("add", Whole(e), List(<<Obj(XP), Obj(YP)>>)),
    At("add", P(e, "value", If(E(Nil, "work", Nil))), One(Sca("y"))),
    At("add", P(e, "primary", If(E("y", Nil, Nil))), One(Sca("'True'"))),
    At("add", P(e, Nil, If(E(Nil, "home", Null))), One(Obj(E(Null, Nil, "true")))),
    At("remove", Whole(e), Nil), At("remove", P(e, Nil, If(E("x", Nil, Nil))), Nil),
    At("remove", P(e, "value", If(E("x", Nil, Nil))), Nil), At("remove", P(e, Nil, IfNot(E(Nil, "work", Nil))), Nil),
    At("remove", Whole(e), List(<<Obj(E("X", Nil, Nil)), Sca("y")>>)), At("remove", Whole(e), List(<<>>)),
    At("remove", Whole(e), Null1), At("remove", Whole(e), List(<<NullElem>>)),
    At("replace", Whole(e), List(<<Obj(YP)>>)), At("replace", Whole(e), List(<<>>)),
    At("replace", P(e, "value", If(E("x", Nil, Nil))), One(Sca("y"))),
    At("replace", P(e, "primary", If(E("y", Nil, Nil))), One(Obj(E("true", Null, Nil)))),
    At("replace", P(e, Nil, If(E(Nil, "home", Nil))), One(Obj(E("y", Nil, "true")))),
    At("replace", P(e, "value", IfNot(E(Nil, "home", Nil))), One(Sca("y"))),
    Pathless("add", [emails |-> List(<<Obj(YH)>>)]), Pathless("replace", [emails |-> Null1]),
    At("add", P(e, "value", Nil), One(Sca("y")))}]

Lacking == [longest |-> 1, bases |-> {Blank, With("emails", <<E("y", Nil, Nil), YH>>), With("members", <<ex>>)},
  ops |-> {
    At("add", P("emails", Nil, If(E(Nil, Null, Nil))), One(Obj(E(Null, Nil, Nil)))),
    At("add", P("emails", Nil, If(E(Nil, Null, Nil))), One(Obj(E("x", Nil, Nil)))),
    At("add", P("members", "value", If(E(Nil, Nil, "true"))), One(Sca("y")))}]

Members == [longest |-> 2, bases |-> {With("members", l) : l \in {<<>>, <<ex>>, <<ex, YH>>}},
  ops |-> LET m == "members" IN {
    At("add", Whole(m), List(<<Obj(E("x", Nil, Nil)), Obj(YH)>>)), At("add", P(m, Nil, If(E("x", Nil, Nil))), One(Obj(E("x", "home", Nil)))),
    At("add", P(m, "value", If(E("y", Nil, Nil))), One(Sca("x"))), At("add", P(m, "type", If(E("y", Nil, Nil))), One(Sca("x"))),
    At("remove", Whole(m), One(Sca("x"))), At("remove", Whole(m), List(<<>>)), At("remove", P(m, Nil, If(E("x", Nil, Nil))), List(<<Sca("x")>>)),
    At("remove", P(m, "value", If(E(Nil, "work", Nil))), Nil), At("remove", P(m, Nil, If(E("y", Nil, Nil))), Nil),
    At("replace", P(m, Nil, If(E("x", Nil, Nil))), One(Obj(E("y", Nil, Nil)))),
    At("replace", P(m, Nil, If(E("x", Nil, Nil))), One(Obj(E("x", "home", Nil)))),
    At("replace", P(m, Nil, If(E(Nil, "work", Nil))), One(Obj(E(Null, "home", Nil)))),
    Pathless("replace", [members |-> List(<<Obj(YH)>>), nick |-> One(Sca("y"))])}]

Manager == [longest |-> 2, bases |-> {With("manager", l) : l \in {<<>>, <<ex>>, <<E("x", Nil, Nil)>>}},
  ops |-> LET m == "manager" IN {
    At("add", P(m, "value", Nil), One(Sca("y"))), At("replace", P(m, "type", Nil), One(Sca("y"))),
    At("remove", P(m, "value", Nil), Nil), At("remove", Whole(m), Nil), At("remove", Whole(m), One(Sca("x"))),
    At("replace", Whole(m), One(Obj(E("y", "home", Nil)))), At("add", Whole(m), One(Obj(E(Nil, Nil, "true")))),
    At("replace", P(m, "value", Nil), List(<<Obj(E("y", Nil, Nil))>>)),
    Pathless("add", [manager |-> One(Obj(E("y", Nil, Nil)))]),
    Pathless("replace", [manager |-> One(Obj(E("y", Nil, Nil)))]),
    RawOp("replace", TRUE, Nil, Nil, [a \in MCAttrs |-> Nil], <<[path |-> P(m, "value", Nil), value |-> One(Sca("y"))]>>),
    At("add", P(m, Nil, If(E("x", Nil, Nil))), One(Obj(YH)))}]

Simple == [longest |-> 2, bases |-> {[Blank EXCEPT !["active"] = a, !["tags"] = t] :
                         a \in {<<>>, <<E("true", Nil, Nil)>>}, t \in {<<>>, <<E("x", Nil, Nil)>>}},
  ops |-> {At("add", Whole("active"), One(Sca("'True'"))), At("replace", Whole("active"), One(Sca("false"))),
    At("replace", Whole("active"), One(Obj(E("true", Null, Nil)))), At("remove", Whole("active"), Nil),
    At("add", Whole("tags"), List(<<Sca("x"), Sca("x")>>)), At("add", Whole("tags"), One(Sca("x"))),
    At("add", Whole("tags"), List(<<Obj(E("y", Nil, Nil))>>)), At("replace", Whole("tags"), List(<<Sca("y"), NullElem>>)),
    At("replace", Whole("tags"), List(<<>>)), At("add", Whole("nick"), One(Sca("x"))),
    Pathless("add", [active |-> One(Sca("true")), tags |-> One(Sca("y")), nick |-> One(Sca("x"))]),
    [At("add", Whole("active"), One(Sca("true"))) EXCEPT !.exact = FALSE],
    At("Upsert", Whole("active"), One(Sca("true"))), At("add", Malformed, One(Sca("true"))),
    At("add", Whole("active"), Null1), At("add", Whole("active"), List(<<NullElem>>)),
    Pathless("add", [active |-> Null1]), Pathless("replace", [active |-> Null1]), At("add", Nil, One(Sca("true"))), At("remove", Nil, Nil)}]

Badge == [longest |-> 2, bases |-> {Blank, With("badge", <<ex>>)},
  ops |-> LET b == "badge" IN {
    At("add", P(b, "value", Nil), One(Sca("x"))), At("replace", P(b, "value", Nil), One(Sca("y"))),
    At("remove", P(b, "value", Nil), Nil), At("add", Whole(b), One(Obj(E("x", Nil, Nil)))),
    At("replace", Whole(b), One(Obj(ex))), At("remove", Whole(b), Nil)}]

Long == [longest |-> 3, bases |-> {Blank}, ops |-> {Pathless("add", [emails |-> List(<<Obj(YH)>>)])}]

MCCases == {Emails, Lacking, Members, Manager, Badge, Simple, Long}

MCProfiles == {Strict, Default, Entra}
MCDefault  == {Default}
MCStrict   == {Strict}

==============================================================================
