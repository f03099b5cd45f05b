----------------------------- MODULE MCListWalk -----------------------------
(* Instances of ListWalk: a target with three resources that gains others.  *)
EXTENDS ListWalk

Resource(id, key) == [id |-> id, hit |-> TRUE, key |-> key, version |-> 1]

MCStart == <<Resource("a", 1), Resource("b", 0), Resource("c", NoKey)>>

MCIndices == {0, 1, 2, 3}

Full == [filter |-> TRUE, sort |-> TRUE]
Scan == [filter |-> FALSE, sort |-> FALSE]

Of(c, h, e, t) == [caps |-> c, honours |-> h, echo |-> e, totals |-> t]

(* This server over two kinds of store, a terse one, and two that ignore    *)
(* startIndex, one of them terse.                                          *)
MCTargets == {Of(Full, TRUE, "asked", TRUE), Of(Scan, TRUE, "asked", TRUE),
              Of(Full, TRUE, "none", FALSE), Of(Full, FALSE, "own", TRUE),
              Of(Full, FALSE, "none", FALSE)}

List(f, s, i, c) == [filter |-> f, sortBy |-> s, sortOrder |-> Absent, startIndex |-> i, count |-> c,
                     lookup |-> FALSE]

Lookup == [List("match", Absent, 0, 0) EXCEPT !.lookup = TRUE]

MCQueries == {List(Absent, Absent, 2, 1), List("match", "key", 1, 3), Lookup}

==============================================================================
