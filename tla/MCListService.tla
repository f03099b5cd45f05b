---------------------------- MODULE MCListService ----------------------------
(* Instances of ListService: every store of up to MaxRows resources.       *)
EXTENDS ListService

MCIndices == {-1, 0, 1, 2, 3, 4}

Ask(f, s, o, i, c) ==
  [filter |-> f, sortBy |-> s, sortOrder |-> o, startIndex |-> i, count |-> c,
   search |-> FALSE, projections |-> 0]

(* Well-formed requests, and those with one parameter that is refused.     *)
MCRaws ==
  {Ask(f, s, o, i, c) : f \in {Absent, "match", "illTyped"}, s \in {Absent, "key"},
                        o \in {Absent, "descending"}, i \in {Absent, 0, 2, 3}, c \in {Absent, -1, 1, 4}}
  \cup {Ask(Garbled, "unknown", Absent, Absent, Absent), Ask(Absent, "unknown", Absent, 1, 1),
        Ask(Absent, Garbled, Absent, 1, 1), Ask(Absent, Absent, Garbled, 1, 1),
        Ask(Absent, Absent, "ascending", Garbled, 1), Ask("match", Absent, Absent, 3, Garbled),
        [Ask(Absent, Absent, Absent, 1, Garbled) EXCEPT !.search = TRUE],
        [Ask(Garbled, Absent, Absent, 1, 1) EXCEPT !.projections = 2]}

Symmetric == Permutations(Ids)

==============================================================================
