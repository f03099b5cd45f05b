------------------------------- MODULE ListWalk -------------------------------
(***************************************************************************)
(* The client's List iterator and Lookup (client/query.go) against a       *)
(* target whose resources change between one page and the next, and which  *)
(* may cap pages, keep totals to itself, or ignore startIndex.             *)
(*                                                                         *)
(* An exchange is one step: the target computes the page at one instant,   *)
(* and what the iterator does with it nobody else sees.  The target that   *)
(* honours startIndex answers as ListQuery's server does.                  *)
(***************************************************************************)
EXTENDS ListQuery

CONSTANTS
  Start,       \* the target's resources at first, oldest first
  Targets,     \* the targets walked
  Queries,     \* what the program lists or looks up
  MaxChanges,  \* bound: changes of the target's resources
  MaxPages     \* bound: pages fetched; no walk of this code gets that far

(* honours  startIndex is paid attention to                                *)
(* echo     the response's startIndex: as asked, the page's own, or left out *)
(* totals   totalResults is reported                                       *)
Target == [caps : Caps, honours : BOOLEAN, echo : {"asked", "own", "none"}, totals : BOOLEAN]

Query ==
  {q \in [filter : {Absent, "match"}, sortBy : {Absent, "key"}, sortOrder : {Absent, "descending"},
          startIndex : Indices, count : Indices, lookup : BOOLEAN] : q.lookup => q.startIndex <= 1}

ASSUME WalkAssumption ==
  /\ Targets \subseteq Target /\ Queries \subseteq Query
  /\ Start \in Seq(Row) /\ \A i, j \in DOMAIN Start : Start[i].id = Start[j].id => i = j
  /\ MaxChanges \in Nat /\ MaxPages \in Nat

VARIABLES
  target, stored,
  query,     \* the query walked
  at,        \* "idle", "walking", or how the walk ended
  start,     \* the iterator's cursor
  prev,      \* fingerprint of the previous page
  yielded,   \* ids handed to the program, in order
  pages, changes, gone,
  removed, inserted,   \* did the walked list lose, or gain in the middle, a resource
  first,               \* ids of the walked list when the walk began
  fewest, most         \* its smallest and largest length since

world  == <<target, stored, changes, gone>>
walk   == <<query, at, start, prev, yielded, pages>>
record == <<removed, inserted, first, fewest, most>>
vars   == <<world, walk, record>>

NoPage == [seen |-> FALSE, start |-> 0, n |-> 0, first |-> Absent]

Init ==
  /\ target \in Targets /\ stored = Start /\ changes = 0 /\ gone = {}
  /\ query \in Queries
  /\ at = "idle" /\ start = 1 /\ prev = NoPage /\ yielded = <<>> /\ pages = 0
  /\ removed = FALSE /\ inserted = FALSE /\ first = <<>> /\ fewest = 0 /\ most = 0

-----------------------------------------------------------------------------
(* The target.                                                             *)

(* What the query lists, whoever filters and sorts, and in one page.       *)
Listed(rows) ==
  Ordered(Matching(rows, query.filter),
          [sorted |-> query.sortBy # Absent, ascending |-> query.sortOrder # "descending"])

ListedIds(rows) ==
  LET listed == Listed(rows) IN [i \in DOMAIN listed |-> listed[i].id]

Request(from, count) ==
  [filter |-> query.filter, sortBy |-> query.sortBy, sortOrder |-> query.sortOrder,
   startIndex |-> IF target.honours THEN from ELSE 1, count |-> count,
   search |-> FALSE, projections |-> 0]

Answered(from, count) ==
  LET page == Respond(stored, Request(from, count), target.caps)
      echoed == CASE target.echo = "asked" -> from
                  [] target.echo = "own"   -> page.startIndex
                  [] target.echo = "none"  -> 0
  IN  ListResponse(echoed, [err |-> page.err, rows |-> page.rows,
                            total |-> IF target.totals THEN page.total ELSE 0])

(* Someone creates, deletes or changes a resource of the target.           *)
Change(rows) ==
  LET old == ListedIds(stored)
      new == ListedIds(rows)
      arrived(i) == new[i] \notin ToSet(old)
      common(s) == Selected(s, {i \in DOMAIN s : s[i] \in ToSet(old) \cap ToSet(new)})
      moved == common(old) # common(new)
  IN  /\ changes < MaxChanges
      /\ stored' = rows /\ changes' = changes + 1
      /\ IF at = "walking"
         THEN /\ removed' = (removed \/ moved \/ ToSet(old) \ ToSet(new) # {})
              /\ inserted' = (inserted \/ moved \/ \E i \in DOMAIN new :
                    arrived(i) /\ (new[i] \in ToSet(yielded) \/ \E j \in DOMAIN new : i < j /\ ~arrived(j)))
              /\ fewest' = Min({fewest, Len(new)}) /\ most' = Max({most, Len(new)})
         ELSE UNCHANGED <<removed, inserted, fewest, most>>
      /\ UNCHANGED <<target, walk, first>>

Create(row) ==
  /\ row.id \notin gone /\ \A i \in DOMAIN stored : stored[i].id # row.id
  /\ Change(Append(stored, row))
  /\ UNCHANGED gone

Delete(i) == Change(RemoveAt(stored, i)) /\ gone' = gone \cup {stored[i].id}

Update(i, hit, key) ==
  /\ Change([stored EXCEPT ![i] = [id |-> @.id, hit |-> hit, key |-> key, version |-> @.version + 1]])
  /\ UNCHANGED gone

-----------------------------------------------------------------------------
(* The iterator.                                                           *)

Begin ==
  /\ at = "idle"
  /\ at' = "walking" /\ start' = Max({query.startIndex, 1})
  /\ first' = ListedIds(stored)
  /\ fewest' = Len(Listed(stored)) /\ most' = Len(Listed(stored))
  /\ UNCHANGED <<world, query, prev, yielded, pages, removed, inserted>>

(* Lookup asks for two; an unset count is the default page.                *)
Count ==
  IF query.lookup THEN 2 ELSE IF query.count <= 0 THEN DefaultPageSize ELSE query.count

Fingerprint(page) ==
  [seen |-> TRUE, start |-> page.startIndex, n |-> Len(page.rows),
   first |-> IF page.rows = <<>> THEN Absent ELSE Head(page.rows)]

Stalled_ByEchoOnly(fp) ==
  prev.seen /\ fp.n # 0 /\ fp.start # 0 /\ fp.start = prev.start

(* The page echoes the previous startIndex, or looks like the last one.    *)
Stalled(fp) ==
  /\ prev.seen /\ fp.n # 0
  /\ \/ fp.start # 0 /\ fp.start = prev.start
     \/ fp.n = prev.n /\ fp.first = prev.first

Advanced_ByCount(page) == start + Count

Advanced_Overlapping(page) == start + Max({Len(page.rows) - 1, 1})

Advanced(page) == start + Len(page.rows)

LastPage_WhenShort(page) == Len(page.rows) < Count

(* An empty page, or the cursor beyond a reported total; not a short page, *)
(* since targets cap them.                                                 *)
LastPage(page) == page.rows = <<>> \/ (page.total > 0 /\ Advanced(page) > page.total)

Ambiguous_Never(got) == FALSE

(* Lookup gives up on the second resource it is handed.                    *)
Ambiguous(got) == query.lookup /\ Len(got) > 1

Exchange == at = "walking" /\ pages < MaxPages /\ pages' = pages + 1

Fetch ==
  /\ Exchange
  /\ \E page \in {Answered(start, Count)} :
     LET fp  == Fingerprint(page)
         got == yielded \o [i \in DOMAIN page.rows |-> page.rows[i].id]
     IN  \/ /\ page.err # "none"
            /\ at' = "refused" /\ UNCHANGED <<start, prev, yielded>>
         \/ /\ page.err = "none" /\ Stalled(fp)
            /\ at' = "stalled" /\ UNCHANGED <<start, prev, yielded>>
         \/ /\ page.err = "none" /\ ~Stalled(fp)
            /\ prev' = fp /\ yielded' = got /\ start' = Advanced(page)
            /\ at' = CASE Ambiguous(got) -> "ambiguous"
                       [] ~Ambiguous(got) /\ LastPage(page) -> "done"
                       [] OTHER -> "walking"
  /\ UNCHANGED <<world, query, record>>

(* The exchange fails for good, or the program stops iterating.            *)
Break == at = "walking" /\ at' = "broken" /\ UNCHANGED <<world, query, start, prev, yielded, pages, record>>

Next ==
  \/ Begin \/ Fetch \/ Break
  \/ \E id \in Ids, hit \in BOOLEAN, key \in Keys \cup {NoKey} :
        Create([id |-> id, hit |-> hit, key |-> key, version |-> 1])
  \/ \E i \in DOMAIN stored : Delete(i)
  \/ \E i \in DOMAIN stored, hit \in BOOLEAN, key \in Keys \cup {NoKey} : Update(i, hit, key)

Spec == Init /\ [][Next]_vars

(* Every exchange ends; no other step counts a page.                       *)
FairSpec == Spec /\ WF_pages(Exchange)

-----------------------------------------------------------------------------
(* Properties.                                                             *)

Ended == {"done", "stalled", "ambiguous", "refused", "broken"}

Walked == SubSeq(first, Max({query.startIndex, 1}), Len(first))

(* Over a list that did not change a finished walk yields every resource   *)
(* from StartIndex on, once and in order, whether the target caps pages,   *)
(* reports totals and echoes startIndex or not (List).                     *)
QuietWalkExact ==
  at = "done" /\ target.honours /\ changes = 0 => yielded = Walked

(* "duplicates or gaps are possible across pages under concurrent          *)
(* mutation" (List): resources are skipped by a finished walk only when    *)
(* one left the list, or moved in it, and repeated only when one arrived   *)
(* before others, or moved.                                                *)
DriftHasCause ==
  target.honours =>
    /\ at = "done" /\ ~removed => ToSet(Walked) \subseteq ToSet(yielded)
    /\ ~inserted => Cardinality(ToSet(yielded)) = Len(yielded)

(* Lookup says there is none, one or several only if at some moment of the *)
(* call none matched, at most one did, or at least two.                    *)
LookupSound ==
  query.lookup /\ target.honours =>
    /\ at = "done" => fewest <= Len(yielded) /\ Len(yielded) <= 1
    /\ at = "ambiguous" => most >= 2

(* A walk ends against every target, one that serves its first page for    *)
(* ever included (pageFingerprint).                                        *)
WalkEnds == at = "walking" ~> at \in Ended

==============================================================================
