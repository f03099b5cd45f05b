------------------------------ MODULE ListService -----------------------------
(***************************************************************************)
(* List requests served by ListQuery while the store's resources come, go  *)
(* and change: what an answer says of the resources stored when it was     *)
(* computed.                                                               *)
(***************************************************************************)
EXTENDS ListQuery

CONSTANTS
  Raws,     \* the requests clients send
  MaxRows   \* bound: resources stored

ASSUME RawsAssumption == Raws \subseteq Raw /\ MaxRows \in Nat

VARIABLES
  stored,   \* the store's resources in its order
  caps,     \* what the store says it supports
  asked,    \* the last request, Absent when the store changed since
  answer    \* its answer

vars == <<stored, caps, asked, answer>>

Init ==
  /\ stored = <<>> /\ caps \in Caps
  /\ asked = Absent /\ answer = Absent

(* GET of the collection, or POST /.search.  It changes nothing, so that   *)
(* one between two changes of the store is enough.                         *)
List(raw) ==
  /\ asked = Absent
  /\ asked' = raw
  /\ answer' = Respond(stored, raw, caps)
  /\ UNCHANGED <<stored, caps>>

Unanswered == asked' = Absent /\ answer' = Absent /\ UNCHANGED caps

Create(row) ==
  /\ Len(stored) < MaxRows
  /\ \A i \in DOMAIN stored : stored[i].id # row.id
  /\ stored' = Append(stored, row)
  /\ Unanswered

Delete(i) == stored' = RemoveAt(stored, i) /\ Unanswered

Next ==
  \/ \E raw \in Raws : List(raw)
  \/ \E id \in Ids, hit \in BOOLEAN, key \in Keys \cup {NoKey} :
        Create([id |-> id, hit |-> hit, key |-> key, version |-> 1])
  \/ \E i \in DOMAIN stored : Delete(i)

Spec == Init /\ [][Next]_vars

-----------------------------------------------------------------------------
(* Properties.                                                             *)

Matches == {i \in DOMAIN stored : asked.filter = "match" => stored[i].hit}

(* RFC 7644's order, stated on positions: by key in the direction asked    *)
(* for, resources without one last, ties and unsorted lists as stored.     *)
Precedes(i, j) ==
  LET a == stored[i].key
      b == stored[j].key
  IN  IF asked.sortBy = Absent \/ a = b THEN i < j
      ELSE b = NoKey \/ (a # NoKey /\ (a < b <=> asked.sortOrder # "descending"))

Place(i) == Cardinality({j \in Matches : j = i \/ Precedes(j, i)})

(* Whether the server must hold more resources than MaxFilterResults to    *)
(* answer a query the store cannot serve alone: all of them, or those the  *)
(* store filtered.                                                         *)
ScanTooBig ==
  /\ \/ asked.filter # Absent /\ ~caps.filter
     \/ asked.sortBy # Absent /\ ~caps.sort
  /\ (IF caps.filter THEN Cardinality(Matches) ELSE Len(stored)) > MaxFilterResults

(* Whether the filter and the order are the store's work or the server's,  *)
(* an answer is the same: the resources at the requested places of the     *)
(* filtered, ordered list, at most MaxPageSize of them, and how many there *)
(* are in all (runQuery).  It is tooMany exactly when the scan is too big, *)
(* never a list silently cut (scanQuery).  No request makes the server     *)
(* panic on the window it cuts (paginate).                                 *)
AnswerExact ==
  asked # Absent /\ answer.err \in {"none", "tooMany", "internal"} =>
    LET from  == IF asked.startIndex = Absent \/ asked.startIndex < 1 THEN 1 ELSE asked.startIndex
        asks  == IF asked.count = Absent THEN DefaultPageSize ELSE asked.count
        upTo  == from + (IF asks > MaxPageSize THEN MaxPageSize ELSE asks) - 1
        there == {i \in Matches : Place(i) \in from..upTo}
    IN  /\ answer.err # "internal"
        /\ (answer.err = "tooMany" <=> ScanTooBig)
        /\ answer.err = "none" =>
             /\ answer.total = Cardinality(Matches)
             /\ answer.startIndex = from
             /\ Len(answer.rows) = Cardinality(there)
             /\ \A i \in there : answer.rows[Place(i) - from + 1] = stored[i]

==============================================================================
