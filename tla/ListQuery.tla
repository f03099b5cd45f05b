------------------------------- MODULE ListQuery ------------------------------
(***************************************************************************)
(* The server's list requests (server/query.go, engine.go,                 *)
(* handler_query.go) over a store of one resource type: the normalisation  *)
(* of the parameters, the choice between pushing a query down and scanning *)
(* in memory, and the answer's page.                                       *)
(*                                                                         *)
(* The stored resources are a sequence, in the store's own stable order.   *)
(* Of a resource a list tells apart its id, whether the filter matches it, *)
(* its sort key and its version.  No operator here changes anything.       *)
(***************************************************************************)
EXTENDS ListOps, FiniteSets, TLC

CONSTANTS
  Ids,
  Keys,               \* sort keys
  Indices,            \* the numbers clients send as startIndex and count
  Absent,             \* a parameter that is not sent
  Garbled,            \* one that does not parse
  MaxFilterResults, DefaultPageSize, MaxPageSize   \* server.Config

ASSUME QueryAssumption ==
  /\ Keys \subseteq Nat
  /\ Indices \subseteq -(MaxInt + 1)..MaxInt
  /\ MaxFilterResults \in 1..MaxInt
  /\ DefaultPageSize \in 1..MaxPageSize /\ MaxPageSize \in 1..MaxInt
  /\ Absent # Garbled /\ Absent \notin Int /\ Garbled \notin Int
  /\ {Absent, Garbled} \cap {"match", "illTyped", "unknown", "key", "ascending", "descending"} = {}

Row == [id : Ids, hit : BOOLEAN, key : Keys \cup {NoKey}, version : Nat]

(* What a store says of itself: FilterUnsupported, SortUnsupported; a      *)
(* store without them supports everything.                                 *)
Caps == [filter : BOOLEAN, sort : BOOLEAN]

-----------------------------------------------------------------------------
(* Parameters.  A filter that parses may still compare a value in a way    *)
(* its type does not allow: illTyped, found when it meets a resource.      *)

Raw == [filter : {Absent, Garbled, "match", "illTyped"},
        sortBy : {Absent, Garbled, "unknown", "key"},
        sortOrder : {Absent, Garbled, "ascending", "descending"},
        startIndex : Indices \cup {Absent, Garbled},
        count : Indices \cup {Absent, Garbled},
        search : BOOLEAN,      \* POST /.search, whose body has the numbers as JSON
        projections : 0..2]    \* of attributes and excludedAttributes, those given

(* parseListParams, parseSearchBody and rawListParams.normalize: the first *)
(* error there is, or "none".                                              *)
ParamError(raw) ==
  IF raw.search /\ Garbled \in {raw.startIndex, raw.count} THEN "invalidSyntax"
  ELSE IF raw.projections = 2 THEN "invalidValue"
  ELSE IF raw.filter = Garbled THEN "invalidFilter"
  ELSE IF \/ raw.sortBy \in {Garbled, "unknown"}
          \/ Garbled \in {raw.sortOrder, raw.startIndex, raw.count} THEN "invalidValue"
  ELSE "none"

Normalized_Unclamped(raw) ==
  [filter     |-> raw.filter,
   sorted     |-> raw.sortBy # Absent,
   ascending  |-> raw.sortOrder # "descending",
   startIndex |-> IF raw.startIndex = Absent THEN 1 ELSE Max({raw.startIndex, 1}),
   count      |-> IF raw.count = Absent THEN DefaultPageSize ELSE Max({raw.count, 0})]

Normalized(raw) ==
  [filter     |-> raw.filter,
   sorted     |-> raw.sortBy # Absent,
   ascending  |-> raw.sortOrder # "descending",
   startIndex |-> IF raw.startIndex = Absent THEN 1 ELSE Max({raw.startIndex, 1}),
   count      |-> IF raw.count = Absent THEN DefaultPageSize
                  ELSE Min({Max({raw.count, 0}), MaxPageSize})]

-----------------------------------------------------------------------------
(* Results: a page with the filtered total, or an error.                   *)

Page(rows, total) == [err |-> "none", rows |-> rows, total |-> total]

Refused(err) == [err |-> err, rows |-> <<>>, total |-> 0]

Accepts(filter, r) == filter = Absent \/ r.hit

Matching(rows, filter) == Selected(rows, {i \in DOMAIN rows : Accepts(filter, rows[i])})

KeyOf(rows) == [r \in ToSet(rows) |-> r.key]

Ordered(rows, q) ==
  IF q.sorted THEN SortResources(rows, KeyOf(rows), q.ascending) ELSE rows

(* paginate: a window that wraps panics, and withRecover answers 500.      *)
Cut(list, q) ==
  IF WindowWraps(list, q.startIndex, q.count) THEN Refused("internal")
  ELSE Page(Paginate(list, q.startIndex, q.count), Len(list))

(* Store.List, of a store that can evaluate what the query asks of it.     *)
StoreList(stored, q) ==
  LET matched == Ordered(Matching(stored, q.filter), q)
  IN  IF q.filter = "illTyped" /\ stored # <<>> THEN Refused("invalidFilter")
      ELSE Cut(matched, q)

(* What the scan asks of the store: one row more than the bound allows.    *)
ScanFetch(q, pushFilter) ==
  [filter |-> IF pushFilter THEN q.filter ELSE Absent, sorted |-> FALSE,
   ascending |-> FALSE, startIndex |-> 1, count |-> Wrapped(MaxFilterResults + 1)]

OverLimit_CountsPage(page) == Len(page.rows) > MaxFilterResults + 1

OverLimit(page) == page.total > MaxFilterResults \/ Len(page.rows) > MaxFilterResults

ScanQuery_SortsPage(stored, q, pushFilter) ==
  LET page    == StoreList(stored, ScanFetch(q, pushFilter))
      matched == IF pushFilter THEN page.rows ELSE Matching(page.rows, q.filter)
  IN  IF page.err # "none" THEN page
      ELSE IF OverLimit(page) THEN Refused("tooMany")
      ELSE IF ~pushFilter /\ q.filter = "illTyped" /\ page.rows # <<>> THEN Refused("invalidFilter")
      ELSE [Cut(matched, q) EXCEPT !.rows = Ordered(@, q)]

ScanQuery(stored, q, pushFilter) ==
  LET page    == StoreList(stored, ScanFetch(q, pushFilter))
      matched == IF pushFilter THEN page.rows ELSE Matching(page.rows, q.filter)
  IN  IF page.err # "none" THEN page
      ELSE IF OverLimit(page) THEN Refused("tooMany")
      ELSE IF ~pushFilter /\ q.filter = "illTyped" /\ page.rows # <<>> THEN Refused("invalidFilter")
      ELSE Cut(Ordered(matched, q), q)

PushFilter(q, caps) == q.filter = Absent \/ caps.filter

PushSort(q, caps) == ~q.sorted \/ caps.sort

RunQuery(stored, q, caps) ==
  IF PushFilter(q, caps) /\ PushSort(q, caps)
  THEN StoreList(stored, q)
  ELSE ScanQuery(stored, q, PushFilter(q, caps))

(* handleList, handleSearch, respondList: the answer with its startIndex.  *)
ListResponse(startIndex, page) ==
  [startIndex |-> startIndex, err |-> page.err, rows |-> page.rows, total |-> page.total]

Respond(stored, raw, caps) ==
  IF ParamError(raw) # "none" THEN ListResponse(0, Refused(ParamError(raw)))
  ELSE ListResponse(Normalized(raw).startIndex, RunQuery(stored, Normalized(raw), caps))

==============================================================================
