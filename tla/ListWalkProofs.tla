---------------------------- MODULE ListWalkProofs ----------------------------
(***************************************************************************)
(* Theorems about ListWalk, for lists of any length, pages of any size and *)
(* any number of changes: what a walk over a target that honours           *)
(* startIndex hands to the program.                                        *)
(***************************************************************************)
EXTENDS ListWalk, ListProofs

-----------------------------------------------------------------------------
(* What the server's operators return.                                     *)

(* No resource is there twice.                                             *)
IdsOnce(rows) == \A i, j \in DOMAIN rows : rows[i].id = rows[j].id => i = j

Rows == {rows \in Seq(Row) : IdsOnce(rows)}

LEMMA RowFacts ==
  ASSUME NEW r \in Row
  PROVE  r.id \in Ids /\ r.key \in Nat \cup {NoKey}
  BY QueryAssumption DEF Row

LEMMA MatchingIs ==
  ASSUME NEW rows \in Rows, NEW filter
  PROVE  Matching(rows, filter) \in Rows
<1> DEFINE places == {i \in DOMAIN rows : Accepts(filter, rows[i])}
           kept == Selected(rows, places)
<1>1. Matching(rows, filter) = kept
  BY DEF Matching
<1>2. rows \in Seq(Row) /\ IdsOnce(rows)
  BY DEF Rows
<1> HIDE DEF places
<1>3. kept \in Seq(Row)
  BY <1>2, SelectedIs
<1>4. PICK place : IsSelection(place, kept, rows, places)
  BY <1>2, SelectedIs
<1> HIDE DEF kept
<1>5. ASSUME NEW i \in DOMAIN kept, NEW j \in DOMAIN kept, kept[i].id = kept[j].id PROVE i = j
  <2>1. place[i] \in DOMAIN rows /\ place[j] \in DOMAIN rows /\ kept[i] = rows[place[i]] /\ kept[j] = rows[place[j]]
    BY <1>4 DEF IsSelection
  <2>2. place[i] = place[j]
    BY <1>2, <1>5, <2>1 DEF IdsOnce
  <2>3. i \in Nat /\ j \in Nat /\ place[i] \in Nat
    BY <1>2, <1>3, <2>1
  <2>4. ~(i < j) /\ ~(j < i)
    BY <1>4, <2>2, <2>3 DEF IsSelection
  <2> QED BY <2>3, <2>4
<1> QED BY <1>1, <1>3, <1>5 DEF Rows, IdsOnce

LEMMA KeysOf ==
  ASSUME NEW rows \in Seq(Row)
  PROVE  HasKeys(rows, KeyOf(rows))
<1> SUFFICES ASSUME NEW i \in DOMAIN rows PROVE KeyOf(rows)[rows[i]] \in Nat \cup {NoKey}
  BY DEF HasKeys
<1>1. rows[i] \in Row /\ rows[i] \in ToSet(rows)
  BY DEF ToSet
<1>2. KeyOf(rows)[rows[i]] = rows[i].key
  BY <1>1 DEF KeyOf
<1> QED BY <1>1, <1>2, RowFacts

LEMMA OrderedIs ==
  ASSUME NEW rows \in Rows, NEW q, q.ascending \in BOOLEAN
  PROVE  Ordered(rows, q) \in Rows /\ Len(Ordered(rows, q)) = Len(rows)
<1>1. rows \in Seq(Row) /\ IdsOnce(rows)
  BY DEF Rows
<1>2. CASE q.sorted
  <2> DEFINE key == KeyOf(rows)
             asc == q.ascending
             order == Ahead(rows, key, asc)
             out == SortResources(rows, key, asc)
             n == Len(rows)
  <2>1. HasKeys(rows, key)
    BY <1>1, KeysOf
  <2>2. asc \in BOOLEAN
    OBVIOUS
  <2>3. Ordered(rows, q) = out
    BY <1>2 DEF Ordered
  <2>4. n \in Nat /\ DOMAIN rows = 1..n /\ \A i \in 1..n : rows[i] \in Row
    BY <1>1
  <2> HIDE DEF key, asc
  <2>5. out \in Seq(Row)
    BY <1>1, <2>1, <2>2, SortedIs
  <2>6. PICK p : IsSorting(p, out, rows, key, asc)
    BY <1>1, <2>1, <2>2, SortedIs
  <2>7. StrictOrder(order, 1..n)
    BY <1>1, <2>1, <2>2, <2>4, AheadIsOrder
  <2>8. Arranges(p, order, n) /\ Len(out) = n /\ \A k \in 1..n : out[k] = rows[p[k]]
    BY <2>6 DEF IsSorting
  <2> HIDE DEF n, order, out
  <2>9. p \in [1..n -> 1..n] /\ \A k, l \in 1..n : p[k] = p[l] => k = l
    <3>1. \A k, l \in 1..n : p[k] = p[l] => k = l
      BY <2>4, <2>7, <2>8, ArrangesOnce
    <3> QED BY <2>8, <3>1 DEF Arranges
  <2>10. IdsOnce(out)
    <3>1. DOMAIN out = 1..n
      BY <2>5, <2>8
    <3> QED BY <1>1, <2>4, <2>8, <2>9, <3>1 DEF IdsOnce
  <2> QED BY <2>3, <2>5, <2>8, <2>10 DEF Rows, n
<1>3. CASE ~q.sorted
  BY <1>3 DEF Ordered
<1> QED BY <1>2, <1>3

(* The list a query asks for, before it is cut.                            *)
Whole(rows, q) == Ordered(Matching(rows, q.filter), q)

(* The scan holds the same list as the store's own filter and order.       *)
LEMMA ScanIs ==
  ASSUME MaxFilterResults < MaxInt, NEW rows \in Rows, NEW q, NEW push \in BOOLEAN,
         q.filter \in {Absent, "match"}, ScanQuery(rows, q, push).err = "none"
  PROVE  ScanQuery(rows, q, push) = Page(Paginate(Whole(rows, q), q.startIndex, q.count), Len(Whole(rows, q)))
<1> DEFINE fetch == ScanFetch(q, push)
           f == IF push THEN q.filter ELSE Absent
           M == Matching(rows, f)
           limit == MaxFilterResults + 1
           page == StoreList(rows, fetch)
<1>1. limit \in Nat \ {0} /\ limit \in 1..MaxInt /\ Wrapped(MaxFilterResults + 1) = limit
  BY QueryAssumption, IntAssumption DEF Wrapped
<1>2. /\ fetch.filter = f /\ fetch.sorted = FALSE /\ fetch.startIndex = 1
      /\ fetch.count = limit
  BY <1>1 DEF ScanFetch
<1>3. M \in Rows /\ M \in Seq(Row)
  BY MatchingIs DEF Rows
<1>4. page = Page(Paginate(M, 1, limit), Len(M))
  <2>1. f # "illTyped"
    BY QueryAssumption
  <2>2. ~WindowWraps(M, 1, limit)
    BY <1>1, FirstPage
  <2> HIDE DEF fetch, limit, f
  <2>3. page = Cut(M, fetch)
    BY <1>2, <2>1 DEF StoreList, Ordered
  <2> QED BY <1>2, <2>2, <2>3 DEF Cut
<1> HIDE DEF fetch, limit, page
<1>5. page.err = "none" /\ page.total = Len(M) /\ page.rows = Paginate(M, 1, limit)
  BY <1>4 DEF Page
<1>6. ~OverLimit(page)
  BY <1>5 DEF ScanQuery, Refused, page, fetch
<1>7. page.rows = M
  <2>1. Len(M) <= limit
    <3>1. Len(M) \in Nat
      BY <1>3
    <3>2. ~(Len(M) > MaxFilterResults)
      BY <1>5, <1>6 DEF OverLimit
    <3> QED BY <3>1, <3>2, QueryAssumption DEF limit
  <2> QED BY <1>1, <1>3, <1>5, <2>1, WholePage
<1> DEFINE matched == IF push THEN page.rows ELSE Matching(page.rows, q.filter)
<1>8. matched = Matching(rows, q.filter)
  <2>1. CASE push
    BY <2>1, <1>7
  <2>2. CASE ~push
    <3>1. M = rows
      <4> DEFINE all == {i \in DOMAIN rows : Accepts(Absent, rows[i])}
      <4>1. DOMAIN rows \subseteq all
        BY DEF Accepts
      <4>2. M = Selected(rows, all)
        BY <2>2 DEF Matching
      <4> HIDE DEF all
      <4>3. rows \in Seq(Row)
        BY DEF Rows
      <4> QED BY <4>1, <4>2, <4>3, SelectedAll
    <3> QED BY <2>2, <3>1, <1>7
  <2> QED BY <2>1, <2>2
<1>9. ScanQuery(rows, q, push) = Cut(Ordered(matched, q), q)
  <2>1. q.filter # "illTyped"
    BY QueryAssumption
  <2> HIDE DEF M, f
  <2> QED BY <2>1, <1>5, <1>6 DEF ScanQuery, page, fetch
<1> HIDE DEF matched
<1>10. ScanQuery(rows, q, push) = Cut(Whole(rows, q), q)
  BY <1>8, <1>9 DEF Whole
<1> QED BY <1>10 DEF Cut, Refused

LEMMA QueryIs ==
  ASSUME MaxFilterResults < MaxInt, NEW rows \in Rows, NEW q, NEW caps,
         q.filter \in {Absent, "match"}, q.ascending \in BOOLEAN, RunQuery(rows, q, caps).err = "none"
  PROVE  RunQuery(rows, q, caps) = Page(Paginate(Whole(rows, q), q.startIndex, q.count), Len(Whole(rows, q)))
<1>1. CASE PushFilter(q, caps) /\ PushSort(q, caps)
  <2>1. q.filter # "illTyped"
    BY QueryAssumption
  <2>2. RunQuery(rows, q, caps) = StoreList(rows, q)
    BY <1>1 DEF RunQuery
  <2>3. RunQuery(rows, q, caps) = Cut(Whole(rows, q), q)
    BY <2>1, <2>2 DEF StoreList, Whole
  <2> QED BY <2>3 DEF Cut, Refused
<1>2. CASE ~(PushFilter(q, caps) /\ PushSort(q, caps))
  <2> DEFINE push == PushFilter(q, caps)
  <2>1. RunQuery(rows, q, caps) = ScanQuery(rows, q, push)
    BY <1>2 DEF RunQuery
  <2>2. push \in BOOLEAN
    BY DEF PushFilter
  <2> HIDE DEF push
  <2> QED BY <2>1, <2>2, ScanIs
<1> QED BY <1>1, <1>2

-----------------------------------------------------------------------------
(* A page of a target that honours startIndex.                             *)

LEMMA ListedIs ==
  ASSUME NEW rows \in Rows
  PROVE  Listed(rows) \in Rows
<1> DEFINE q == [sorted |-> query.sortBy # Absent, ascending |-> query.sortOrder # "descending"]
<1>1. q.ascending \in BOOLEAN
  OBVIOUS
<1>2. Matching(rows, query.filter) \in Rows
  BY MatchingIs
<1>3. Listed(rows) = Ordered(Matching(rows, query.filter), q)
  BY DEF Listed
<1> HIDE DEF q
<1> QED BY <1>1, <1>2, <1>3, OrderedIs

LEMMA AnsweredIs ==
  ASSUME MaxFilterResults < MaxInt, stored \in Rows, query \in Query, target \in Target, target.honours,
         NEW from \in Nat \ {0}, NEW count \in Nat \ {0}, Answered(from, count).err = "none"
  PROVE  /\ Answered(from, count).rows \in Seq(Row)
         /\ \E c \in 1..count : IsPage(Answered(from, count).rows, Listed(stored), from, c)
         /\ Answered(from, count).total \in {0, Len(Listed(stored))}
<1> DEFINE raw == Request(from, count)
           q == Normalized(raw)
           c == Min({count, MaxPageSize})
           list == Listed(stored)
           page == RunQuery(stored, q, target.caps)
<1>1. raw.filter = query.filter /\ raw.sortBy = query.sortBy /\ raw.sortOrder = query.sortOrder
      /\ raw.startIndex = from /\ raw.count = count
  BY DEF Request
<1>2. c \in 1..count
  <2>1. MaxPageSize \in Nat \ {0}
    BY QueryAssumption
  <2>2. c = IF count < MaxPageSize THEN count ELSE MaxPageSize
    BY <2>1, TwoNumbers
  <2> HIDE DEF c
  <2> QED BY <2>1, <2>2
<1> HIDE DEF raw, c
<1>3. /\ q.filter = query.filter /\ q.sorted = (query.sortBy # Absent)
      /\ q.ascending = (query.sortOrder # "descending") /\ q.startIndex = from /\ q.count = c
  <2>1. from # Absent /\ count # Absent
    BY QueryAssumption
  <2>2. Max({from, 1}) = from /\ Max({count, 0}) = count
    BY TwoNumbers
  <2> QED BY <1>1, <2>1, <2>2 DEF Normalized, c
<1>4. q.filter \in {Absent, "match"} /\ q.ascending \in BOOLEAN
  BY <1>3 DEF Query
<1> HIDE DEF q
<1>5. Ordered(Matching(stored, query.filter), q) = list
  BY <1>3 DEF Ordered, Listed
<1>6. Whole(stored, q) = list
  BY <1>3, <1>5 DEF Whole
<1>7. Answered(from, count).rows = Respond(stored, raw, target.caps).rows
      /\ Answered(from, count).err = Respond(stored, raw, target.caps).err
      /\ Answered(from, count).total \in {0, Respond(stored, raw, target.caps).total}
  BY DEF Answered, ListResponse, raw
<1>8. ParamError(raw) = "none"
  BY <1>7 DEF Respond, ListResponse, Refused
<1>9. Respond(stored, raw, target.caps) = ListResponse(q.startIndex, page)
  BY <1>8 DEF Respond, q
<1> HIDE DEF page
<1>10. /\ Answered(from, count).rows = page.rows /\ page.err = "none"
       /\ Answered(from, count).total \in {0, page.total}
  BY <1>7, <1>9 DEF ListResponse
<1>11. page = Page(Paginate(list, from, c), Len(list))
  <2>1. page = Page(Paginate(Whole(stored, q), q.startIndex, q.count), Len(Whole(stored, q)))
    <3> USE DEF page
    <3>1. RunQuery(stored, q, target.caps).err = "none"
      BY <1>10
    <3> QED BY <1>4, <3>1, QueryIs
  <2> QED BY <1>3, <1>6, <2>1
<1>12. list \in Seq(Row)
  BY ListedIs DEF Rows
<1> HIDE DEF list
<1>13. Paginate(list, from, c) \in Seq(Row) /\ IsPage(Paginate(list, from, c), list, from, c)
  <2>1. c \in Nat \ {0}
    BY <1>2
  <2> QED BY <2>1, <1>12, PaginateIs
<1>14. page.rows = Paginate(list, from, c) /\ page.total = Len(list)
  BY <1>11 DEF Page
<1> QED BY <1>2, <1>10, <1>13, <1>14 DEF list

(* The walked list as ids.                                                 *)
IdLists == {ids \in Seq(Ids) : Distinct(ids)}

LEMMA ListedIdsAre ==
  ASSUME NEW rows \in Rows
  PROVE  /\ ListedIds(rows) \in IdLists /\ Len(ListedIds(rows)) = Len(Listed(rows))
         /\ \A i \in 1..Len(Listed(rows)) : ListedIds(rows)[i] = Listed(rows)[i].id
<1> DEFINE list == Listed(rows)
           ids == [i \in DOMAIN list |-> list[i].id]
<1>1. list \in Seq(Row) /\ IdsOnce(list)
  BY ListedIs DEF Rows
<1>2. ListedIds(rows) = ids
  BY Zenon DEF ListedIds
<1> HIDE DEF list
<1>3. DOMAIN list = 1..Len(list) /\ Len(list) \in Nat /\ \A i \in 1..Len(list) : list[i].id \in Ids
  BY <1>1, RowFacts
<1>4. ids \in Seq(Ids) /\ Len(ids) = Len(list) /\ \A i \in 1..Len(list) : ids[i] = list[i].id
  BY <1>3
<1> HIDE DEF ids
<1>5. Distinct(ids)
  BY <1>1, <1>3, <1>4 DEF IdsOnce, Distinct
<1> QED BY <1>2, <1>4, <1>5 DEF IdLists, list

-----------------------------------------------------------------------------
(* How a change moves what it leaves.                                      *)

Common(ids, old, new) == Selected(ids, {i \in DOMAIN ids : ids[i] \in ToSet(old) \cap ToSet(new)})

(* The ids two lists share are in one order in both.                       *)
InOrder(old, new) ==
  \A i, j \in DOMAIN old, k, l \in DOMAIN new : old[i] = new[k] /\ old[j] = new[l] /\ i < j => k < l

LEMMA SharedOrder ==
  ASSUME NEW old \in IdLists, NEW new \in IdLists, Common(old, old, new) = Common(new, old, new)
  PROVE  InOrder(old, new)
<1> DEFINE P == {i \in DOMAIN old : old[i] \in ToSet(old) \cap ToSet(new)}
           Q == {i \in DOMAIN new : new[i] \in ToSet(old) \cap ToSet(new)}
<1>1. Selected(old, P) = Selected(new, Q)
  BY DEF Common
<1>2. ASSUME NEW i \in DOMAIN old, NEW k \in DOMAIN new, old[i] = new[k] PROVE i \in P
  BY <1>2 DEF ToSet
<1>3. old \in Seq(Ids) /\ new \in Seq(Ids) /\ Distinct(old) /\ Distinct(new)
  BY DEF IdLists
<1> HIDE DEF P, Q
<1>4. ASSUME NEW i \in DOMAIN old, NEW j \in DOMAIN old, NEW k \in DOMAIN new, NEW l \in DOMAIN new,
             old[i] = new[k], old[j] = new[l], i < j
      PROVE  k < l
  <2>1. i \in P \cap DOMAIN old /\ j \in P \cap DOMAIN old
    BY <1>2, <1>4
  <2> QED BY <1>1, <1>3, <1>4, <2>1, SameOrder
<1> QED BY <1>4 DEF InOrder

(* When nothing leaves a list, nothing in it moves forward.                *)
LEMMA NoneGone ==
  ASSUME NEW old \in IdLists, NEW new \in IdLists, InOrder(old, new), ToSet(old) \subseteq ToSet(new)
  PROVE  \A i \in DOMAIN old : \E k \in DOMAIN new : new[k] = old[i] /\ i <= k
<1> DEFINE n == Len(old)
           f == [i \in 1..n |-> CHOOSE k \in DOMAIN new : new[k] = old[i]]
<1>1. n \in Nat /\ DOMAIN old = 1..n /\ DOMAIN new = 1..Len(new) /\ Len(new) \in Nat
  BY DEF IdLists
<1>2. \A i \in 1..n : \E k \in DOMAIN new : new[k] = old[i]
  BY <1>1 DEF ToSet
<1>3. \A i \in 1..n : f[i] \in DOMAIN new /\ new[f[i]] = old[i]
  BY <1>2
<1>4. f = [i \in 1..n |-> f[i]]
  OBVIOUS
<1> HIDE DEF n, f
<1>5. f \in [1..n -> Nat \ {0}]
  BY <1>1, <1>3, <1>4
<1>6. \A i, j \in 1..n : i < j => f[i] < f[j]
  BY <1>1, <1>3 DEF InOrder
<1>7. \A i \in 1..n : i <= f[i]
  BY <1>1, <1>5, <1>6, Rising
<1> QED BY <1>1, <1>3, <1>7

(* When nothing is new among the first of a list, none of them has moved   *)
(* back.                                                                   *)
LEMMA NoneBefore ==
  ASSUME NEW old \in IdLists, NEW new \in IdLists, InOrder(old, new),
         NEW m \in DOMAIN new, \A i \in 1..m : new[i] \in ToSet(old)
  PROVE  \E j \in DOMAIN old : old[j] = new[m] /\ m <= j
<1> DEFINE f == [i \in 1..m |-> CHOOSE k \in DOMAIN old : old[k] = new[i]]
<1>1. /\ DOMAIN old = 1..Len(old) /\ Len(old) \in Nat
      /\ DOMAIN new = 1..Len(new) /\ Len(new) \in Nat /\ m \in Nat /\ m \in 1..m
      /\ \A i \in 1..m : i \in DOMAIN new
  BY DEF IdLists
<1>2. \A i \in 1..m : \E k \in DOMAIN old : old[k] = new[i]
  BY DEF ToSet
<1>3. \A i \in 1..m : f[i] \in DOMAIN old /\ old[f[i]] = new[i]
  BY <1>2
<1>4. f = [i \in 1..m |-> f[i]]
  OBVIOUS
<1> HIDE DEF f
<1>5. f \in [1..m -> Nat \ {0}]
  BY <1>1, <1>3, <1>4
<1>6. ASSUME NEW i \in 1..m, NEW j \in 1..m, i < j PROVE f[i] < f[j]
  <2>1. f[i] \in DOMAIN old /\ f[j] \in DOMAIN old /\ i \in DOMAIN new /\ j \in DOMAIN new
    BY <1>1, <1>3
  <2>2. f[i] # f[j]
    <3>1. new[i] # new[j]
      BY <1>1, <1>6, <2>1 DEF IdLists, Distinct
    <3> QED BY <1>3, <3>1
  <2>3. ~(f[j] < f[i])
    <3>1. ~(j < i)
      BY <1>1, <1>6
    <3> QED BY <1>3, <2>1, <3>1 DEF InOrder
  <2> QED BY <1>5, <2>2, <2>3
<1>7. \A i \in 1..m : i <= f[i]
  BY <1>1, <1>5, <1>6, Rising
<1> QED BY <1>1, <1>3, <1>7

-----------------------------------------------------------------------------
(* The steps.                                                              *)

From == Max({query.startIndex, 1})

(* What a query holds.                                                     *)
LEMMA QueryFacts ==
  ASSUME query \in Query
  PROVE  /\ query.startIndex \in Int /\ query.count \in Int /\ query.lookup \in BOOLEAN
         /\ query.lookup => query.startIndex <= 1
<1>1. query.startIndex \in Indices /\ query.count \in Indices /\ query.lookup \in BOOLEAN
      /\ (query.lookup => query.startIndex <= 1)
  BY DEF Query
<1>2. Indices \subseteq Int
  BY QueryAssumption
<1> QED BY <1>1, <1>2

(* Who walks what, and the target's resources.                             *)
Typed ==
  /\ target \in Target /\ query \in Query /\ stored \in Rows
  /\ at \in {"idle", "walking"} \cup Ended
  /\ changes \in Nat /\ fewest \in Nat /\ most \in Nat /\ removed \in BOOLEAN /\ inserted \in BOOLEAN
  /\ first \in Seq(Ids)

(* The iterator, against a target that honours startIndex.                 *)
Walker ==
  /\ start \in Nat \ {0} /\ yielded \in Seq(Ids)
  /\ at = "idle" => yielded = <<>>
  /\ at = "walking" => From <= start

LEMMA FromIs ==
  ASSUME query \in Query
  PROVE  /\ From \in Nat \ {0} /\ query.startIndex \in Int
         /\ query.lookup => From = 1
<1>1. query.startIndex \in Int /\ (query.lookup => query.startIndex <= 1)
  BY QueryFacts
<1>2. From = IF query.startIndex < 1 THEN 1 ELSE query.startIndex
  BY <1>1, TwoNumbers DEF From
<1> QED BY <1>1, <1>2

LEMMA CountIs ==
  ASSUME query \in Query
  PROVE  Count \in Nat \ {0} /\ (query.lookup => Count = 2)
<1>1. DefaultPageSize \in Nat \ {0}
  BY QueryAssumption
<1> QED BY <1>1, QueryFacts DEF Count

(* Every writer at the target leaves resources with ids of their own.      *)
LEMMA WritersChange ==
  ASSUME Typed, Next
  PROVE  Begin \/ Fetch \/ Break \/ \E rows \in Rows : Change(rows)
<1>0. stored \in Seq(Row) /\ IdsOnce(stored)
  BY DEF Typed, Rows
<1>0a. DOMAIN stored = 1..Len(stored) /\ Len(stored) \in Nat /\ \A i \in 1..Len(stored) : stored[i] \in Row
  BY <1>0
<1>1. ASSUME NEW id \in Ids, NEW hit \in BOOLEAN, NEW key \in Keys \cup {NoKey},
             Create([id |-> id, hit |-> hit, key |-> key, version |-> 1])
      PROVE  \E rows \in Rows : Change(rows)
  <2> DEFINE row == [id |-> id, hit |-> hit, key |-> key, version |-> 1]
             rows == Append(stored, row)
  <2>1. row \in Row
    BY DEF Row
  <2>2. Change(rows) /\ \A i \in DOMAIN stored : stored[i].id # row.id
    BY <1>1 DEF Create
  <2> HIDE DEF row
  <2>3. rows \in Seq(Row) /\ Len(rows) = Len(stored) + 1
        /\ \A i \in 1..(Len(stored) + 1) : rows[i] = IF i = Len(stored) + 1 THEN row ELSE stored[i]
    BY <1>0, <2>1
  <2> HIDE DEF rows
  <2>4. DOMAIN rows = 1..(Len(stored) + 1)
    BY <2>3
  <2>5. ASSUME NEW i \in DOMAIN rows, NEW j \in DOMAIN rows, rows[i].id = rows[j].id PROVE i = j
    <3>1. CASE i = Len(stored) + 1 /\ j # Len(stored) + 1
      <4>1. rows[i] = row /\ rows[j] = stored[j] /\ j \in DOMAIN stored
        BY <3>1, <2>3, <2>4, <1>0a
      <4> QED BY <4>1, <2>2, <2>5
    <3>2. CASE i # Len(stored) + 1 /\ j = Len(stored) + 1
      <4>1. rows[j] = row /\ rows[i] = stored[i] /\ i \in DOMAIN stored
        BY <3>2, <2>3, <2>4, <1>0a
      <4> QED BY <4>1, <2>2, <2>5
    <3>3. CASE i # Len(stored) + 1 /\ j # Len(stored) + 1
      <4>1. rows[j] = stored[j] /\ rows[i] = stored[i] /\ i \in DOMAIN stored /\ j \in DOMAIN stored
        BY <3>3, <2>3, <2>4, <1>0a
      <4> QED BY <4>1, <1>0, <2>5 DEF IdsOnce
    <3> QED BY <3>1, <3>2, <3>3
  <2> QED BY <2>2, <2>3, <2>5 DEF Rows, IdsOnce
<1>2. ASSUME NEW d \in DOMAIN stored, Delete(d) PROVE \E rows \in Rows : Change(rows)
  <2> DEFINE rows == RemoveAt(stored, d)
             old(i) == IF i < d THEN i ELSE i + 1
             n == Len(stored)
  <2>1. Change(rows)
    BY <1>2 DEF Delete
  <2>2. n \in Nat /\ d \in 1..n
    BY <1>0
  <2>3. /\ SubSeq(stored, 1, d - 1) \in Seq(Row) /\ Len(SubSeq(stored, 1, d - 1)) = d - 1
        /\ \A i \in 1..(d - 1) : SubSeq(stored, 1, d - 1)[i] = stored[i]
    <3> DEFINE part == SubSeq(stored, 1, d - 1)
    <3>1. d - 1 \in Int /\ \A i \in 1..(d - 1) : stored[i] \in Row
      BY <1>0a, <2>2
    <3>2. part \in Seq(Row) /\ Len(part) = (IF 1 <= d - 1 THEN d - 1 - 1 + 1 ELSE 0)
          /\ \A i \in 1..(d - 1 - 1 + 1) : part[i] = stored[1 + i - 1]
      BY <3>1, SubSeqProperties
    <3> HIDE DEF part
    <3>3. Len(part) = d - 1
      BY <2>2, <3>2
    <3>4. \A i \in 1..(d - 1) : part[i] = stored[i]
      <4> SUFFICES ASSUME NEW i \in 1..(d - 1) PROVE part[i] = stored[i]
        OBVIOUS
      <4>1. i \in 1..(d - 1 - 1 + 1) /\ 1 + i - 1 = i
        BY <2>2
      <4> QED BY <3>2, <4>1
    <3> QED BY <3>2, <3>3, <3>4 DEF part
  <2>4. /\ SubSeq(stored, d + 1, n) \in Seq(Row) /\ Len(SubSeq(stored, d + 1, n)) = n - d
        /\ \A i \in 1..(n - d) : SubSeq(stored, d + 1, n)[i] = stored[d + i]
    <3> DEFINE part == SubSeq(stored, d + 1, n)
    <3> HIDE DEF n
    <3>1. d + 1 \in Int /\ n \in Int /\ \A i \in (d + 1)..n : stored[i] \in Row
      BY <1>0a, <2>2 DEF n
    <3>2. part \in Seq(Row) /\ Len(part) = (IF d + 1 <= n THEN n - (d + 1) + 1 ELSE 0)
          /\ \A i \in 1..(n - (d + 1) + 1) : part[i] = stored[d + 1 + i - 1]
      BY <3>1, SubSeqProperties
    <3> HIDE DEF part
    <3>3. Len(part) = n - d
      BY <2>2, <3>2
    <3>4. \A i \in 1..(n - d) : part[i] = stored[d + i]
      <4> SUFFICES ASSUME NEW i \in 1..(n - d) PROVE part[i] = stored[d + i]
        OBVIOUS
      <4>1. i \in 1..(n - (d + 1) + 1) /\ d + 1 + i - 1 = d + i
        BY <2>2
      <4> QED BY <3>2, <4>1
    <3> QED BY <3>2, <3>3, <3>4 DEF part
  <2>5. rows \in Seq(Row) /\ Len(rows) = n - 1 /\ \A i \in 1..(n - 1) : rows[i] = stored[old(i)]
    <3> DEFINE head == SubSeq(stored, 1, d - 1)
               tail == SubSeq(stored, d + 1, n)
    <3>1. rows = head \o tail
      BY Zenon DEF RemoveAt
    <3> HIDE DEF head, tail, rows
    <3>2. /\ head \in Seq(Row) /\ Len(head) = d - 1 /\ \A i \in 1..(d - 1) : head[i] = stored[i]
          /\ tail \in Seq(Row) /\ Len(tail) = n - d /\ \A i \in 1..(n - d) : tail[i] = stored[d + i]
      BY <2>3, <2>4 DEF head, tail
    <3> HIDE DEF n
    <3>3. rows \in Seq(Row) /\ Len(rows) = n - 1
          /\ \A i \in 1..(n - 1) : rows[i] = IF i <= d - 1 THEN head[i] ELSE tail[i - (d - 1)]
      BY <2>2, <3>1, <3>2, ConcatProperties
    <3>4. ASSUME NEW i \in 1..(n - 1) PROVE rows[i] = stored[old(i)]
      <4>1. CASE i < d
        BY <4>1, <2>2, <3>2, <3>3
      <4>2. CASE ~(i < d)
        <5>1. rows[i] = tail[i - (d - 1)]
          BY <4>2, <2>2, <3>3
        <5>2. i - (d - 1) \in 1..(n - d) /\ d + (i - (d - 1)) = i + 1
          BY <4>2, <2>2
        <5> QED BY <4>2, <5>1, <5>2, <3>2
      <4> QED BY <4>1, <4>2
    <3> QED BY <3>3, <3>4
  <2> HIDE DEF rows
  <2>6. ASSUME NEW i \in DOMAIN rows, NEW j \in DOMAIN rows, rows[i].id = rows[j].id PROVE i = j
    <3>1. i \in 1..(n - 1) /\ j \in 1..(n - 1)
      BY <2>2, <2>5
    <3>2. old(i) \in DOMAIN stored /\ old(j) \in DOMAIN stored
      BY <1>0a, <2>2, <3>1
    <3>3. rows[i] = stored[old(i)] /\ rows[j] = stored[old(j)]
      BY <2>5, <3>1
    <3>4. old(i) = old(j)
      <4> HIDE DEF old
      <4> QED BY <1>0, <2>6, <3>2, <3>3 DEF IdsOnce
    <3> QED BY <2>2, <3>1, <3>4
  <2> QED BY <2>1, <2>5, <2>6 DEF Rows, IdsOnce
<1>3. ASSUME NEW u \in DOMAIN stored, NEW hit \in BOOLEAN, NEW key \in Keys \cup {NoKey}, Update(u, hit, key)
      PROVE  \E rows \in Rows : Change(rows)
  <2> DEFINE row == [id |-> stored[u].id, hit |-> hit, key |-> key, version |-> stored[u].version + 1]
             rows == [stored EXCEPT ![u] = row]
  <2>1. Change(rows)
    BY <1>3 DEF Update
  <2>2. row \in Row /\ row.id = stored[u].id
    <3>1. stored[u] \in Row
      BY <1>0
    <3>2. stored[u].id \in Ids /\ stored[u].version + 1 \in Nat
      BY <3>1 DEF Row
    <3> QED BY <3>2 DEF Row
  <2> HIDE DEF row
  <2>3. rows \in Seq(Row) /\ DOMAIN rows = DOMAIN stored /\ \A i \in DOMAIN stored : rows[i].id = stored[i].id
    BY <1>0, <2>2
  <2> HIDE DEF rows
  <2>4. IdsOnce(rows)
    BY <1>0, <2>3 DEF IdsOnce
  <2> QED BY <2>1, <2>3, <2>4 DEF Rows
<1> QED BY <1>1, <1>2, <1>3 DEF Next

(* What is left where after a change, and what the ghosts know of it.      *)
ChangeKeeps(old, new) ==
  /\ ~removed' => ~removed /\ \A i \in DOMAIN old : \E k \in DOMAIN new : new[k] = old[i] /\ i <= k
  /\ ~inserted' => /\ ~inserted
                   /\ \A m \in DOMAIN new : new[m] \in ToSet(yielded) =>
                        \E j \in DOMAIN old : old[j] = new[m] /\ m <= j
  /\ removed' \in BOOLEAN /\ inserted' \in BOOLEAN
  /\ fewest' \in Nat /\ most' \in Nat
  /\ fewest' <= fewest /\ fewest' <= Len(new) /\ Len(new) <= most' /\ most <= most'

LEMMA ChangeIs ==
  ASSUME Typed, NEW rows \in Rows, Change(rows)
  PROVE  /\ stored' = rows /\ changes' = changes + 1 /\ UNCHANGED <<target, walk, first>>
         /\ Listed(stored)' = Listed(rows) /\ ListedIds(stored)' = ListedIds(rows)
         /\ at # "walking" => UNCHANGED <<removed, inserted, fewest, most>>
         /\ at = "walking" => ChangeKeeps(ListedIds(stored), ListedIds(rows))
<1> DEFINE old == ListedIds(stored)
           new == ListedIds(rows)
           gap == Common(old, old, new) # Common(new, old, new)
           arrived(i) == new[i] \notin ToSet(old)
           middle == \E i \in DOMAIN new :
                       arrived(i) /\ (new[i] \in ToSet(yielded) \/ \E j \in DOMAIN new : i < j /\ ~arrived(j))
<1>1. /\ stored' = rows /\ changes' = changes + 1 /\ UNCHANGED <<target, walk, first>>
      /\ at # "walking" => UNCHANGED <<removed, inserted, fewest, most>>
  BY DEF Change
<1>2. Listed(stored)' = Listed(rows)
  BY <1>1 DEF Listed, walk
<1>3. ListedIds(stored)' = ListedIds(rows)
  BY <1>2 DEF ListedIds
<1>4. old \in IdLists /\ new \in IdLists
  BY ListedIdsAre DEF Typed
<1>5. ASSUME at = "walking"
      PROVE  /\ removed' = (removed \/ gap \/ ToSet(old) \ ToSet(new) # {})
             /\ inserted' = (inserted \/ gap \/ middle)
             /\ fewest' = Min({fewest, Len(new)}) /\ most' = Max({most, Len(new)})
  BY <1>5 DEF Change, Common
<1> HIDE DEF old, new
<1>6. ASSUME at = "walking" PROVE ChangeKeeps(old, new)
  <2>1. Len(new) \in Nat /\ DOMAIN new = 1..Len(new)
    BY <1>4 DEF IdLists
  <2>2. /\ fewest' \in Nat /\ most' \in Nat
        /\ fewest' <= fewest /\ fewest' <= Len(new) /\ Len(new) <= most' /\ most <= most'
    <3> DEFINE n == Len(new)
    <3>1. n \in Int /\ fewest \in Int /\ most \in Int
      BY <2>1 DEF Typed
    <3> HIDE DEF n
    <3>2. Min({fewest, n}) = IF fewest < n THEN fewest ELSE n
      BY <3>1, TwoNumbers
    <3>3. Max({most, n}) = IF most < n THEN n ELSE most
      BY <3>1, TwoNumbers
    <3> QED BY <1>5, <1>6, <2>1, <3>2, <3>3 DEF n, Typed
  <2>3. removed' \in BOOLEAN /\ inserted' \in BOOLEAN
    <3> HIDE DEF gap, middle
    <3> QED BY <1>5, <1>6 DEF Typed
  <2>4. ~gap => InOrder(old, new)
    BY <1>4, SharedOrder
  <2>5. ASSUME ~removed'
        PROVE  ~removed /\ \A i \in DOMAIN old : \E k \in DOMAIN new : new[k] = old[i] /\ i <= k
    <3>1. ~removed /\ ~gap /\ ToSet(old) \ ToSet(new) = {}
      <4> HIDE DEF gap
      <4> QED BY <1>5, <1>6, <2>5
    <3>2. ToSet(old) \subseteq ToSet(new)
      BY <3>1
    <3> HIDE DEF gap
    <3> QED BY <1>4, <2>4, <3>1, <3>2, NoneGone
  <2>6. ASSUME ~inserted'
        PROVE  /\ ~inserted
               /\ \A m \in DOMAIN new : new[m] \in ToSet(yielded) =>
                    \E j \in DOMAIN old : old[j] = new[m] /\ m <= j
    <3>1. ~inserted /\ ~gap /\ ~middle
      <4> HIDE DEF gap, middle
      <4> QED BY <1>5, <1>6, <2>6
    <3>2. ASSUME NEW m \in DOMAIN new, new[m] \in ToSet(yielded)
          PROVE  \E j \in DOMAIN old : old[j] = new[m] /\ m <= j
      <4>1. ~arrived(m)
        BY <3>1, <3>2
      <4>2. ASSUME NEW i \in 1..m PROVE new[i] \in ToSet(old)
        <5>1. i \in DOMAIN new /\ (i = m \/ i < m)
          BY <2>1
        <5> QED BY <3>1, <4>1, <5>1
      <4> HIDE DEF gap
      <4> QED BY <1>4, <2>4, <3>1, <4>2, NoneBefore
    <3> QED BY <3>1, <3>2
  <2> QED BY <2>2, <2>3, <2>5, <2>6 DEF ChangeKeeps
<1> QED BY <1>1, <1>2, <1>3, <1>6 DEF old, new

(* What a page adds, against a target that honours startIndex.             *)
Adds(n, ids) ==
  /\ start' = start + n /\ yielded' \in Seq(Ids) /\ Len(yielded') = Len(yielded) + n
  /\ \A k \in 1..Len(yielded) : yielded'[k] = yielded[k]
  /\ \A k \in 1..n : start + k - 1 \in DOMAIN ids /\ yielded'[Len(yielded) + k] = ids[start + k - 1]
  /\ at' \in {"done", "ambiguous", "walking"}
  /\ at' = "done" => start + n > Len(ids)
  /\ query.lookup => (at' = "ambiguous" <=> Len(yielded') > 1)
  /\ at' = "ambiguous" => query.lookup

LEMMA FetchIs ==
  ASSUME MaxFilterResults < MaxInt, Typed, Walker, target.honours, Fetch
  PROVE  /\ at = "walking" /\ UNCHANGED <<world, query, record>>
         /\ \/ at' \in {"refused", "stalled"} /\ UNCHANGED <<start, yielded>>
            \/ \E n \in 0..Count : Adds(n, ListedIds(stored))
<1> DEFINE page == Answered(start, Count)
           fp == Fingerprint(page)
           tail == [i \in DOMAIN page.rows |-> page.rows[i].id]
           got == yielded \o tail
           list == Listed(stored)
           ids == ListedIds(stored)
           n == Len(page.rows)
<1>1. at = "walking" /\ UNCHANGED <<world, query, record>>
  BY DEF Fetch, Exchange
<1>2. \/ at' \in {"refused", "stalled"} /\ UNCHANGED <<start, yielded>>
      \/ /\ page.err = "none" /\ ~Stalled(fp)
         /\ prev' = fp /\ yielded' = got /\ start' = Advanced(page)
         /\ at' = CASE Ambiguous(got) -> "ambiguous"
                    [] ~Ambiguous(got) /\ LastPage(page) -> "done"
                    [] OTHER -> "walking"
  BY DEF Fetch
<1>3. ASSUME page.err = "none", yielded' = got, start' = Advanced(page),
             at' = CASE Ambiguous(got) -> "ambiguous"
                     [] ~Ambiguous(got) /\ LastPage(page) -> "done"
                     [] OTHER -> "walking"
      PROVE  n \in 0..Count /\ Adds(n, ids)
  <2>1. start \in Nat \ {0} /\ Count \in Nat \ {0} /\ stored \in Rows /\ query \in Query /\ target \in Target
        /\ yielded \in Seq(Ids)
    BY CountIs DEF Typed, Walker
  <2>2. /\ page.rows \in Seq(Row) /\ page.total \in {0, Len(list)}
        /\ \E c \in 1..Count : IsPage(page.rows, list, start, c)
    BY <1>3, <2>1, AnsweredIs
  <2>3. PICK c \in 1..Count : IsPage(page.rows, list, start, c)
    BY <2>2
  <2>4. list \in Seq(Row) /\ Len(ids) = Len(list) /\ \A i \in 1..Len(list) : ids[i] = list[i].id
    BY <2>1, ListedIs, ListedIdsAre DEF Rows
  <2>5. DOMAIN ids = DOMAIN list
    <3>1. ids \in IdLists
      BY <2>1, ListedIdsAre
    <3> HIDE DEF ids, list
    <3> QED BY <2>4, <3>1 DEF IdLists
  <2> HIDE DEF page, list, ids
  <2>6. DOMAIN page.rows = 1..n /\ n \in Nat /\ \A i \in 1..n : page.rows[i] \in Row
    BY <2>2
  <2>7. tail \in Seq(Ids) /\ Len(tail) = n /\ \A i \in 1..n : tail[i] = page.rows[i].id
    <3>1. \A i \in 1..n : page.rows[i].id \in Ids
      BY <2>6, RowFacts
    <3> HIDE DEF n
    <3> QED BY <2>6, <3>1
  <2>8. \A k \in 1..n : start + k - 1 \in DOMAIN ids /\ tail[k] = ids[start + k - 1]
    <3> SUFFICES ASSUME NEW k \in 1..n
                 PROVE  start + k - 1 \in DOMAIN ids /\ tail[k] = ids[start + k - 1]
      OBVIOUS
    <3> DEFINE i == start + k - 1
    <3>1. i \in DOMAIN list /\ page.rows[k] = list[i]
      BY <2>3 DEF IsPage
    <3>2. i \in 1..Len(list)
      BY <2>4, <3>1
    <3> HIDE DEF i, n, tail
    <3>3. i \in DOMAIN ids /\ tail[k] = ids[i]
      BY <2>4, <2>5, <2>7, <3>1, <3>2
    <3> QED BY <3>3 DEF i
  <2>9. Len(list) \in Nat /\ n = IF start > Len(list) THEN 0
                                 ELSE IF start + c > Len(list) THEN Len(list) - start + 1 ELSE c
    BY <2>3, <2>4 DEF IsPage
  <2> HIDE DEF tail, n
  <2>10. /\ got \in Seq(Ids) /\ Len(got) = Len(yielded) + n
         /\ \A k \in 1..Len(yielded) : got[k] = yielded[k]
         /\ \A k \in 1..n : got[Len(yielded) + k] = tail[k]
    BY <2>1, <2>6, <2>7
  <2> HIDE DEF got
  <2>11. n \in 0..Count
    BY <2>1, <2>3, <2>9
  <2>12. start' = start + n
    BY <1>3 DEF Advanced, n
  <2>13. ASSUME at' = "done" PROVE start + n > Len(ids)
    <3>1. LastPage(page)
      BY <1>3, <2>13
    <3>2. CASE page.rows = <<>>
      <4>1. n = 0
        BY <3>2 DEF n
      <4> QED BY <4>1, <2>1, <2>3, <2>4, <2>9
    <3>3. CASE page.total > 0 /\ Advanced(page) > page.total
      <4>1. page.total = Len(list)
        BY <2>2, <3>3
      <4> QED BY <4>1, <3>3, <2>4 DEF Advanced, n
    <3> QED BY <3>1, <3>2, <3>3 DEF LastPage
  <2>14. /\ at' \in {"done", "ambiguous", "walking"}
         /\ query.lookup => (at' = "ambiguous" <=> Len(got) > 1)
         /\ at' = "ambiguous" => query.lookup
    BY <1>3 DEF Ambiguous
  <2> QED BY <1>3, <2>8, <2>10, <2>11, <2>12, <2>13, <2>14 DEF Adds
<1> HIDE DEF n, ids, got
<1> QED BY <1>1, <1>2, <1>3 DEF ids

-----------------------------------------------------------------------------
(* Types, for the state and for the iterator.                              *)

IType == Typed /\ (target.honours => Walker)

LEMMA TypeInit == Init => IType
<1> SUFFICES ASSUME Init PROVE IType
  OBVIOUS
<1>1. Start \in Rows
  BY WalkAssumption DEF Rows, IdsOnce
<1>2. target \in Target /\ query \in Query
  BY WalkAssumption DEF Init
<1>3. yielded = <<>> /\ first = <<>> /\ start = 1 /\ fewest = 0 /\ most = 0 /\ changes = 0
      /\ stored = Start /\ at = "idle" /\ removed = FALSE /\ inserted = FALSE
  BY DEF Init
<1>4. <<>> \in Seq(Ids)
  OBVIOUS
<1>5. Typed
  BY <1>1, <1>2, <1>3, <1>4 DEF Typed
<1>6. Walker
  BY <1>3, <1>4 DEF Walker
<1> QED BY <1>5, <1>6 DEF IType

LEMMA BeginIs ==
  ASSUME Typed, Begin
  PROVE  /\ at = "idle" /\ at' = "walking" /\ start' = From /\ first' = ListedIds(stored)
         /\ first' \in IdLists /\ fewest' = Len(first') /\ most' = Len(first') /\ Len(first') \in Nat
         /\ ListedIds(stored)' = ListedIds(stored) /\ Listed(stored)' = Listed(stored)
         /\ UNCHANGED <<world, query, prev, yielded, pages, removed, inserted>>
<1>1. /\ at = "idle" /\ at' = "walking" /\ start' = From /\ first' = ListedIds(stored)
      /\ fewest' = Len(Listed(stored)) /\ most' = Len(Listed(stored))
      /\ UNCHANGED <<world, query, prev, yielded, pages, removed, inserted>>
  BY DEF Begin, From
<1>2. ListedIds(stored) \in IdLists /\ Len(ListedIds(stored)) = Len(Listed(stored))
  BY ListedIdsAre DEF Typed
<1>3. Len(ListedIds(stored)) \in Nat
  BY <1>2 DEF IdLists
<1>4. Listed(stored)' = Listed(stored)
  BY <1>1 DEF Listed, world
<1>5. ListedIds(stored)' = ListedIds(stored)
  BY <1>4 DEF ListedIds
<1> QED BY <1>1, <1>2, <1>3, <1>4, <1>5

(* The walked list is a matter of the query and the stored resources.      *)
LEMMA ListedStays ==
  ASSUME UNCHANGED <<stored, query>>
  PROVE  Listed(stored)' = Listed(stored) /\ ListedIds(stored)' = ListedIds(stored) /\ From' = From
<1>1. Listed(stored)' = Listed(stored)
  BY DEF Listed
<1> QED BY <1>1 DEF ListedIds, From

LEMMA TypeStep ==
  ASSUME MaxFilterResults < MaxInt, IType, [Next]_vars
  PROVE  IType'
<1> USE DEF IType
<1>1. CASE Begin
  <2>1. From \in Nat \ {0}
    BY FromIs DEF Typed
  <2>2. From' = From
    BY <1>1, BeginIs DEF From, world
  <2>3. Typed'
    <3>1. first' \in Seq(Ids)
      BY <1>1, BeginIs DEF IdLists
    <3> QED BY <1>1, <3>1, BeginIs DEF Typed, world
  <2>4. target.honours => Walker'
    BY <1>1, <2>1, <2>2, BeginIs DEF Walker
  <2> QED BY <1>1, <2>3, <2>4, BeginIs DEF world
<1>2. CASE Fetch
  <2>1. at = "walking" /\ UNCHANGED <<world, query, record>> /\ at' \in {"walking"} \cup Ended
    BY <1>2 DEF Fetch, Exchange, Ended
  <2>2. Typed'
    BY <2>1 DEF Typed, world, record
  <2>3. ASSUME target.honours PROVE Walker'
    <3>1. From' = From /\ From \in Nat /\ Count \in Nat
      BY <2>1, FromIs, CountIs DEF Typed, From
    <3>2. CASE UNCHANGED <<start, yielded>>
      BY <2>1, <2>3, <3>1, <3>2 DEF Walker, Ended
    <3>3. ASSUME NEW n \in 0..Count, Adds(n, ListedIds(stored)) PROVE Walker'
      <4>1. start' = start + n /\ yielded' \in Seq(Ids)
        BY <3>3 DEF Adds
      <4>2. at' # "idle"
        BY <2>1 DEF Ended
      <4> QED BY <2>1, <2>3, <3>1, <4>1, <4>2 DEF Walker
    <3> QED BY <1>2, <2>3, <3>2, <3>3, FetchIs
  <2> QED BY <2>1, <2>2, <2>3 DEF world
<1>3. CASE Break
  <2>1. UNCHANGED <<world, query, start, prev, yielded, record>> /\ at' = "broken"
    BY <1>3 DEF Break
  <2> QED BY <2>1 DEF Typed, Walker, world, record, Ended
<1>4. ASSUME NEW rows \in Rows, Change(rows) PROVE IType'
  <2>1. /\ stored' = rows /\ changes' = changes + 1 /\ UNCHANGED <<target, walk, first>>
        /\ at # "walking" => UNCHANGED <<removed, inserted, fewest, most>>
        /\ at = "walking" => ChangeKeeps(ListedIds(stored), ListedIds(rows))
    BY <1>4, ChangeIs
  <2>2. removed' \in BOOLEAN /\ inserted' \in BOOLEAN /\ fewest' \in Nat /\ most' \in Nat
    BY <2>1 DEF ChangeKeeps, Typed
  <2>3. UNCHANGED <<query, at, start, yielded>> /\ From' = From
    BY <2>1 DEF walk, From
  <2> QED BY <2>1, <2>2, <2>3 DEF Typed, Walker
<1>5. CASE UNCHANGED vars
  BY <1>5 DEF vars, world, walk, record, Typed, Walker, From
<1> QED BY <1>1, <1>2, <1>3, <1>4, <1>5, WritersChange

LEMMA TypeHolds ==
  ASSUME MaxFilterResults < MaxInt
  PROVE  Spec => []IType
  BY TypeInit, TypeStep, PTL DEF Spec

-----------------------------------------------------------------------------
(* Lookup.                                                                 *)

(* A Lookup's cursor counts what it was handed, and the two extremes bound *)
(* the length of the list as it is.                                        *)
LookupInv ==
  query.lookup /\ target.honours =>
    /\ at = "walking" => /\ Len(yielded) = start - 1 /\ start <= 2
                         /\ fewest <= Len(ListedIds(stored)) /\ Len(ListedIds(stored)) <= most
    /\ at = "done" => fewest <= Len(yielded) /\ Len(yielded) <= 1
    /\ at = "ambiguous" => most >= 2

LEMMA LookupStep ==
  ASSUME MaxFilterResults < MaxInt, IType, LookupInv, [Next]_vars
  PROVE  LookupInv'
<1> SUFFICES ASSUME query'.lookup, target'.honours
             PROVE  /\ at' = "walking" => /\ Len(yielded') = start' - 1 /\ start' <= 2
                                          /\ fewest' <= Len(ListedIds(stored)') /\ Len(ListedIds(stored)') <= most'
                    /\ at' = "done" => fewest' <= Len(yielded') /\ Len(yielded') <= 1
                    /\ at' = "ambiguous" => most' >= 2
  BY DEF LookupInv
<1>0. Typed /\ fewest \in Nat /\ most \in Nat
  BY DEF IType, Typed
<1>1. CASE Begin
  <2>1. query.lookup /\ target.honours
    BY <1>0, <1>1, BeginIs DEF world
  <2>2. From = 1
    BY <1>0, <2>1, FromIs DEF Typed
  <2>3. yielded = <<>>
    BY <1>0, <1>1, <2>1, BeginIs DEF IType, Walker
  <2> QED BY <1>0, <1>1, <2>2, <2>3, BeginIs
<1>2. CASE Fetch
  <2>0. at = "walking" /\ UNCHANGED <<world, query, record>>
    BY <1>2 DEF Fetch, Exchange
  <2>1. query.lookup /\ target.honours /\ Walker
    BY <2>0 DEF world, IType
  <2>2. fewest' = fewest /\ most' = most /\ ListedIds(stored)' = ListedIds(stored)
    BY <2>0, ListedStays DEF record, world
  <2>3. /\ Len(yielded) = start - 1 /\ start <= 2
        /\ fewest <= Len(ListedIds(stored)) /\ Len(ListedIds(stored)) <= most
    BY <2>0, <2>1 DEF LookupInv
  <2>4. CASE at' \in {"refused", "stalled"}
    BY <2>4
  <2>5. ASSUME NEW n \in 0..Count, Adds(n, ListedIds(stored))
        PROVE  /\ at' = "walking" => /\ Len(yielded') = start' - 1 /\ start' <= 2
               /\ at' = "done" => fewest' <= Len(yielded') /\ Len(yielded') <= 1
               /\ at' = "ambiguous" => most' >= 2
    <3> DEFINE ids == ListedIds(stored)
    <3>1. ids \in IdLists
      BY <1>0, ListedIdsAre DEF Typed
    <3> HIDE DEF ids
    <3>2. DOMAIN ids = 1..Len(ids) /\ Len(ids) \in Nat
      BY <3>1 DEF IdLists
    <3>3. /\ start' = start + n /\ Len(yielded') = Len(yielded) + n
          /\ \A k \in 1..n : start + k - 1 \in DOMAIN ids
          /\ at' \in {"done", "ambiguous", "walking"}
          /\ at' = "done" => start + n > Len(ids)
          /\ at' = "ambiguous" <=> Len(yielded') > 1
      BY <2>1, <2>5 DEF Adds, ids
    <3>4. start \in Nat \ {0} /\ n \in Nat
      BY <1>0, <2>1, CountIs DEF Walker, Typed
    <3>5. Len(yielded') = start' - 1
      BY <2>3, <3>3, <3>4
    <3>6. ASSUME n # 0 PROVE start + n - 1 <= Len(ids)
      <4>1. n \in 1..n
        BY <3>4, <3>6
      <4>2. start + n - 1 \in DOMAIN ids
        BY <3>3, <4>1
      <4> QED BY <3>2, <3>4, <4>2
    <3>7. ASSUME at' = "ambiguous" PROVE most' >= 2
      <4>1. start' - 1 > 1 /\ start' = start + n
        BY <3>3, <3>5, <3>7
      <4>2. n # 0
        BY <4>1, <2>3, <3>4
      <4>3. start + n - 1 <= Len(ids) /\ Len(ids) <= most
        BY <4>2, <3>6, <2>3 DEF ids
      <4> QED BY <1>0, <2>2, <3>2, <3>4, <4>1, <4>3
    <3>8. ASSUME at' = "done" PROVE fewest' <= Len(yielded') /\ Len(yielded') <= 1
      <4>1. start' > Len(ids) /\ fewest' <= Len(ids)
        BY <3>3, <3>8, <2>2, <2>3 DEF ids
      <4>2. ~(start' - 1 > 1)
        BY <3>3, <3>5, <3>8
      <4> QED BY <1>0, <2>2, <3>2, <3>3, <3>4, <3>5, <4>1, <4>2
    <3>9. ASSUME at' = "walking" PROVE start' <= 2
      <4>1. ~(start' - 1 > 1)
        BY <3>3, <3>5, <3>9
      <4> QED BY <3>3, <3>4, <4>1
    <3> QED BY <3>5, <3>7, <3>8, <3>9
  <2> QED BY <1>0, <1>2, <2>1, <2>2, <2>3, <2>4, <2>5, FetchIs
<1>3. CASE Break
  BY <1>3 DEF Break
<1>4. ASSUME NEW rows \in Rows, Change(rows)
      PROVE  /\ at' = "walking" => /\ Len(yielded') = start' - 1 /\ start' <= 2
                                   /\ fewest' <= Len(ListedIds(stored)') /\ Len(ListedIds(stored)') <= most'
             /\ at' = "done" => fewest' <= Len(yielded') /\ Len(yielded') <= 1
             /\ at' = "ambiguous" => most' >= 2
  <2>1. /\ UNCHANGED <<target, walk, first>> /\ ListedIds(stored)' = ListedIds(rows)
        /\ at # "walking" => UNCHANGED <<removed, inserted, fewest, most>>
        /\ at = "walking" => ChangeKeeps(ListedIds(stored), ListedIds(rows))
    BY <1>0, <1>4, ChangeIs
  <2>2. UNCHANGED <<query, at, start, yielded>> /\ query.lookup /\ target.honours
    BY <2>1 DEF walk
  <2> QED BY <2>1, <2>2 DEF LookupInv, ChangeKeeps
<1>5. CASE UNCHANGED vars
  <2>1. UNCHANGED <<world, walk, record>> /\ ListedIds(stored)' = ListedIds(stored)
    BY <1>5, ListedStays DEF vars, world, walk
  <2> QED BY <2>1 DEF LookupInv, world, walk, record
<1> QED BY <1>0, <1>1, <1>2, <1>3, <1>4, <1>5, WritersChange

(* Lookup reports none, one or several resources only when at some moment  *)
(* of the call that is how many matched (ResourceService.Lookup), whatever *)
(* the target's pages hold and whoever writes meanwhile.                   *)
THEOREM LookupCorrect ==
  ASSUME MaxFilterResults < MaxInt
  PROVE  Spec => []LookupSound
<1>1. Init => LookupInv
  BY DEF Init, LookupInv
<1>2. IType /\ LookupInv /\ [Next]_vars => LookupInv'
  BY LookupStep
<1>3. LookupInv => LookupSound
  BY DEF LookupInv, LookupSound
<1> QED BY <1>1, <1>2, <1>3, TypeHolds, PTL DEF Spec


-----------------------------------------------------------------------------
(* A walk of a list that stays as it is.                                   *)

(* What was yielded are the first places of the list as it was, from       *)
(* StartIndex on, and the cursor is at the next one.                       *)
Prefix ==
  /\ From <= start /\ Len(yielded) = start - From
  /\ \A k \in 1..Len(yielded) : From + k - 1 \in DOMAIN first /\ yielded[k] = first[From + k - 1]

QuietInv ==
  target.honours /\ changes = 0 =>
    /\ at # "idle" => first = ListedIds(stored)
    /\ at \in {"walking", "done"} => Prefix
    /\ at = "done" => start > Len(first)

LEMMA QuietStep ==
  ASSUME MaxFilterResults < MaxInt, IType, QuietInv, [Next]_vars
  PROVE  QuietInv'
<1> SUFFICES ASSUME target'.honours, changes' = 0
             PROVE  /\ at' # "idle" => first' = ListedIds(stored)'
                    /\ at' \in {"walking", "done"} => Prefix'
                    /\ at' = "done" => start' > Len(first')
  BY DEF QuietInv
<1>0. Typed /\ From \in Nat \ {0}
  BY FromIs DEF IType, Typed
<1>1. CASE Begin
  <2>1. target.honours /\ From' = From
    BY <1>0, <1>1, BeginIs DEF world, From
  <2>2. yielded' = <<>>
    BY <1>0, <1>1, <2>1, BeginIs DEF IType, Walker
  <2>3. start' = From /\ first' = ListedIds(stored)' /\ at' = "walking"
    BY <1>0, <1>1, BeginIs
  <2>4. Prefix'
    BY <1>0, <2>1, <2>2, <2>3 DEF Prefix
  <2> QED BY <2>3, <2>4
<1>2. CASE Fetch
  <2>1. at = "walking" /\ UNCHANGED <<world, query, record>>
    BY <1>2 DEF Fetch, Exchange
  <2>2. /\ target.honours /\ Walker /\ changes = 0 /\ From' = From
        /\ ListedIds(stored)' = ListedIds(stored) /\ first' = first
    BY <2>1, ListedStays DEF world, record, IType
  <2>3. first = ListedIds(stored) /\ Prefix
    BY <2>1, <2>2 DEF QuietInv
  <2>4. CASE at' \in {"refused", "stalled"}
    BY <2>2, <2>3, <2>4
  <2>5. ASSUME NEW n \in 0..Count, Adds(n, first)
        PROVE  Prefix' /\ (at' = "done" => start' > Len(first'))
    <3>1. /\ start' = start + n /\ Len(yielded') = Len(yielded) + n
          /\ \A k \in 1..Len(yielded) : yielded'[k] = yielded[k]
          /\ \A k \in 1..n : start + k - 1 \in DOMAIN first /\ yielded'[Len(yielded) + k] = first[start + k - 1]
          /\ at' = "done" => start + n > Len(first)
      BY <2>5 DEF Adds
    <3>2. n \in Nat /\ start \in Nat /\ Len(yielded) \in Nat
      BY <1>0, <2>2, CountIs DEF Walker, Typed
    <3>3. /\ From <= start /\ Len(yielded) = start - From
          /\ \A k \in 1..Len(yielded) : From + k - 1 \in DOMAIN first /\ yielded[k] = first[From + k - 1]
      BY <2>3 DEF Prefix
    <3>4. ASSUME NEW k \in 1..Len(yielded')
          PROVE  From + k - 1 \in DOMAIN first /\ yielded'[k] = first[From + k - 1]
      <4>1. CASE k \in 1..Len(yielded)
        BY <3>1, <3>3, <4>1
      <4>2. CASE k \notin 1..Len(yielded)
        <5> DEFINE j == k - Len(yielded)
        <5>1. j \in 1..n /\ k = Len(yielded) + j /\ start + j - 1 = From + k - 1
          BY <1>0, <3>1, <3>2, <3>3, <4>2
        <5> HIDE DEF j
        <5> QED BY <3>1, <5>1
      <4> QED BY <4>1, <4>2
    <3>5. Prefix'
      BY <1>0, <2>2, <3>1, <3>2, <3>3, <3>4 DEF Prefix
    <3> QED BY <2>2, <3>1, <3>5
  <2> QED BY <1>0, <1>2, <2>2, <2>3, <2>4, <2>5, FetchIs
<1>3. CASE Break
  <2>1. UNCHANGED <<world, query, record>> /\ at = "walking" /\ at' = "broken"
    BY <1>3 DEF Break
  <2>2. target.honours /\ changes = 0 /\ first' = first /\ ListedIds(stored)' = ListedIds(stored)
    BY <2>1, ListedStays DEF world, record
  <2> QED BY <2>1, <2>2 DEF QuietInv
<1>4. ASSUME NEW rows \in Rows, Change(rows) PROVE FALSE
  <2>1. changes' = changes + 1 /\ changes \in Nat
    BY <1>0, <1>4, ChangeIs DEF Typed
  <2> QED BY <2>1
<1>5. CASE UNCHANGED vars
  <2>1. UNCHANGED <<world, walk, record>> /\ ListedIds(stored)' = ListedIds(stored) /\ From' = From
    BY <1>5, ListedStays DEF vars, world, walk
  <2> QED BY <2>1 DEF QuietInv, Prefix, world, walk, record
<1> QED BY <1>0, <1>1, <1>2, <1>3, <1>4, <1>5, WritersChange

(* The list from one of its places on.                                     *)
LEMMA RestIs ==
  ASSUME NEW list \in Seq(Ids), NEW from \in Nat \ {0}
  PROVE  LET rest == SubSeq(list, from, Len(list))
         IN  /\ rest \in Seq(Ids)
             /\ Len(rest) = IF from <= Len(list) THEN Len(list) - from + 1 ELSE 0
             /\ \A k \in 1..Len(rest) : from + k - 1 \in DOMAIN list /\ rest[k] = list[from + k - 1]
<1> DEFINE rest == SubSeq(list, from, Len(list))
<1>1. Len(list) \in Nat /\ \A i \in from..Len(list) : list[i] \in Ids /\ i \in DOMAIN list
  OBVIOUS
<1>2. /\ rest \in Seq(Ids)
      /\ Len(rest) = IF from <= Len(list) THEN Len(list) - from + 1 ELSE 0
      /\ \A i \in 1..(Len(list) - from + 1) : rest[i] = list[from + i - 1]
  BY <1>1, SubSeqProperties
<1> HIDE DEF rest
<1>3. ASSUME NEW k \in 1..Len(rest)
      PROVE  from + k - 1 \in DOMAIN list /\ rest[k] = list[from + k - 1]
  <2>1. k \in 1..(Len(list) - from + 1) /\ from + k - 1 \in from..Len(list)
    BY <1>1, <1>2
  <2> QED BY <2>1, <1>1, <1>2
<1> QED BY <1>2, <1>3 DEF rest

LEMMA WalkedIs ==
  ASSUME Typed
  PROVE  /\ Walked \in Seq(Ids)
         /\ Len(Walked) = IF From <= Len(first) THEN Len(first) - From + 1 ELSE 0
         /\ \A k \in 1..Len(Walked) : From + k - 1 \in DOMAIN first /\ Walked[k] = first[From + k - 1]
<1>1. From \in Nat \ {0} /\ first \in Seq(Ids)
  BY FromIs DEF Typed
<1>2. Walked = SubSeq(first, From, Len(first))
  BY DEF Walked, From
<1> QED BY <1>1, <1>2, RestIs

(* Against a target that honours startIndex, whose resources nobody        *)
(* changes meanwhile, a walk that ends of itself has yielded every         *)
(* resource from StartIndex on, once and in order                          *)
(* (ResourceService.List, lastPage), however the target caps its pages.    *)
THEOREM QuietExact ==
  ASSUME MaxFilterResults < MaxInt
  PROVE  Spec => []QuietWalkExact
<1>1. Init => QuietInv
  BY DEF Init, QuietInv
<1>2. IType /\ QuietInv /\ [Next]_vars => QuietInv'
  BY QuietStep
<1>3. IType /\ QuietInv => QuietWalkExact
  <2> SUFFICES ASSUME IType, QuietInv, at = "done", target.honours, changes = 0 PROVE yielded = Walked
    BY DEF QuietWalkExact
  <2>1. Typed /\ Walker /\ From \in Nat \ {0} /\ first \in Seq(Ids) /\ start \in Nat /\ yielded \in Seq(Ids)
    BY FromIs DEF IType, Typed, Walker
  <2>2. /\ start > Len(first) /\ From <= start /\ Len(yielded) = start - From
        /\ \A k \in 1..Len(yielded) : From + k - 1 \in DOMAIN first /\ yielded[k] = first[From + k - 1]
    BY DEF QuietInv, Prefix
  <2>3. Len(first) \in Nat /\ DOMAIN first = 1..Len(first) /\ Len(yielded) \in Nat
    BY <2>1
  <2>4. Len(yielded) # 0 => From + Len(yielded) - 1 <= Len(first)
    <3> SUFFICES ASSUME Len(yielded) # 0 PROVE From + Len(yielded) - 1 \in DOMAIN first
      BY <2>3
    <3>1. Len(yielded) \in 1..Len(yielded)
      BY <2>3
    <3> QED BY <2>2, <3>1
  <2>5. Len(Walked) = Len(yielded)
    <3>1. Len(Walked) = IF From <= Len(first) THEN Len(first) - From + 1 ELSE 0
      BY <2>1, WalkedIs
    <3>2. Len(yielded) = start - From /\ start > Len(first) /\ From <= start
      BY <2>2
    <3> HIDE DEF From
    <3> QED BY <2>1, <2>3, <2>4, <3>1, <3>2
  <2>6. Walked \in Seq(Ids) /\ \A k \in 1..Len(Walked) : Walked[k] = yielded[k]
    BY <2>1, <2>2, <2>5, WalkedIs
  <2> QED BY <2>1, <2>5, <2>6, SeqEqual
<1> QED BY <1>1, <1>2, <1>3, TypeHolds, PTL DEF Spec

-----------------------------------------------------------------------------
(* A walk of a list that changes.                                          *)

(* While no resource left the list or moved in it, each that was there     *)
(* when the walk began was yielded or lies at the cursor or beyond.        *)
CoverInv ==
  target.honours /\ ~removed =>
    /\ at = "walking" =>
         \A k \in DOMAIN first : k >= From =>
           \/ first[k] \in ToSet(yielded)
           \/ \E i \in DOMAIN ListedIds(stored) : i >= start /\ ListedIds(stored)[i] = first[k]
    /\ at = "done" => \A k \in DOMAIN first : k >= From => first[k] \in ToSet(yielded)

(* While none arrived before others or moved, nothing was yielded twice,   *)
(* and nothing yielded lies at the cursor or beyond.                       *)
OnceInv ==
  target.honours /\ ~inserted =>
    /\ Distinct(yielded)
    /\ at = "walking" =>
         \A i \in DOMAIN ListedIds(stored) : i >= start => ListedIds(stored)[i] \notin ToSet(yielded)

LEMMA CoverStep ==
  ASSUME MaxFilterResults < MaxInt, IType, CoverInv, [Next]_vars
  PROVE  CoverInv'
<1> DEFINE ids == ListedIds(stored)
           met(k, out) == first[k] \in ToSet(out)
           ahead(k, list, cursor) == \E i \in DOMAIN list : i >= cursor /\ list[i] = first[k]
<1> SUFFICES ASSUME target'.honours, ~removed'
             PROVE  /\ at' = "walking" =>
                         \A k \in DOMAIN first' : k >= From' =>
                           \/ first'[k] \in ToSet(yielded')
                           \/ \E i \in DOMAIN ids' : i >= start' /\ ids'[i] = first'[k]
                    /\ at' = "done" => \A k \in DOMAIN first' : k >= From' => first'[k] \in ToSet(yielded')
  BY DEF CoverInv
<1>0. Typed /\ From \in Nat \ {0} /\ ids \in IdLists
  BY FromIs, ListedIdsAre DEF IType, Typed
<1>1. CASE Begin
  <2>1. at' = "walking" /\ start' = From /\ From' = From /\ first' = ids /\ ids' = ids
    BY <1>0, <1>1, BeginIs DEF world, From
  <2> HIDE DEF ids
  <2> QED BY <2>1
<1>2. CASE Fetch
  <2>1. at = "walking" /\ UNCHANGED <<world, query, record>>
    BY <1>2 DEF Fetch, Exchange
  <2>2. target.honours /\ Walker /\ ~removed /\ From' = From /\ ids' = ids /\ first' = first
    BY <2>1, ListedStays DEF world, record, IType
  <2>3. \A k \in DOMAIN first : k >= From => met(k, yielded) \/ ahead(k, ids, start)
    BY <2>1, <2>2 DEF CoverInv
  <2> HIDE DEF ids
  <2>4. ASSUME NEW n \in 0..Count, Adds(n, ids), NEW k \in DOMAIN first, k >= From
        PROVE  /\ met(k, yielded') \/ ahead(k, ids, start')
               /\ at' = "done" => met(k, yielded')
    <3>1. /\ start' = start + n /\ yielded' \in Seq(Ids) /\ Len(yielded') = Len(yielded) + n
          /\ \A j \in 1..Len(yielded) : yielded'[j] = yielded[j]
          /\ \A j \in 1..n : start + j - 1 \in DOMAIN ids /\ yielded'[Len(yielded) + j] = ids[start + j - 1]
          /\ at' = "done" => start + n > Len(ids)
      BY <2>4 DEF Adds
    <3>2. /\ n \in Nat /\ start \in Nat /\ Len(yielded) \in Nat /\ DOMAIN yielded = 1..Len(yielded)
          /\ DOMAIN yielded' = 1..Len(yielded')
      BY <1>0, <2>2, <3>1, CountIs DEF Walker, Typed
    <3>3. CASE met(k, yielded)
      <4>1. PICK j \in DOMAIN yielded : yielded[j] = first[k]
        BY <3>3 DEF ToSet
      <4>2. j \in DOMAIN yielded' /\ yielded'[j] = first[k]
        BY <4>1, <3>1, <3>2
      <4> QED BY <4>2 DEF ToSet
    <3>4. CASE ahead(k, ids, start)
      <4>1. PICK i \in DOMAIN ids : i >= start /\ ids[i] = first[k]
        BY <3>4
      <4>2. DOMAIN ids = 1..Len(ids) /\ Len(ids) \in Nat
        BY <1>0 DEF IdLists
      <4>3. CASE i >= start + n
        BY <3>1, <3>2, <4>1, <4>2, <4>3
      <4>4. CASE i < start + n
        <5> DEFINE j == i - start + 1
        <5>1. j \in 1..n /\ start + j - 1 = i /\ Len(yielded) + j \in 1..Len(yielded')
          BY <3>1, <3>2, <4>1, <4>2, <4>4
        <5> HIDE DEF j
        <5>2. Len(yielded) + j \in DOMAIN yielded' /\ yielded'[Len(yielded) + j] = first[k]
          BY <5>1, <3>1, <3>2, <4>1
        <5> QED BY <5>2 DEF ToSet
      <4> QED BY <3>2, <4>1, <4>2, <4>3, <4>4
    <3> QED BY <2>3, <2>4, <3>3, <3>4
  <2>5. CASE at' \in {"refused", "stalled"}
    BY <2>5
  <2>6. ASSUME NEW n \in 0..Count, Adds(n, ids)
        PROVE  /\ \A k \in DOMAIN first : k >= From => met(k, yielded') \/ ahead(k, ids, start')
               /\ at' = "done" => \A k \in DOMAIN first : k >= From => met(k, yielded')
    BY <2>4, <2>6
  <2>7. at' \in {"refused", "stalled"} \/ \E n \in 0..Count : Adds(n, ids)
    BY <1>0, <1>2, <2>2, FetchIs DEF ids
  <2> QED BY <2>2, <2>5, <2>6, <2>7
<1>3. CASE Break
  BY <1>3 DEF Break
<1>4. ASSUME NEW rows \in Rows, Change(rows)
      PROVE  /\ at' = "walking" =>
                  \A k \in DOMAIN first' : k >= From' =>
                    \/ first'[k] \in ToSet(yielded')
                    \/ \E i \in DOMAIN ids' : i >= start' /\ ids'[i] = first'[k]
             /\ at' = "done" => \A k \in DOMAIN first' : k >= From' => first'[k] \in ToSet(yielded')
  <2> DEFINE new == ListedIds(rows)
  <2>1. /\ UNCHANGED <<target, walk, first>> /\ ids' = new
        /\ at # "walking" => UNCHANGED <<removed, inserted, fewest, most>>
        /\ at = "walking" => ChangeKeeps(ids, new)
    BY <1>0, <1>4, ChangeIs
  <2>2. target.honours /\ UNCHANGED <<query, at, start, yielded, first>> /\ From' = From
    BY <2>1 DEF walk, From
  <2>3. new \in IdLists
    BY ListedIdsAre
  <2>4. CASE at = "walking"
    <3>1. ~removed /\ \A i \in DOMAIN ids : \E k \in DOMAIN new : new[k] = ids[i] /\ i <= k
      BY <2>1, <2>4 DEF ChangeKeeps
    <3>2. \A k \in DOMAIN first : k >= From => met(k, yielded) \/ ahead(k, ids, start)
      BY <2>2, <2>4, <3>1 DEF CoverInv
    <3>3. Walker
      BY <2>2 DEF IType
    <3> HIDE DEF ids, new
    <3>4. ASSUME NEW k \in DOMAIN first, ahead(k, ids, start) PROVE ahead(k, new, start)
      <4>1. PICK i \in DOMAIN ids : i >= start /\ ids[i] = first[k]
        BY <3>4
      <4>2. PICK j \in DOMAIN new : new[j] = ids[i] /\ i <= j
        BY <3>1
      <4>3. i \in Nat /\ j \in Nat /\ start \in Nat
        BY <1>0, <2>3, <3>3 DEF IdLists, Walker
      <4>4. j >= start /\ new[j] = first[k]
        BY <4>1, <4>2, <4>3
      <4> QED BY <4>4
    <3> QED BY <2>1, <2>2, <2>4, <3>2, <3>4
  <2>5. CASE at # "walking"
    <3>1. ~removed
      BY <2>1, <2>5
    <3> QED BY <2>2, <2>5, <3>1 DEF CoverInv
  <2> QED BY <2>4, <2>5
<1>5. CASE UNCHANGED vars
  <2>1. UNCHANGED <<world, walk, record>> /\ ids' = ids /\ From' = From
    BY <1>5, ListedStays DEF vars, world, walk
  <2>2. target.honours /\ ~removed /\ UNCHANGED <<at, start, yielded, first>>
    BY <2>1 DEF world, walk, record
  <2> QED BY <2>1, <2>2 DEF CoverInv
<1> QED BY <1>0, <1>1, <1>2, <1>3, <1>4, <1>5, WritersChange

LEMMA OnceStep ==
  ASSUME MaxFilterResults < MaxInt, IType, OnceInv, [Next]_vars
  PROVE  OnceInv'
<1> DEFINE ids == ListedIds(stored)
           unseen(list, cursor, out) == \A i \in DOMAIN list : i >= cursor => list[i] \notin ToSet(out)
<1> SUFFICES ASSUME target'.honours, ~inserted'
             PROVE  /\ Distinct(yielded')
                    /\ at' = "walking" =>
                         \A i \in DOMAIN ids' : i >= start' => ids'[i] \notin ToSet(yielded')
  BY DEF OnceInv, Distinct
<1>0. Typed /\ From \in Nat \ {0} /\ ids \in IdLists
  BY FromIs, ListedIdsAre DEF IType, Typed
<1>1. CASE Begin
  <2>1. target.honours /\ yielded' = yielded /\ at = "idle"
    BY <1>0, <1>1, BeginIs DEF world
  <2>2. yielded = <<>>
    BY <2>1 DEF IType, Walker
  <2>3. DOMAIN yielded' = {}
    BY <2>1, <2>2
  <2> QED BY <2>3 DEF Distinct, ToSet
<1>2. CASE Fetch
  <2>1. at = "walking" /\ UNCHANGED <<world, query, record>>
    BY <1>2 DEF Fetch, Exchange
  <2>2. target.honours /\ Walker /\ ~inserted /\ ids' = ids
    BY <2>1, ListedStays DEF world, record, IType
  <2>3. Distinct(yielded) /\ unseen(ids, start, yielded)
    BY <2>1, <2>2 DEF OnceInv
  <2> HIDE DEF ids
  <2>4. ASSUME NEW n \in 0..Count, Adds(n, ids)
        PROVE  Distinct(yielded') /\ unseen(ids, start', yielded')
    <3> DEFINE m == Len(yielded)
    <3>1. /\ start' = start + n /\ yielded' \in Seq(Ids) /\ Len(yielded') = m + n
          /\ \A j \in 1..m : yielded'[j] = yielded[j]
          /\ \A j \in 1..n : start + j - 1 \in DOMAIN ids /\ yielded'[m + j] = ids[start + j - 1]
      BY <2>4 DEF Adds
    <3>2. /\ n \in Nat /\ start \in Nat /\ m \in Nat /\ DOMAIN yielded = 1..m
          /\ DOMAIN yielded' = 1..(m + n) /\ DOMAIN ids = 1..Len(ids) /\ Len(ids) \in Nat
      BY <1>0, <2>2, <3>1, CountIs DEF Walker, Typed, IdLists
    <3>3. \A i, j \in DOMAIN ids : ids[i] = ids[j] => i = j
      BY <1>0 DEF IdLists, Distinct
    <3>4. \A i \in DOMAIN ids, j \in 1..m : i >= start => ids[i] # yielded[j]
      BY <2>3, <3>2 DEF ToSet
    <3> HIDE DEF m
    (* Where an element of the longer list comes from.                     *)
    <3>5. ASSUME NEW k \in DOMAIN yielded'
          PROVE  \/ k \in 1..m /\ yielded'[k] = yielded[k]
                 \/ \E i \in DOMAIN ids : i >= start /\ i < start + n /\ k = m + i - start + 1 /\ yielded'[k] = ids[i]
      <4>1. CASE k \in 1..m
        BY <3>1, <4>1
      <4>2. CASE k \notin 1..m
        <5> DEFINE j == k - m
                   i == start + j - 1
        <5>1. j \in 1..n /\ m + j = k /\ i >= start /\ i < start + n /\ k = m + i - start + 1
          BY <3>2, <4>2
        <5>2. i \in DOMAIN ids /\ yielded'[k] = ids[i]
          <6> HIDE DEF j
          <6> QED BY <3>1, <5>1
        <5> HIDE DEF i, j
        <5> QED BY <5>1, <5>2
      <4> QED BY <4>1, <4>2
    <3>6. ASSUME NEW k \in DOMAIN yielded', NEW l \in DOMAIN yielded', yielded'[k] = yielded'[l]
          PROVE  k = l
      <4>1. CASE k \in 1..m /\ l \in 1..m
        BY <2>3, <3>1, <3>2, <3>6, <4>1 DEF Distinct
      <4>2. CASE k \in 1..m /\ l \notin 1..m
        BY <3>1, <3>4, <3>5, <3>6, <4>2
      <4>3. CASE k \notin 1..m /\ l \in 1..m
        BY <3>1, <3>4, <3>5, <3>6, <4>3
      <4>4. CASE k \notin 1..m /\ l \notin 1..m
        <5>1. PICK i \in DOMAIN ids : k = m + i - start + 1 /\ yielded'[k] = ids[i]
          BY <3>5, <4>4
        <5>2. PICK j \in DOMAIN ids : l = m + j - start + 1 /\ yielded'[l] = ids[j]
          BY <3>5, <4>4
        <5> QED BY <3>3, <3>6, <5>1, <5>2
      <4> QED BY <4>1, <4>2, <4>3, <4>4
    <3>7. ASSUME NEW i \in DOMAIN ids, i >= start', NEW k \in DOMAIN yielded', ids[i] = yielded'[k]
          PROVE  FALSE
      <4>1. i >= start + n /\ i >= start
        BY <3>1, <3>2, <3>7
      <4>2. CASE k \in 1..m
        BY <3>1, <3>4, <3>7, <4>1, <4>2
      <4>3. CASE k \notin 1..m
        <5>1. PICK j \in DOMAIN ids : j < start + n /\ yielded'[k] = ids[j]
          BY <3>5, <4>3
        <5>2. i = j
          BY <3>3, <3>7, <5>1
        <5> QED BY <3>2, <4>1, <5>1, <5>2
      <4> QED BY <4>2, <4>3
    <3> QED BY <3>6, <3>7 DEF Distinct, ToSet
  <2>5. CASE at' \in {"refused", "stalled"} /\ UNCHANGED <<start, yielded>>
    BY <2>3, <2>5 DEF Distinct
  <2>6. \/ at' \in {"refused", "stalled"} /\ UNCHANGED <<start, yielded>>
        \/ \E n \in 0..Count : Adds(n, ids)
    BY <1>0, <1>2, <2>2, FetchIs DEF ids
  <2> QED BY <2>2, <2>4, <2>5, <2>6
<1>3. CASE Break
  <2>1. target.honours /\ ~inserted /\ yielded' = yielded /\ at' = "broken"
    BY <1>3 DEF Break, world, record
  <2> QED BY <2>1 DEF OnceInv
<1>4. ASSUME NEW rows \in Rows, Change(rows)
      PROVE  /\ Distinct(yielded')
             /\ at' = "walking" =>
                  \A i \in DOMAIN ids' : i >= start' => ids'[i] \notin ToSet(yielded')
  <2> DEFINE new == ListedIds(rows)
  <2>1. /\ UNCHANGED <<target, walk, first>> /\ ids' = new
        /\ at # "walking" => UNCHANGED <<removed, inserted, fewest, most>>
        /\ at = "walking" => ChangeKeeps(ids, new)
    BY <1>0, <1>4, ChangeIs
  <2>2. target.honours /\ UNCHANGED <<query, at, start, yielded, first>>
    BY <2>1 DEF walk
  <2>3. new \in IdLists
    BY ListedIdsAre
  <2>4. CASE at = "walking"
    <3>1. /\ ~inserted
          /\ \A m \in DOMAIN new : new[m] \in ToSet(yielded) => \E j \in DOMAIN ids : ids[j] = new[m] /\ m <= j
      BY <2>1, <2>4 DEF ChangeKeeps
    <3>2. Distinct(yielded) /\ unseen(ids, start, yielded) /\ Walker
      BY <2>2, <2>4, <3>1 DEF OnceInv, IType
    <3> HIDE DEF ids, new
    <3>3. unseen(new, start, yielded)
      <4> SUFFICES ASSUME NEW m \in DOMAIN new, m >= start, new[m] \in ToSet(yielded) PROVE FALSE
        OBVIOUS
      <4>1. PICK j \in DOMAIN ids : ids[j] = new[m] /\ m <= j
        BY <3>1
      <4>2. m \in Nat /\ j \in Nat /\ start \in Nat
        BY <1>0, <2>3, <3>2 DEF IdLists, Walker
      <4>3. j >= start /\ ids[j] \in ToSet(yielded)
        BY <4>1, <4>2
      <4> QED BY <3>2, <4>3
    <3> QED BY <2>1, <2>2, <3>2, <3>3
  <2>5. CASE at # "walking"
    <3>1. ~inserted
      BY <2>1, <2>5
    <3> QED BY <2>2, <2>5, <3>1 DEF OnceInv
  <2> QED BY <2>4, <2>5
<1>5. CASE UNCHANGED vars
  <2>1. UNCHANGED <<world, walk, record>> /\ ids' = ids
    BY <1>5, ListedStays DEF vars, world, walk
  <2>2. target.honours /\ ~inserted /\ UNCHANGED <<at, start, yielded>>
    BY <2>1 DEF world, walk, record
  <2> QED BY <2>1, <2>2 DEF OnceInv
<1> QED BY <1>0, <1>1, <1>2, <1>3, <1>4, <1>5, WritersChange

(* Against a target that honours startIndex, a walk that ends of itself    *)
(* misses a resource only when one left the list or moved in it meanwhile, *)
(* and yields one twice only when one arrived before others or moved: the  *)
(* whole of what List's comment concedes to concurrent writers.            *)
THEOREM DriftCorrect ==
  ASSUME MaxFilterResults < MaxInt
  PROVE  Spec => []DriftHasCause
<1>1. Init => CoverInv /\ OnceInv
  <2> SUFFICES ASSUME Init PROVE CoverInv /\ OnceInv
    OBVIOUS
  <2>1. at = "idle" /\ yielded = <<>>
    BY DEF Init
  <2>2. DOMAIN yielded = {}
    BY <2>1
  <2> QED BY <2>1, <2>2 DEF CoverInv, OnceInv, Distinct
<1>2. IType /\ CoverInv /\ OnceInv /\ [Next]_vars => CoverInv' /\ OnceInv'
  BY CoverStep, OnceStep
<1>3. IType /\ CoverInv /\ OnceInv => DriftHasCause
  <2> SUFFICES ASSUME IType, CoverInv, OnceInv, target.honours PROVE DriftHasCause
    BY DEF DriftHasCause
  <2>1. Typed /\ Walker /\ From \in Nat \ {0} /\ first \in Seq(Ids)
    BY FromIs DEF IType, Typed
  <2>2. ASSUME at = "done", ~removed PROVE ToSet(Walked) \subseteq ToSet(yielded)
    <3>1. ASSUME NEW j \in DOMAIN Walked PROVE Walked[j] \in ToSet(yielded)
      <4>1. j \in 1..Len(Walked) /\ j \in Nat \ {0}
        BY <2>1, WalkedIs
      <4>2. From + j - 1 \in DOMAIN first /\ Walked[j] = first[From + j - 1]
        BY <2>1, <4>1, WalkedIs
      <4>3. From + j - 1 >= From
        BY <2>1, <4>1
      <4> QED BY <2>2, <4>2, <4>3 DEF CoverInv
    <3> QED BY <3>1 DEF ToSet
  <2>3. ASSUME ~inserted PROVE Cardinality(ToSet(yielded)) = Len(yielded)
    BY <2>1, <2>3, AsManyAsPlaces DEF OnceInv, Walker
  <2> QED BY <2>2, <2>3 DEF DriftHasCause
<1> QED BY <1>1, <1>2, <1>3, TypeHolds, PTL DEF Spec
===============================================================================
