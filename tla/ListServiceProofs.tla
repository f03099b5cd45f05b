--------------------------- MODULE ListServiceProofs --------------------------
(***************************************************************************)
(* Theorems about ListService, for stores and requests of any size: what   *)
(* an answer to a list request says of the resources stored.               *)
(***************************************************************************)
EXTENDS ListService, ListProofs

-----------------------------------------------------------------------------
(* The list a request asks for, by the places its resources have in the    *)
(* store.                                                                  *)

LEMMA Counted ==
  ASSUME NEW D, NEW n \in Nat, NEW g \in [1..n -> D],
         \A k, l \in 1..n : g[k] = g[l] => k = l, \A i \in D : \E k \in 1..n : g[k] = i
  PROVE  Cardinality(D) = n
<1> DEFINE N == 1..n
<1>1. g \in [N -> D] /\ (\A k, l \in N : g[k] = g[l] => k = l) /\ \A i \in D : \E k \in N : g[k] = i
  OBVIOUS
<1> HIDE DEF N
<1>2. g \in Bijection(N, D)
  BY <1>1, Fun_IsBij
<1>3. ExistsBijection(1..n, D)
  BY <1>2 DEF ExistsBijection, N
<1> QED BY <1>3, FS_CountingElements

LEMMA RowFacts ==
  ASSUME NEW r \in Row
  PROVE  r.hit \in BOOLEAN /\ r.key \in Nat \cup {NoKey}
  BY QueryAssumption DEF Row

LEMMA KeysOf ==
  ASSUME NEW rows \in Seq(Row)
  PROVE  HasKeys(rows, KeyOf(rows)) /\ \A i \in DOMAIN rows : KeyOf(rows)[rows[i]] = rows[i].key
<1> SUFFICES ASSUME NEW i \in DOMAIN rows
             PROVE  KeyOf(rows)[rows[i]] \in Nat \cup {NoKey} /\ KeyOf(rows)[rows[i]] = rows[i].key
  BY DEF HasKeys
<1>1. rows[i] \in Row /\ rows[i] \in ToSet(rows)
  BY DEF ToSet
<1>2. KeyOf(rows)[rows[i]] = rows[i].key
  BY <1>1 DEF KeyOf
<1> QED BY <1>1, <1>2, RowFacts

(* The state between two steps, and an answer of the store as it is.       *)
Typed == stored \in Seq(Row) /\ caps \in Caps

Current == asked # Absent => asked \in Raw /\ answer = Respond(stored, asked, caps)

(* Precedes is a strict total order of the store's places.                 *)
LEMMA PrecedesIs ==
  ASSUME Typed, NEW i \in DOMAIN stored, NEW j \in DOMAIN stored
  PROVE  /\ Precedes(i, j) => ~Precedes(j, i) /\ i # j
         /\ i = j \/ Precedes(i, j) \/ Precedes(j, i)
<1>1. i \in Nat /\ j \in Nat /\ stored[i] \in Row /\ stored[j] \in Row
  BY DEF Typed
<1>2. stored[i].key \in Nat \cup {NoKey} /\ stored[j].key \in Nat \cup {NoKey}
  BY <1>1, RowFacts
<1> DEFINE down == asked.sortOrder # "descending"
<1>3. down \in BOOLEAN
  OBVIOUS
<1> DEFINE a == stored[i].key
           b == stored[j].key
<1>4. Precedes(i, j) <=> IF asked.sortBy = Absent \/ a = b THEN i < j ELSE b = NoKey \/ (a # NoKey /\ (a < b <=> down))
  BY DEF Precedes
<1>5. Precedes(j, i) <=> IF asked.sortBy = Absent \/ b = a THEN j < i ELSE a = NoKey \/ (b # NoKey /\ (b < a <=> down))
  BY DEF Precedes
<1> HIDE DEF a, b, down
<1>6. CASE down
  BY <1>1, <1>2, <1>4, <1>5, <1>6 DEF a, b, NoKey
<1>7. CASE ~down
  BY <1>1, <1>2, <1>4, <1>5, <1>7 DEF a, b, NoKey
<1> QED BY <1>3, <1>6, <1>7


(* The list a query asks for, before it is cut.                            *)
Whole(q) == Ordered(Matching(stored, q.filter), q)

(* list shows the matching resources, g the places it takes them from.     *)
Lines(g, list) ==
  /\ g \in [1..Len(list) -> Matches]
  /\ \A k \in 1..Len(list) : list[k] = stored[g[k]]
  /\ \A k, l \in 1..Len(list) : k < l => Precedes(g[k], g[l])
  /\ \A i \in Matches : \E k \in 1..Len(list) : g[k] = i

(* The query a well-formed request is.                                     *)
Asks(q) ==
  /\ q.filter = asked.filter /\ q.ascending \in BOOLEAN /\ q.sorted \in BOOLEAN
  /\ q.sorted <=> asked.sortBy # Absent
  /\ q.ascending <=> asked.sortOrder # "descending"

LEMMA MatchingIs ==
  ASSUME Typed, NEW q, Asks(q), q.filter \in {Absent, "match"} \/ stored = <<>>
  PROVE  /\ Matching(stored, q.filter) \in Seq(Row)
         /\ \E place : IsSelection(place, Matching(stored, q.filter), stored, Matches)
<1> DEFINE places == {i \in DOMAIN stored : Accepts(q.filter, stored[i])}
<1>1. places = Matches
  <2>1. CASE stored = <<>>
    BY <2>1 DEF Matches
  <2>2. CASE q.filter \in {Absent, "match"}
    <3>1. q.filter = asked.filter /\ Absent # "match"
      BY QueryAssumption DEF Asks
    <3> QED BY <2>2, <3>1 DEF Matches, Accepts
  <2> QED BY <2>1, <2>2
<1>2. Matching(stored, q.filter) = Selected(stored, places)
  BY DEF Matching
<1> HIDE DEF places
<1> QED BY <1>1, <1>2, SelectedIs DEF Typed

(* Sorting them puts their places in the order asked for.                  *)
LEMMA WholeIs ==
  ASSUME Typed, NEW q, Asks(q), q.filter \in {Absent, "match"} \/ stored = <<>>
  PROVE  /\ Whole(q) \in Seq(Row) /\ Len(Whole(q)) = Len(Matching(stored, q.filter))
         /\ \E g : Lines(g, Whole(q))
<1> DEFINE kept == Matching(stored, q.filter)
           m == Len(kept)
<1>1. kept \in Seq(Row)
  BY MatchingIs
<1>2. PICK place : IsSelection(place, kept, stored, Matches)
  BY MatchingIs
<1> HIDE DEF kept
<1>3. m \in Nat /\ DOMAIN kept = 1..m /\ \A k \in 1..m : kept[k] \in Row
  BY <1>1
<1> HIDE DEF m
<1>4. /\ place \in [1..m -> Matches \cap DOMAIN stored]
      /\ \A k \in 1..m : kept[k] = stored[place[k]]
      /\ \A k, l \in 1..m : k < l => place[k] < place[l]
      /\ \A i \in Matches \cap DOMAIN stored : \E k \in 1..m : place[k] = i
  BY <1>2, <1>3 DEF IsSelection
<1>5. Matches \subseteq DOMAIN stored /\ DOMAIN stored \subseteq Nat
  BY DEF Matches, Typed
<1>6. CASE ~q.sorted
  <2>1. Whole(q) = kept
    BY <1>6 DEF Whole, Ordered, kept
  <2>2. Lines(place, kept)
    <3>1. \A i, j \in DOMAIN stored : Precedes(i, j) <=> i < j
      BY <1>6 DEF Asks, Precedes
    <3>2. ASSUME NEW k \in 1..m, NEW l \in 1..m, k < l PROVE Precedes(place[k], place[l])
      BY <1>4, <3>1, <3>2
    <3> QED BY <1>4, <1>5, <3>2 DEF Lines, m
  <2> QED BY <1>1, <2>1, <2>2 DEF kept
<1>7. CASE q.sorted
  <2> DEFINE key == KeyOf(kept)
             asc == q.ascending
             order == Ahead(kept, key, asc)
             out == SortResources(kept, key, asc)
  <2>1. HasKeys(kept, key) /\ \A k \in 1..m : key[kept[k]] = kept[k].key
    BY <1>1, <1>3, KeysOf
  <2>2. asc \in BOOLEAN /\ (asc <=> asked.sortOrder # "descending")
    BY DEF Asks
  <2>3. Whole(q) = out
    BY <1>7 DEF Whole, Ordered, kept
  <2> HIDE DEF key, asc
  <2>4. out \in Seq(Row)
    BY <1>1, <2>1, <2>2, SortedIs
  <2>5. PICK p : IsSorting(p, out, kept, key, asc)
    BY <1>1, <2>1, <2>2, SortedIs
  <2>6. StrictOrder(order, 1..m)
    BY <1>1, <1>3, <2>1, <2>2, AheadIsOrder
  <2>7. Arranges(p, order, m) /\ Len(out) = m /\ \A k \in 1..m : out[k] = kept[p[k]]
    BY <2>5 DEF IsSorting, m
  <2>8. \A k, l \in 1..m : <<k, l>> \in order =>
          \/ SortsBefore(key[kept[k]], key[kept[l]], asc)
          \/ ~SortsBefore(key[kept[l]], key[kept[k]], asc) /\ k < l
    BY <1>3 DEF Ahead
  <2> HIDE DEF order, out
  <2>9. Covers(p, m) /\ p \in [1..m -> 1..m] /\ \A k, l \in 1..m : k < l => <<p[k], p[l]>> \in order
    <3>1. m \in Nat /\ StrictOrder(order, 1..m) /\ Arranges(p, order, m)
      BY <1>3, <2>6, <2>7
    <3>2. Covers(p, m)
      BY <3>1, ArrangesOnce
    <3> QED BY <3>1, <3>2 DEF Arranges
  <2>10. ASSUME NEW k \in 1..m, NEW l \in 1..m, <<k, l>> \in order PROVE Precedes(place[k], place[l])
    <3> DEFINE a == kept[k].key
               b == kept[l].key
    <3>1. SortsBefore(a, b, asc) \/ (~SortsBefore(b, a, asc) /\ k < l)
      BY <2>1, <2>8, <2>10
    <3>2. a \in Nat \cup {NoKey} /\ b \in Nat \cup {NoKey}
      BY <1>3, RowFacts
    <3>3. a = stored[place[k]].key /\ b = stored[place[l]].key /\ (k < l => place[k] < place[l])
      BY <1>4
    <3>4. asked.sortBy # Absent
      BY <1>7 DEF Asks
    <3>5. Precedes(place[k], place[l]) <=>
            IF a = b THEN place[k] < place[l] ELSE b = NoKey \/ (a # NoKey /\ (a < b <=> asc))
      BY <2>2, <3>3, <3>4 DEF Precedes
    <3> HIDE DEF a, b
    <3> DEFINE x == place[k]
               y == place[l]
    <3>6. (k < l => x < y) /\ (Precedes(x, y) <=> IF a = b THEN x < y ELSE b = NoKey \/ (a # NoKey /\ (a < b <=> asc)))
      BY <3>3, <3>5
    <3> HIDE DEF x, y
    <3>7. SortsBefore(a, b, asc) \/ (a = b /\ x < y)
      <4>1. a = b \/ SortsBefore(a, b, asc) \/ SortsBefore(b, a, asc)
        BY <2>2, <3>2 DEF SortsBefore, NoKey
      <4> QED BY <3>1, <3>6, <4>1
    <3>8. ASSUME a = b, x < y PROVE Precedes(x, y)
      BY <3>6, <3>8
    <3>9. ASSUME SortsBefore(a, b, asc) PROVE a # b /\ (b = NoKey \/ (a # NoKey /\ (a < b <=> asc)))
      <4>1. CASE asc
        BY <3>2, <3>9, <4>1 DEF SortsBefore, NoKey
      <4>2. CASE ~asc
        BY <3>2, <3>9, <4>2 DEF SortsBefore, NoKey
      <4> QED BY <4>1, <4>2
    <3>10. Precedes(x, y)
      BY <3>6, <3>7, <3>8, <3>9
    <3> QED BY <3>10 DEF x, y
  <2> DEFINE g == [k \in 1..m |-> place[p[k]]]
  <2>11. g \in [1..m -> Matches] /\ \A k \in 1..m : g[k] = place[p[k]] /\ out[k] = stored[g[k]]
    BY <1>4, <2>7, <2>9
  <2> HIDE DEF g
  <2>12. ASSUME NEW k \in 1..m, NEW l \in 1..m, k < l PROVE Precedes(g[k], g[l])
    <3>1. <<p[k], p[l]>> \in order /\ p[k] \in 1..m /\ p[l] \in 1..m
      BY <2>9, <2>12
    <3>2. Precedes(place[p[k]], place[p[l]])
      BY <2>10, <3>1
    <3> QED BY <2>11, <3>2
  <2>13. ASSUME NEW i \in Matches PROVE \E k \in 1..m : g[k] = i
    <3>1. PICK l \in 1..m : place[l] = i
      BY <1>4, <1>5
    <3>2. PICK k \in 1..m : p[k] = l
      BY <2>9 DEF Covers
    <3> QED BY <2>11, <3>1, <3>2
  <2>14. Lines(g, out)
    BY <2>7, <2>11, <2>12, <2>13 DEF Lines
  <2> QED BY <2>3, <2>4, <2>7, <2>14 DEF m, kept
<1> QED BY <1>6, <1>7 DEF Asks

(* A resource's place is its line in the list.                             *)
LEMMA PlaceIs ==
  ASSUME Typed, NEW list \in Seq(Row), NEW g, Lines(g, list)
  PROVE  /\ Cardinality(Matches) = Len(list)
         /\ \A k \in 1..Len(list) : Place(g[k]) = k
         /\ \A k, l \in 1..Len(list) : g[k] = g[l] => k = l
<1> DEFINE n == Len(list)
<1>1. n \in Nat
  OBVIOUS
<1> HIDE DEF n
<1>2. /\ g \in [1..n -> Matches]
      /\ \A k, l \in 1..n : k < l => Precedes(g[k], g[l])
      /\ \A i \in Matches : \E k \in 1..n : g[k] = i
  BY DEF Lines, n
<1>3. Matches \subseteq DOMAIN stored
  BY DEF Matches
<1>4. ASSUME NEW k \in 1..n, NEW l \in 1..n, g[k] = g[l] PROVE k = l
  <2>1. g[k] \in DOMAIN stored
    BY <1>2, <1>3
  <2>2. ~Precedes(g[k], g[k])
    BY <2>1, PrecedesIs
  <2>3. ~(k < l) /\ ~(l < k)
    BY <1>2, <1>4, <2>2
  <2> QED BY <2>3
<1>5. Cardinality(Matches) = n
  BY <1>1, <1>2, <1>4, Counted
<1>6. ASSUME NEW k \in 1..n PROVE Place(g[k]) = k
  <2> DEFINE before == {j \in Matches : j = g[k] \/ Precedes(j, g[k])}
             h == [l \in 1..k |-> g[l]]
  <2>1. k \in Nat /\ \A l \in 1..k : l \in 1..n /\ (l = k \/ l < k)
    BY <1>1
  <2>2. h \in [1..k -> before]
    <3>1. \A l \in 1..k : g[l] \in Matches /\ (g[l] = g[k] \/ Precedes(g[l], g[k]))
      BY <1>2, <2>1
    <3> QED BY <3>1
  <2>3. \A l, m \in 1..k : h[l] = h[m] => l = m
    BY <1>4, <2>1
  <2>4. ASSUME NEW i \in before PROVE \E l \in 1..k : h[l] = i
    <3>1. PICK l \in 1..n : g[l] = i
      BY <1>2
    <3>2. ~(k < l)
      <4>1. g[k] \in DOMAIN stored /\ g[l] \in DOMAIN stored
        BY <1>2, <1>3
      <4>2. g[l] = g[k] \/ Precedes(g[l], g[k])
        BY <3>1
      <4>3. ~Precedes(g[k], g[l])
        BY <4>1, <4>2, PrecedesIs
      <4> QED BY <1>2, <4>3
    <3>3. l \in 1..k
      BY <1>1, <3>2
    <3> QED BY <3>1, <3>3
  <2> HIDE DEF before, h
  <2>5. Cardinality(before) = k
    BY <2>1, <2>2, <2>3, <2>4, Counted
  <2> QED BY <2>5 DEF Place, before
<1> QED BY <1>4, <1>5, <1>6 DEF n

(* The resources at the places a page spans.                               *)
There(from, count) == {i \in Matches : Place(i) \in from..(from + count - 1)}

LEMMA WindowIs ==
  ASSUME Typed, NEW list \in Seq(Row), NEW g, Lines(g, list), NEW from \in Nat \ {0}, NEW count \in Nat
  PROVE  /\ Len(Paginate(list, from, count)) = Cardinality(There(from, count))
         /\ \A i \in There(from, count) : Paginate(list, from, count)[Place(i) - from + 1] = stored[i]
<1> DEFINE rows == Paginate(list, from, count)
           n == Len(list)
           r == Len(rows)
<1>1. CASE count = 0
  <2>1. rows = <<>>
    BY <1>1 DEF Paginate
  <2>2. There(from, count) = {}
    BY <1>1 DEF There
  <2> QED BY <2>1, <2>2, FS_EmptySet
<1>2. CASE count # 0
  <2>1. count \in Nat \ {0}
    BY <1>2
  <2>2. rows \in Seq(Row) /\ IsPage(rows, list, from, count)
    BY <2>1, PaginateIs
  <2>3. n \in Nat /\ DOMAIN list = 1..n
    OBVIOUS
  <2> HIDE DEF rows, n
  <2>4. /\ r = IF from > n THEN 0 ELSE IF from + count > n THEN n - from + 1 ELSE count
        /\ \A j \in 1..r : from + j - 1 \in 1..n /\ rows[j] = list[from + j - 1]
    BY <2>2, <2>3 DEF IsPage, n
  <2> HIDE DEF r
  <2>5. r \in Nat /\ r <= count
    BY <2>1, <2>3, <2>4
  <2>6. /\ g \in [1..n -> Matches] /\ \A k \in 1..n : list[k] = stored[g[k]]
        /\ \A i \in Matches : \E k \in 1..n : g[k] = i
    BY DEF Lines, n
  <2>7. /\ \A k \in 1..n : Place(g[k]) = k
        /\ \A k, l \in 1..n : g[k] = g[l] => k = l
    BY PlaceIs DEF n
  <2> DEFINE D == There(from, count)
             h == [j \in 1..r |-> g[from + j - 1]]
  <2>8. \A j \in 1..r : h[j] = g[from + j - 1] /\ from + j - 1 \in 1..n
    BY <2>4
  <2>9. h \in [1..r -> D]
    <3>1. ASSUME NEW j \in 1..r PROVE g[from + j - 1] \in D
      <4> DEFINE k == from + j - 1
      <4>1. k \in 1..n /\ k \in from..(from + count - 1)
        <5>1. j \in Nat /\ 1 <= j /\ j <= count
          BY <2>1, <2>5
        <5>2. k \in from..(from + count - 1)
          BY <2>1, <5>1
        <5> QED BY <2>4, <5>2
      <4> HIDE DEF k
      <4>2. g[k] \in Matches /\ Place(g[k]) = k
        BY <2>6, <2>7, <4>1
      <4> QED BY <4>1, <4>2 DEF There, k
    <3> HIDE DEF D
    <3> QED BY <3>1
  <2> HIDE DEF h
  <2>10. ASSUME NEW i \in D
         PROVE  Place(i) - from + 1 \in 1..r /\ h[Place(i) - from + 1] = i /\ rows[Place(i) - from + 1] = stored[i]
    <3>1. i \in Matches /\ Place(i) \in from..(from + count - 1)
      BY DEF There
    <3>2. PICK k \in 1..n : g[k] = i
      BY <2>6, <3>1
    <3>3. Place(i) = k
      BY <2>7, <3>2
    <3> DEFINE j == k - from + 1
    <3>4. j \in 1..r /\ from + j - 1 = k
      BY <2>1, <2>3, <2>4, <3>1, <3>3
    <3>5. h[j] = g[from + j - 1] /\ rows[j] = list[from + j - 1]
      <4> HIDE DEF j
      <4> QED BY <2>4, <2>8, <3>4
    <3> QED BY <2>6, <3>2, <3>3, <3>4, <3>5
  <2>11. ASSUME NEW j \in 1..r, NEW l \in 1..r, h[j] = h[l] PROVE j = l
    <3>1. from + j - 1 = from + l - 1
      BY <2>7, <2>8, <2>11
    <3> QED BY <2>5, <3>1
  <2> HIDE DEF D
  <2>12. \A i \in D : \E j \in 1..r : h[j] = i
    BY <2>10
  <2>13. Cardinality(D) = r
    BY <2>5, <2>9, <2>11, <2>12, Counted
  <2> QED BY <2>10, <2>13 DEF D, rows, r
<1> QED BY <1>1, <1>2

-----------------------------------------------------------------------------
(* The answer.                                                             *)

(* What the store is asked for before the server filters and sorts.        *)
Fetched(q, push) == Matching(stored, IF push THEN q.filter ELSE Absent)

LEMMA FetchedAll ==
  ASSUME Typed
  PROVE  Matching(stored, Absent) = stored
<1> DEFINE all == {i \in DOMAIN stored : Accepts(Absent, stored[i])}
<1>1. DOMAIN stored \subseteq all
  BY DEF Accepts
<1>2. Matching(stored, Absent) = Selected(stored, all)
  BY DEF Matching
<1> HIDE DEF all
<1> QED BY <1>1, <1>2, SelectedAll DEF Typed

LEMMA FetchedType ==
  ASSUME Typed, NEW q, NEW push
  PROVE  Fetched(q, push) \in Seq(Row)
<1> DEFINE f == IF push THEN q.filter ELSE Absent
           places == {i \in DOMAIN stored : Accepts(f, stored[i])}
<1>1. Fetched(q, push) = Selected(stored, places)
  BY DEF Fetched, Matching
<1> HIDE DEF places
<1> QED BY <1>1, SelectedIs DEF Typed

(* A filter the store's resources do not refuse.                           *)
Legal(q) == q.filter # "illTyped" \/ stored = <<>>

FetchedTooBig(q, push) == Len(Fetched(q, push)) > MaxFilterResults

(* The scan asks for one row more than it may hold, so that it has every   *)
(* row or knows there are too many.                                        *)
LEMMA ScanIs ==
  ASSUME MaxFilterResults < MaxInt, Typed, NEW q, NEW push \in BOOLEAN
  PROVE  /\ ScanQuery(stored, q, push).err = "tooMany" <=> FetchedTooBig(q, push) /\ (Legal(q) \/ ~push)
         /\ ScanQuery(stored, q, push).err \in {"none", "internal"} =>
              Legal(q) /\ ScanQuery(stored, q, push) = Cut(Whole(q), q)
<1> DEFINE fetch == ScanFetch(q, push)
           f == IF push THEN q.filter ELSE Absent
           M == Fetched(q, push)
           limit == MaxFilterResults + 1
           page == StoreList(stored, fetch)
           scan == ScanQuery(stored, q, push)
           matched == IF push THEN page.rows ELSE Matching(page.rows, q.filter)
<1>1. /\ limit \in Nat \ {0} /\ limit \in 0..MaxInt /\ MaxFilterResults \in Nat
      /\ Wrapped(MaxFilterResults + 1) = limit
      /\ Absent # "illTyped"
  <2>1. MaxInt \in Nat /\ MaxFilterResults \in 1..MaxInt /\ Absent # "illTyped"
    BY QueryAssumption, IntAssumption
  <2> QED BY <2>1 DEF Wrapped
<1>2. /\ fetch.filter = f /\ fetch.sorted = FALSE /\ fetch.startIndex = 1
      /\ fetch.count = limit
  BY <1>1 DEF ScanFetch
<1>3. scan = IF page.err # "none" THEN page
             ELSE IF OverLimit(page) THEN Refused("tooMany")
             ELSE IF ~push /\ q.filter = "illTyped" /\ page.rows # <<>> THEN Refused("invalidFilter")
             ELSE Cut(Ordered(matched, q), q)
  BY DEF ScanQuery
<1>4. page = IF f = "illTyped" /\ stored # <<>> THEN Refused("invalidFilter") ELSE Page(Paginate(M, 1, limit), Len(M))
  <2> DEFINE list == Ordered(Matching(stored, fetch.filter), fetch)
  <2>1. page = IF fetch.filter = "illTyped" /\ stored # <<>> THEN Refused("invalidFilter")
               ELSE Cut(list, fetch)
    BY DEF StoreList
  <2>2. list = M
    BY <1>2 DEF Ordered, Fetched
  <2>3. ~WindowWraps(M, 1, limit)
    BY <1>1, FirstPage
  <2> HIDE DEF fetch, limit, list, M, page, f
  <2>4. Cut(M, fetch) = Page(Paginate(M, 1, limit), Len(M))
    BY <1>2, <2>3 DEF Cut
  <2> QED BY <1>2, <2>1, <2>2, <2>4
<1>5. M \in Seq(Row) /\ Len(M) \in Nat
  BY FetchedType
<1> DEFINE first == Paginate(M, 1, limit)
<1> HIDE DEF fetch, page, matched, scan, limit, M
<1>6. Len(first) = (IF Len(M) <= limit THEN Len(M) ELSE limit) /\ (Len(M) <= limit => first = M)
  <2>1. first \in Seq(Row) /\ IsPage(first, M, 1, limit)
    BY <1>1, <1>5, PaginateIs
  <2>2. Len(first) = IF 1 > Len(M) THEN 0 ELSE IF 1 + limit > Len(M) THEN Len(M) - 1 + 1 ELSE limit
    BY <2>1 DEF IsPage
  <2>3. Len(M) <= limit => first = M
    BY <1>1, <1>5, WholePage
  <2> QED BY <1>1, <1>5, <2>2, <2>3
<1> HIDE DEF first
<1>7. CASE push /\ ~Legal(q)
  <2>1. page = Refused("invalidFilter")
    BY <1>4, <1>7 DEF Legal
  <2>2. scan.err = "invalidFilter"
    BY <1>3, <2>1 DEF Refused
  <2> QED BY <1>7, <2>2 DEF scan
<1>8. CASE Legal(q) \/ ~push
  <2>1. page = Page(first, Len(M))
    BY <1>1, <1>4, <1>8 DEF Legal, first
  <2>2. page.err = "none" /\ page.rows = first /\ page.total = Len(M)
    BY <2>1 DEF Page
  <2>3. OverLimit(page) <=> Len(M) > MaxFilterResults
    <3>1. limit = MaxFilterResults + 1
      BY DEF limit
    <3> QED BY <1>1, <1>5, <1>6, <2>2, <3>1 DEF OverLimit
  <2>4. CASE Len(M) > MaxFilterResults
    <3>1. scan.err = "tooMany"
      BY <1>3, <2>2, <2>3, <2>4 DEF Refused
    <3> QED BY <1>8, <2>4, <3>1 DEF scan, FetchedTooBig, M
  <2>5. CASE ~(Len(M) > MaxFilterResults)
    <3>1. first = M
      <4>1. limit = MaxFilterResults + 1
        BY DEF limit
      <4> QED BY <1>1, <1>5, <1>6, <2>5, <4>1
    <3>2. ~push => M = stored
      BY FetchedAll DEF M, Fetched
    <3>3. matched = Matching(stored, q.filter)
      BY <2>2, <3>1, <3>2 DEF matched, M, Fetched
    <3>4. scan = IF ~push /\ q.filter = "illTyped" /\ stored # <<>> THEN Refused("invalidFilter")
                 ELSE Cut(Ordered(matched, q), q)
      BY <1>3, <2>2, <2>3, <2>5, <3>1, <3>2
    <3>5. CASE ~Legal(q)
      <4>1. scan.err = "invalidFilter"
        BY <1>8, <3>4, <3>5 DEF Legal, Refused
      <4> QED BY <2>5, <4>1 DEF scan, FetchedTooBig, M
    <3>6. CASE Legal(q)
      <4>1. scan = Cut(Whole(q), q)
        BY <3>3, <3>4, <3>6 DEF Legal, Whole
      <4>2. scan.err \in {"none", "internal"}
        BY <4>1 DEF Cut, Page, Refused
      <4> QED BY <2>5, <3>6, <4>1, <4>2 DEF scan, FetchedTooBig, M
    <3> QED BY <3>5, <3>6
  <2> QED BY <2>4, <2>5
<1> QED BY <1>7, <1>8

LEMMA StateFacts ==
  ASSUME Typed, asked \in Raw
  PROVE  /\ Len(stored) \in Nat /\ caps.filter \in BOOLEAN /\ caps.sort \in BOOLEAN
         /\ asked.filter \in {Absent, Garbled, "match", "illTyped"}
         /\ asked.sortBy \in {Absent, Garbled, "unknown", "key"}
         /\ asked.startIndex \in Indices \cup {Absent, Garbled} /\ asked.count \in Indices \cup {Absent, Garbled}
  BY DEF Typed, Caps, Raw

(* The store and the server make the same answer of a query, or the scan   *)
(* is too big.                                                             *)
LEMMA RunIs ==
  ASSUME MaxFilterResults < MaxInt, Typed, asked \in Raw, asked.filter # Garbled, NEW q, Asks(q),
         RunQuery(stored, q, caps).err \in {"none", "tooMany", "internal"}
  PROVE  /\ RunQuery(stored, q, caps).err = "tooMany" <=> ScanTooBig
         /\ RunQuery(stored, q, caps).err # "tooMany" =>
              Legal(q) /\ RunQuery(stored, q, caps) = Cut(Whole(q), q)
<1> DEFINE run == RunQuery(stored, q, caps)
           pushes == PushFilter(q, caps) /\ PushSort(q, caps)
           push == PushFilter(q, caps)
           held == IF caps.filter THEN Cardinality(Matches) ELSE Len(stored)
<1>1. /\ q.filter = asked.filter /\ q.filter \in {Absent, "match", "illTyped"}
      /\ (q.sorted <=> asked.sortBy # Absent) /\ q.sorted \in BOOLEAN
      /\ caps.filter \in BOOLEAN /\ caps.sort \in BOOLEAN
  BY StateFacts DEF Asks
<1>2. push \in BOOLEAN /\ (push <=> q.filter = Absent \/ caps.filter)
  BY <1>1 DEF PushFilter
<1>3. pushes <=> ~(\/ asked.filter # Absent /\ ~caps.filter
                   \/ asked.sortBy # Absent /\ ~caps.sort)
  BY <1>1 DEF PushFilter, PushSort
<1>4. ScanTooBig <=> ~pushes /\ held > MaxFilterResults
  BY <1>3 DEF ScanTooBig
<1>5. Legal(q) => /\ Len(Whole(q)) = Len(Matching(stored, q.filter))
                  /\ Cardinality(Matches) = Len(Matching(stored, q.filter))
  <2> SUFFICES ASSUME Legal(q)
               PROVE  /\ Len(Whole(q)) = Len(Matching(stored, q.filter))
                      /\ Cardinality(Matches) = Len(Matching(stored, q.filter))
    OBVIOUS
  <2>1. q.filter \in {Absent, "match"} \/ stored = <<>>
    BY <1>1 DEF Legal
  <2>2. Whole(q) \in Seq(Row) /\ Len(Whole(q)) = Len(Matching(stored, q.filter))
    BY <2>1, WholeIs
  <2>3. PICK g : Lines(g, Whole(q))
    BY <2>1, WholeIs
  <2> QED BY <2>2, <2>3, PlaceIs
<1>6. CASE pushes
  <2>1. run = IF q.filter = "illTyped" /\ stored # <<>> THEN Refused("invalidFilter")
              ELSE Cut(Whole(q), q)
    BY <1>6 DEF RunQuery, StoreList, Whole
  <2> HIDE DEF run
  <2>2. Legal(q)
    <3>1. run.err # "invalidFilter"
      BY DEF run
    <3> QED BY <2>1, <3>1 DEF Refused, Legal
  <2>3. run = Cut(Whole(q), q) /\ run.err # "tooMany"
    BY <2>1, <2>2 DEF Legal, Cut, Page, Refused
  <2> QED BY <1>4, <1>6, <2>2, <2>3 DEF run
<1>7. CASE ~pushes
  <2>1. run = ScanQuery(stored, q, push)
    BY <1>7 DEF RunQuery
  <2> HIDE DEF run, push
  <2>2. /\ run.err = "tooMany" <=> FetchedTooBig(q, push) /\ (Legal(q) \/ ~push)
        /\ run.err \in {"none", "internal"} => Legal(q) /\ run = Cut(Whole(q), q)
    BY <1>2, <2>1, ScanIs
  <2>3. run.err \in {"none", "tooMany", "internal"}
    BY DEF run
  <2>4. Legal(q) \/ ~push
    BY <2>2, <2>3
  <2>5. Len(Fetched(q, push)) = held
    <3>1. CASE ~push
      BY <1>1, <1>2, <3>1, FetchedAll DEF Fetched
    <3>2. CASE push /\ caps.filter
      BY <1>5, <2>4, <3>2 DEF Fetched
    <3>3. CASE push /\ ~caps.filter
      <4>1. q.filter = Absent
        BY <1>2, <3>3
      <4> QED BY <3>3, <4>1, FetchedAll DEF Fetched
    <3> QED BY <1>1, <1>2, <3>1, <3>2, <3>3
  <2>6. run.err = "tooMany" <=> ScanTooBig
    <3> HIDE DEF held, pushes
    <3> QED BY <1>4, <1>7, <2>2, <2>4, <2>5 DEF FetchedTooBig
  <2> QED BY <2>2, <2>3, <2>6 DEF run
<1> QED BY <1>6, <1>7

-----------------------------------------------------------------------------
(* The theorem.                                                            *)

ServiceInv == Typed /\ Current /\ Len(stored) <= MaxRows

LEMMA InitService == Init => ServiceInv
<1> SUFFICES ASSUME Init PROVE ServiceInv
  OBVIOUS
<1>1. stored = <<>> /\ caps \in Caps /\ asked = Absent
  BY DEF Init
<1>2. <<>> \in Seq(Row) /\ Len(<<>>) = 0 /\ 0 <= MaxRows
  BY RawsAssumption
<1> QED BY <1>1, <1>2 DEF ServiceInv, Typed, Current

LEMMA StepService == ServiceInv /\ [Next]_vars => ServiceInv'
<1> SUFFICES ASSUME ServiceInv, [Next]_vars PROVE ServiceInv'
  OBVIOUS
<1> USE DEF ServiceInv, Typed, Current
<1>1. ASSUME NEW raw \in Raws, List(raw) PROVE ServiceInv'
  <2>1. asked' = raw /\ raw \in Raw /\ answer' = Respond(stored, raw, caps) /\ UNCHANGED <<stored, caps>>
    BY <1>1, RawsAssumption DEF List
  <2> QED BY <2>1
<1>2. ASSUME NEW id \in Ids, NEW hit \in BOOLEAN, NEW key \in Keys \cup {NoKey},
             Create([id |-> id, hit |-> hit, key |-> key, version |-> 1])
      PROVE  ServiceInv'
  <2> DEFINE row == [id |-> id, hit |-> hit, key |-> key, version |-> 1]
  <2>1. row \in Row
    BY DEF Row
  <2>2. stored' = Append(stored, row) /\ asked' = Absent /\ caps' = caps /\ Len(stored) < MaxRows
    BY <1>2 DEF Create, Unanswered
  <2> HIDE DEF row
  <2> QED BY <2>1, <2>2, RawsAssumption
<1>3. ASSUME NEW i \in DOMAIN stored, Delete(i) PROVE ServiceInv'
  <2>1. stored' = RemoveAt(stored, i) /\ asked' = Absent /\ caps' = caps
    BY <1>3 DEF Delete, Unanswered
  <2> DEFINE a == SubSeq(stored, 1, i - 1)
             b == SubSeq(stored, i + 1, Len(stored))
  <2>2. a \in Seq(Row) /\ b \in Seq(Row) /\ Len(a) = i - 1 /\ Len(b) = Len(stored) - i
    <3> DEFINE n == Len(stored)
    <3>1. n \in Nat /\ i \in 1..n /\ \A k \in 1..n : stored[k] \in Row
      OBVIOUS
    <3>2. a \in Seq(Row) /\ Len(a) = i - 1
      BY <3>1
    <3>3. b \in Seq(Row) /\ Len(b) = n - i
      BY <3>1
    <3> QED BY <3>2, <3>3
  <2>3. RemoveAt(stored, i) = a \o b
    BY DEF RemoveAt
  <2> HIDE DEF a, b
  <2>4. a \o b \in Seq(Row) /\ Len(a \o b) = Len(stored) - 1
    BY <2>2
  <2> QED BY <2>1, <2>3, <2>4, RawsAssumption
<1>4. CASE UNCHANGED vars
  BY <1>4 DEF vars
<1> QED BY <1>1, <1>2, <1>3, <1>4 DEF Next

(* The page a request asks for.                                            *)
FromOf == IF asked.startIndex = Absent \/ asked.startIndex < 1 THEN 1 ELSE asked.startIndex

CountOf == IF asked.count = Absent THEN DefaultPageSize ELSE asked.count

LEMMA NormalizedIs ==
  ASSUME Typed, asked \in Raw, ParamError(asked) = "none"
  PROVE  LET q == Normalized(asked)
             c == IF CountOf > MaxPageSize THEN MaxPageSize ELSE CountOf
         IN  /\ Asks(q) /\ asked.filter # Garbled
             /\ q.startIndex = FromOf /\ FromOf \in Nat \ {0}
             /\ q.count \in 0..MaxPageSize /\ c \in Int /\ q.count = IF c < 0 THEN 0 ELSE c
<1> DEFINE q == Normalized(asked)
           c == IF CountOf > MaxPageSize THEN MaxPageSize ELSE CountOf
           s == asked.startIndex
           n == asked.count
<1>1. /\ asked.filter # Garbled /\ s # Garbled /\ n # Garbled
  BY DEF ParamError
<1>2. s \in Indices \cup {Absent} /\ n \in Indices \cup {Absent}
  BY <1>1, StateFacts
<1>3. Indices \subseteq Int /\ DefaultPageSize \in Nat \ {0} /\ MaxPageSize \in Nat \ {0}
      /\ DefaultPageSize <= MaxPageSize /\ Absent \notin Int
  <2>1. Indices \subseteq -(MaxInt + 1)..MaxInt
    BY QueryAssumption
  <2>2. Indices \subseteq Int
    BY <2>1
  <2> QED BY <2>2, QueryAssumption
<1>4. /\ q.filter = asked.filter /\ q.sorted = (asked.sortBy # Absent) /\ q.ascending = (asked.sortOrder # "descending")
      /\ q.startIndex = IF s = Absent THEN 1 ELSE Max({s, 1})
      /\ q.count = IF n = Absent THEN DefaultPageSize ELSE Min({Max({n, 0}), MaxPageSize})
  BY DEF Normalized
<1> HIDE DEF q, s, n
<1>5. Asks(q)
  BY <1>4 DEF Asks
<1>6. q.startIndex = FromOf /\ FromOf \in Nat \ {0}
  <2>1. CASE s = Absent
    BY <1>4, <2>1 DEF FromOf, s
  <2>2. CASE s # Absent
    <3>1. s \in Int
      BY <1>2, <1>3, <2>2
    <3>2. Max({s, 1}) = IF s < 1 THEN 1 ELSE s
      BY <3>1, TwoNumbers
    <3>3. FromOf = IF s < 1 THEN 1 ELSE s
      BY <2>2 DEF FromOf, s
    <3> QED BY <1>4, <2>2, <3>1, <3>2, <3>3
  <2> QED BY <2>1, <2>2
<1>7. q.count \in 0..MaxPageSize /\ c \in Int /\ q.count = IF c < 0 THEN 0 ELSE c
  <2>1. CASE n = Absent
    BY <1>3, <1>4, <2>1 DEF CountOf, n
  <2>2. CASE n # Absent
    <3>1. n \in Int
      BY <1>2, <1>3, <2>2
    <3>2. c = IF n > MaxPageSize THEN MaxPageSize ELSE n
      BY <2>2 DEF CountOf, n
    <3> DEFINE k == Max({n, 0})
    <3>3. k = IF n < 0 THEN 0 ELSE n
      BY <3>1, TwoNumbers
    <3> HIDE DEF c, k
    <3>4. Min({k, MaxPageSize}) = IF k < MaxPageSize THEN k ELSE MaxPageSize
      <4> DEFINE m == MaxPageSize
      <4>1. k \in Int /\ m \in Int
        BY <1>3, <3>1, <3>3
      <4> HIDE DEF m
      <4>2. Min({k, m}) = IF k < m THEN k ELSE m
        BY <4>1, TwoNumbers
      <4> QED BY <4>2 DEF m
    <3>5. q.count = Min({k, MaxPageSize})
      BY <1>4, <2>2 DEF k
    <3> QED BY <1>3, <3>1, <3>2, <3>3, <3>4, <3>5
  <2> QED BY <2>1, <2>2
<1> QED BY <1>1, <1>5, <1>6, <1>7 DEF q

(* A page of at most MaxPageSize resources ends among the ints when the    *)
(* store leaves room for one beyond its last resource.                     *)
LEMMA NoWindowWraps ==
  ASSUME Typed, Len(stored) <= MaxRows, MaxRows + MaxPageSize <= MaxInt + 1,
         NEW q, Asks(q), q.filter \in {Absent, "match"} \/ stored = <<>>,
         q.startIndex \in Nat \ {0}, q.count \in 0..MaxPageSize
  PROVE  ~WindowWraps(Whole(q), q.startIndex, q.count)
<1> DEFINE n == Len(stored)
           list == Whole(q)
           from == IF q.startIndex < 1 THEN 0 ELSE q.startIndex - 1
<1>1. n \in Nat /\ n <= MaxRows /\ Matches \subseteq 1..n
  BY DEF Typed, Matches
<1>2. Cardinality(Matches) <= n
  <2> HIDE DEF n
  <2>1. IsFiniteSet(1..n) /\ Cardinality(1..n) = n
    BY <1>1, FS_Interval
  <2> QED BY <1>1, <2>1, FS_Subset
<1>3. list \in Seq(Row) /\ \E g : Lines(g, list)
  BY WholeIs
<1> HIDE DEF list
<1>4. Len(list) \in Nat /\ Len(list) = Cardinality(Matches)
  BY <1>3, PlaceIs
<1> HIDE DEF n
<1>5. from \in Nat /\ MaxPageSize \in Nat /\ MaxRows \in Nat /\ MaxInt \in Nat
  BY QueryAssumption, RawsAssumption, IntAssumption
<1> HIDE DEF from
<1>6. ASSUME from < Len(list) PROVE ~(Wrapped(from + q.count) < 0)
  <2>1. from + q.count \in Nat /\ ~(from + q.count > MaxInt)
    BY <1>1, <1>2, <1>4, <1>5, <1>6
  <2> QED BY <2>1 DEF Wrapped
<1> QED BY <1>6 DEF WindowWraps, from, list

(* Who filters and who sorts does not show in an answer: it has the        *)
(* resources at the places asked for of the filtered, ordered list and     *)
(* their number, or says tooMany, which it does exactly when the server    *)
(* would have to hold more than MaxFilterResults of them (runQuery,        *)
(* scanQuery, respondList).  It is so, and no window wraps (paginate),     *)
(* under bounds one past which, and one page past the last resource, are   *)
(* ints.                                                                   *)
THEOREM AnswerCorrect ==
  ASSUME MaxFilterResults < MaxInt, MaxRows + MaxPageSize <= MaxInt + 1
  PROVE  Spec => []AnswerExact
<1>1. ServiceInv => AnswerExact
  <2> DEFINE from == FromOf
             upTo == from + (IF CountOf > MaxPageSize THEN MaxPageSize ELSE CountOf) - 1
             there == {i \in Matches : Place(i) \in from..upTo}
  <2> SUFFICES ASSUME ServiceInv, asked # Absent, answer.err \in {"none", "tooMany", "internal"}
               PROVE  /\ answer.err # "internal"
                      /\ answer.err = "tooMany" <=> ScanTooBig
                      /\ answer.err = "none" =>
                           /\ answer.total = Cardinality(Matches)
                           /\ answer.startIndex = from
                           /\ Len(answer.rows) = Cardinality(there)
                           /\ \A i \in there : answer.rows[Place(i) - from + 1] = stored[i]
    BY DEF AnswerExact, FromOf, CountOf
  <2>1. Typed /\ asked \in Raw /\ answer = Respond(stored, asked, caps) /\ Len(stored) <= MaxRows
    BY DEF ServiceInv, Current
  <2>2. ParamError(asked) = "none"
    <3>1. ParamError(asked) \in {"none", "invalidSyntax", "invalidFilter", "invalidValue"}
      BY DEF ParamError
    <3>2. ParamError(asked) # "none" => answer.err = ParamError(asked)
      BY <2>1 DEF Respond, ListResponse, Refused
    <3> QED BY <3>1, <3>2
  <2> DEFINE q == Normalized(asked)
             run == RunQuery(stored, q, caps)
             c == IF CountOf > MaxPageSize THEN MaxPageSize ELSE CountOf
  <2>3. /\ answer.startIndex = q.startIndex /\ answer.err = run.err
        /\ answer.rows = run.rows /\ answer.total = run.total
    BY <2>1, <2>2 DEF Respond, ListResponse
  <2>4. /\ Asks(q) /\ asked.filter # Garbled
        /\ q.startIndex = from /\ from \in Nat \ {0}
        /\ q.count \in 0..MaxPageSize /\ q.count \in Nat /\ c \in Int
        /\ q.count = IF c < 0 THEN 0 ELSE c
    BY <2>1, <2>2, NormalizedIs
  <2>5. upTo = from + c - 1
    OBVIOUS
  <2> HIDE DEF q, c, upTo, from
  <2>6. /\ run.err = "tooMany" <=> ScanTooBig
        /\ run.err # "tooMany" => Legal(q) /\ run = Cut(Whole(q), q)
    BY <2>1, <2>3, <2>4, RunIs
  <2> HIDE DEF run
  <2>7. Legal(q) => q.filter \in {Absent, "match"} \/ stored = <<>>
    <3>1. q.filter \in {Absent, "match", "illTyped"}
      BY <2>1, <2>4, StateFacts DEF Asks
    <3> QED BY <3>1 DEF Legal
  <2>8. run.err # "tooMany" => run = Page(Paginate(Whole(q), q.startIndex, q.count), Len(Whole(q)))
    <3> SUFFICES ASSUME run.err # "tooMany"
                 PROVE  run = Page(Paginate(Whole(q), q.startIndex, q.count), Len(Whole(q)))
      OBVIOUS
    <3>1. ~WindowWraps(Whole(q), q.startIndex, q.count)
      BY <2>1, <2>4, <2>6, <2>7, NoWindowWraps
    <3> QED BY <2>6, <3>1 DEF Cut
  <2>9. run.err # "internal"
    BY <2>8 DEF Page
  <2>10. ASSUME run.err = "none"
        PROVE  /\ answer.total = Cardinality(Matches)
               /\ answer.startIndex = from
               /\ Len(answer.rows) = Cardinality(there)
               /\ \A i \in there : answer.rows[Place(i) - from + 1] = stored[i]
    <3>1. q.filter \in {Absent, "match"} \/ stored = <<>>
      BY <2>6, <2>10, <2>7
    <3>2. Whole(q) \in Seq(Row)
      BY <2>1, <2>4, <3>1, WholeIs
    <3>3. PICK g : Lines(g, Whole(q))
      BY <2>1, <2>4, <3>1, WholeIs
    <3>4. there = There(from, q.count)
      <4>1. from..upTo = from..(from + q.count - 1)
        BY <2>4, <2>5
      <4> QED BY <4>1 DEF There
    <3>5. /\ Len(Paginate(Whole(q), from, q.count)) = Cardinality(There(from, q.count))
          /\ \A i \in There(from, q.count) : Paginate(Whole(q), from, q.count)[Place(i) - from + 1] = stored[i]
      BY <2>1, <2>4, <3>2, <3>3, WindowIs
    <3>6. Cardinality(Matches) = Len(Whole(q))
      BY <2>1, <3>2, <3>3, PlaceIs
    <3>7. run.rows = Paginate(Whole(q), from, q.count) /\ run.total = Len(Whole(q))
      BY <2>4, <2>10, <2>8 DEF Page
    <3> HIDE DEF there
    <3> QED BY <2>3, <2>4, <3>4, <3>5, <3>6, <3>7
  <2> HIDE DEF there
  <2> QED BY <2>3, <2>6, <2>10, <2>9
<1> QED BY <1>1, InitService, StepService, PTL DEF Spec
==============================================================================
