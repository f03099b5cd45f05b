------------------------------ MODULE MemStore -------------------------------
(***************************************************************************)
(* server/memstore: the in-memory Store.  Every exported method holds the  *)
(* store's one lock from entry to return, so each is one action here; what *)
(* can go wrong is the agreement of the five structures it maintains by    *)
(* hand (items, seq, order with rank and clock, index) over long sequences *)
(* of calls, and what a caller may conclude from a copy it read earlier.   *)
(*                                                                         *)
(* Go's zero values are kept: seq and rank of an id the store does not     *)
(* hold are 0, as a lookup in the Go map returns.                          *)
(***************************************************************************)
EXTENDS Naturals, FiniteSets, ListOps, MemberPatch

CONSTANTS
  Clients,   \* callers of the store: request handlers, or the embedding program
  Ids,       \* resource ids
  Attrs,     \* top-level attributes
  Unique,    \* those under a server or global uniqueness rule
  Extra,     \* those added by WithIndex
  CaseExact, \* those whose values compare exactly
  Values,    \* attribute values
  FoldName,  \* case folding, defined on the values whose stored form is a string
  Bodies,    \* the contents callers write
  Ops,       \* the PATCH operations callers send, each with the attribute it names
  MaxClock,  \* bound: insertions; the length of a list is an int
  MaxSeq,    \* bound: versions of one resource
  Nil

Content  == [Attrs -> SUBSET Values]
Resource == [attrs : Content, version : Nat]
Strings  == DOMAIN FoldName
Indexed  == Unique \cup Extra

ASSUME ConstantsAssumption ==
  /\ Unique \cup Extra \cup CaseExact \subseteq Attrs
  /\ Strings \subseteq Values
  /\ Bodies \subseteq Content
  /\ Ops \subseteq [attr : Attrs, op : PatchOp(Values)]
  /\ MaxClock \in 0..MaxInt /\ MaxSeq \in Nat
  /\ Nil \notin Resource

VARIABLES
  items,     \* id -> stored resource, or Nil
  seq,       \* id -> version counter
  order,     \* ids in insertion order
  rank,      \* id -> place in the insertion order
  clock,     \* last rank handed out
  index,     \* <<attribute, folded term, id>> for every indexed value
  buckets,   \* attributes whose index map has been allocated
  held,      \* client -> the last copy it was handed, with the rank it had
  last       \* the last call's error, and the version its token named (0: none)

store == <<items, seq, order, rank, clock, index, buckets>>
vars  == <<store, held, last>>

-----------------------------------------------------------------------------
(* Helpers of the store, all called under the write lock.  A definition    *)
(* with an underscore in its name is a seeded fault: the definition after  *)
(* it with one mistake in it, for which some property must fail.           *)

Exists(id) == items[id] # Nil

(* insert: a new id at the end of the insertion order.                     *)
Insert(id, stored) ==
  /\ clock' = clock + 1
  /\ rank' = [rank EXCEPT ![id] = clock + 1]
  /\ order' = Append(order, id)
  /\ items' = [items EXCEPT ![id] = stored]

(* slices.Delete of the one occurrence of id.                              *)
Without(list, id) ==
  LET at == CHOOSE i \in DOMAIN list : list[i] = id
  IN  [i \in 1..(Len(list) - 1) |-> IF i < at THEN list[i] ELSE list[i + 1]]

Drop_KeepsCounter(id) ==
  /\ items' = [items EXCEPT ![id] = Nil]
  /\ rank' = [rank EXCEPT ![id] = 0]
  /\ order' = Without(order, id)
  /\ UNCHANGED seq

Drop_KeepsOrder(id) ==
  /\ items' = [items EXCEPT ![id] = Nil]
  /\ seq' = [seq EXCEPT ![id] = 0]
  /\ rank' = [rank EXCEPT ![id] = 0]
  /\ UNCHANGED order

(* remove: the id leaves every structure.                                  *)
Drop(id) ==
  /\ items' = [items EXCEPT ![id] = Nil]
  /\ seq' = [seq EXCEPT ![id] = 0]
  /\ rank' = [rank EXCEPT ![id] = 0]
  /\ order' = Without(order, id)

(* indexValues: string values only, every element of a multi-valued one.   *)
Terms(r, a) == {FoldName[v] : v \in r.attrs[a] \cap Strings}

Entries(id, r) == UNION {{<<a, t, id>> : t \in Terms(r, a)} : a \in Indexed}

Reindex_AddsOnly(old, cur) ==
  /\ index' = index \cup cur
  /\ buckets' = buckets \cup {e[1] : e \in cur}

(* reindex, with {} for the nil side of a create or a delete.              *)
Reindex(old, cur) ==
  /\ index' = (index \ old) \cup cur
  /\ buckets' = buckets \cup {e[1] : e \in cur}

CheckUnique_Unfolded(id, r) ==
  \A a \in Unique, e \in index : e[1] = a /\ e[2] \in r.attrs[a] => e[3] = id

(* checkUnique: no other id holds one of the terms, says the index.        *)
CheckUnique(id, r) ==
  \A a \in Unique, e \in index : e[1] = a /\ e[2] \in Terms(r, a) => e[3] = id

BumpVersion_OnlyOnCreate(id, attrs) ==
  [attrs |-> attrs, version |-> IF Exists(id) THEN items[id].version ELSE 1]

(* bumpVersion stamps the next version of id into the resource.            *)
BumpVersion(id, attrs) == [attrs |-> attrs, version |-> seq[id] + 1]

(* A version token as a caller sends it: the number the store issued in    *)
(* any of the decorations W/"n", "n" and n, or the empty string.           *)
NoToken == [form |-> "empty", opaque |-> 0]
Tokens(n) == [form : {"weak", "strong", "bare"}, opaque : {n}]

OpaqueVersion(token) == token.opaque

VersionMatches_NotNewer(token, current) ==
  token.form = "empty" \/ OpaqueVersion(token) <= current

VersionMatches(token, current) == token.form = "empty" \/ OpaqueVersion(token) = current

-----------------------------------------------------------------------------
(* Actions: one per exported method, failures included.                    *)

Answer(err, token) ==
  last' = [err |-> err, token |-> IF err = "none" THEN OpaqueVersion(token) ELSE 0]

(* The caller is handed a clone of what is now stored under id.            *)
HandOut(c, id) ==
  held' = [held EXCEPT ![c] = [id |-> id, born |-> rank'[id], res |-> items'[id]]]

Fail(err) == Answer(err, NoToken) /\ UNCHANGED <<store, held>>

Init ==
  /\ items = [id \in Ids |-> Nil]
  /\ seq = [id \in Ids |-> 0]
  /\ order = <<>>
  /\ rank = [id \in Ids |-> 0]
  /\ clock = 0
  /\ index = {} /\ buckets = {}
  /\ held = [c \in Clients |-> Nil]
  /\ last = [err |-> "none", token |-> 0]

(* The id is the caller's, or generated when the resource carries none.    *)
Create(c, id, body) ==
  LET stored == BumpVersion(id, body)
  IN  \/ /\ Exists(id) \/ ~CheckUnique(id, stored)
         /\ Fail("uniqueness")
      \/ /\ ~Exists(id) /\ CheckUnique(id, stored)
         /\ clock < MaxClock /\ seq[id] < MaxSeq
         /\ seq' = [seq EXCEPT ![id] = @ + 1]
         /\ Insert(id, stored)
         /\ Reindex({}, Entries(id, stored))
         /\ HandOut(c, id)
         /\ Answer("none", NoToken)

Get(c, id) ==
  \/ ~Exists(id) /\ Fail("notFound")
  \/ /\ Exists(id)
     /\ UNCHANGED store
     /\ HandOut(c, id)
     /\ Answer("none", NoToken)

(* The tail Replace and Patch share: bump, reindex, store, return a clone. *)
Write(c, id, attrs, token) ==
  LET stored == BumpVersion(id, attrs)
  IN  \/ ~CheckUnique(id, stored) /\ Fail("uniqueness")
      \/ /\ CheckUnique(id, stored)
         /\ seq[id] < MaxSeq
         /\ seq' = [seq EXCEPT ![id] = @ + 1]
         /\ Reindex(Entries(id, items[id]), Entries(id, stored))
         /\ items' = [items EXCEPT ![id] = stored]
         /\ UNCHANGED <<order, rank, clock>>
         /\ HandOut(c, id)
         /\ Answer("none", token)

Replace(c, id, body, token) ==
  \/ ~Exists(id) /\ Fail("notFound")
  \/ /\ Exists(id) /\ ~VersionMatches(token, items[id].version)
     /\ Fail("preconditionFailed")
  \/ /\ Exists(id) /\ VersionMatches(token, items[id].version)
     /\ Write(c, id, body, token)

(* The native Patcher: an operation that changes nothing hands the stored  *)
(* resource back untouched.                                                *)
Patch(c, id, p) ==
  LET elems == items[id].attrs[p.attr]
  IN  \/ ~Exists(id) /\ Fail("notFound")
      \/ Exists(id) /\ NoTarget(elems, p.op) /\ Fail("noTarget")
      \/ /\ Exists(id) /\ ~NoTarget(elems, p.op) /\ ~Changes(elems, p.op)
         /\ UNCHANGED store
         /\ HandOut(c, id)
         /\ Answer("none", NoToken)
      \/ /\ Exists(id) /\ ~NoTarget(elems, p.op) /\ Changes(elems, p.op)
         /\ Write(c, id, [items[id].attrs EXCEPT ![p.attr] = Applied(elems, p.op)], NoToken)

Delete(c, id) ==
  \/ ~Exists(id) /\ Fail("notFound")
  \/ /\ Exists(id)
     /\ Reindex(Entries(id, items[id]), {})
     /\ Drop(id)
     /\ UNCHANGED <<clock, held>>
     /\ Answer("none", NoToken)

(* A caller swaps under the version of a copy it holds, or under none.     *)
TokensOf(c, id) ==
  {NoToken} \cup (IF held[c] # Nil /\ held[c].id = id
                  THEN Tokens(held[c].res.version) ELSE {})

Next ==
  \E c \in Clients, id \in Ids :
     \/ \E body \in Bodies : Create(c, id, body)
     \/ Get(c, id)
     \/ \E body \in Bodies, token \in TokensOf(c, id) : Replace(c, id, body, token)
     \/ \E p \in Ops : Patch(c, id, p)
     \/ Delete(c, id)

Spec == Init /\ [][Next]_vars

-----------------------------------------------------------------------------
(* List: a read under the shared lock; it changes nothing, so it is an     *)
(* operator over the state.  A filter is an equality on one attribute      *)
(* (the only kind the index may serve), another predicate, or NoFilter.    *)

NoFilter == [kind |-> "none"]
Eq(a, v) == [kind |-> "eq", attr |-> a, value |-> v]
Ne(a, v) == [kind |-> "ne", attr |-> a, value |-> v]

(* filter.Match of a comparison: existential over the attribute's values;  *)
(* ne of a value is true when some value differs.                          *)
SameValue(a, v, w) ==
  IF v \in Strings /\ w \in Strings /\ a \notin CaseExact
  THEN FoldName[v] = FoldName[w] ELSE v = w

Match(r, f) ==
  CASE f.kind = "none" -> TRUE
    [] f.kind = "eq"   -> \E v \in r.attrs[f.attr] : SameValue(f.attr, v, f.value)
    [] f.kind = "ne"   -> \E v \in r.attrs[f.attr] : ~SameValue(f.attr, v, f.value)

(* indexLookup: a bare eq with a string literal on an attribute that has   *)
(* an index map.                                                           *)
UsesIndex(f) == f.kind = "eq" /\ f.value \in Strings /\ f.attr \in buckets

(* The part of a list of ids that a filter keeps.                          *)
Matching(list, f) == Selected(list, {i \in DOMAIN list : Match(items[list[i]], f)})

IndexLookup(f) ==
  {id \in Ids : <<f.attr, FoldName[f.value], id>> \in index}

CandidateSet(f) ==
  IF UsesIndex(f)
  THEN SortResources(SetToSeq({id \in IndexLookup(f) : Exists(id)}), rank, TRUE)
  ELSE order

MatchCandidates_IndexDecides(f) ==
  IF UsesIndex(f) THEN CandidateSet(f)
  ELSE Matching(CandidateSet(f), f)

MatchCandidates(f) == Matching(CandidateSet(f), f)

(* key maps an id to its sort key; a constant key is no SortBy.  Cutting a *)
(* window that wraps panics, and leaves no page.                           *)
ListPage(f, key, ascending, startIndex, count) ==
  LET matched == SortResources(MatchCandidates(f), key, ascending)
  IN  [panics    |-> WindowWraps(matched, startIndex, count),
       resources |-> Paginate(matched, startIndex, count), total |-> Len(matched)]

-----------------------------------------------------------------------------
(* Properties.                                                             *)

Stored == {id \in Ids : Exists(id)}

HandedOut == [id : Ids, born : Nat, res : Resource]

Errors == {"none", "notFound", "uniqueness", "preconditionFailed", "noTarget"}

(* Every variable has its type, and the version stamped into a stored      *)
(* resource is its counter.                                                *)
TypeOK ==
  /\ items \in [Ids -> Resource \cup {Nil}]
  /\ seq \in [Ids -> Nat] /\ rank \in [Ids -> Nat]
  /\ order \in Seq(Ids)
  /\ clock \in Nat
  /\ index \subseteq Indexed \X {FoldName[v] : v \in Strings} \X Ids
  /\ buckets \subseteq Indexed
  /\ held \in [Clients -> HandedOut \cup {Nil}]
  /\ last \in [err : Errors, token : Nat]
  /\ \A id \in Ids : seq[id] = IF Exists(id) THEN items[id].version ELSE 0

(* reindex and remove leave no term behind and forget none: after any      *)
(* sequence of calls the index holds exactly what the stored resources     *)
(* contribute, so checkUnique and the eq shortcut decide as a scan would.  *)
IndexExact == index = UNION {Entries(id, items[id]) : id \in Stored}

(* checkUnique enforces the uniqueness rule on every write path: no two    *)
(* resources hold a string value that folds alike.                         *)
UniqueHeldOnce ==
  \A a \in Unique, id, other \in Stored :
     id # other => Terms(items[id], a) \cap Terms(items[other], a) = {}

(* insert and remove keep the insertion order and the rank map in step:    *)
(* order lists each stored id once, oldest first.                          *)
OrderIsRank ==
  /\ ToSet(order) = Stored
  /\ \A i, j \in DOMAIN order : i < j => rank[order[i]] < rank[order[j]]
  /\ \A id \in Stored : rank[id] \in 1..clock

(* What may be concluded from a copy: while the resource lives, a copy     *)
(* with its current version has its current content.                       *)
SameLife(c) == held[c] # Nil /\ Exists(held[c].id) /\ rank[held[c].id] = held[c].born

VersionNamesContent ==
  \A c \in Clients :
     SameLife(c) /\ held[c].res.version = items[held[c].id].version
        => held[c].res = items[held[c].id]

(* Replace is a compare-and-swap: a successful Replace under a token       *)
(* overwrites exactly the content its caller last read, so no write of     *)
(* another caller, native PATCH included, is lost.  (An id deleted and     *)
(* created again restarts its versions; the server never reuses one.)      *)
NoLostUpdate ==
  [][last'.token # 0 =>
        \A c \in Clients : held'[c] # held[c] /\ SameLife(c)
                             => items[held[c].id] = held[c].res]_vars

(* The index only narrows, it never decides: listing by an equality it     *)
(* serves gives the resources, the order and the total of a scan.          *)
ListPlansAgree ==
  \A a \in Attrs, v \in Values :
     LET page == ListPage(Eq(a, v), [id \in Ids |-> NoKey], TRUE, 1, Len(order))
     IN  /\ ~page.panics
         /\ page.resources = Matching(order, Eq(a, v))
         /\ page.total = Len(page.resources)

(* The store is a server.Store.                                            *)
Contract == INSTANCE StoreContract WITH token <- last.token

ImplementsContract == Contract!Spec

==============================================================================
