--------------------------- MODULE MemStoreProofs ----------------------------
(***************************************************************************)
(* Theorems about MemStore, for any clients, ids, attributes, values,      *)
(* uniqueness rules and bounds.                                            *)
(***************************************************************************)
EXTENDS MemStore, ListProofs

FoldedTerms == {FoldName[v] : v \in Strings}

-----------------------------------------------------------------------------
(* The five things a step can do.                                          *)

Idles == UNCHANGED <<store, held>> /\ last' \in [err : Errors, token : {0}]

Reads(c, id) ==
  /\ Exists(id)
  /\ UNCHANGED store
  /\ HandOut(c, id)
  /\ last' \in [err : Errors, token : {0}]

Creates(c, id, r) ==
  /\ ~Exists(id)
  /\ r.version = seq[id] + 1
  /\ CheckUnique(id, r)
  /\ seq' = [seq EXCEPT ![id] = @ + 1]
  /\ Insert(id, r)
  /\ Reindex({}, Entries(id, r))
  /\ HandOut(c, id)
  /\ last' \in [err : Errors, token : {0}]

Writes(c, id, r) ==
  /\ Exists(id)
  /\ r.version = seq[id] + 1
  /\ CheckUnique(id, r)
  /\ seq' = [seq EXCEPT ![id] = @ + 1]
  /\ Reindex(Entries(id, items[id]), Entries(id, r))
  /\ items' = [items EXCEPT ![id] = r]
  /\ UNCHANGED <<order, rank, clock>>
  /\ HandOut(c, id)
  /\ last' \in [err : Errors, token : {0, items[id].version}]
  /\ last'.token # 0 => held[c] # Nil /\ held[c].id = id
                        /\ held[c].res.version = items[id].version

Deletes(id) ==
  /\ Exists(id)
  /\ Reindex(Entries(id, items[id]), {})
  /\ Drop(id)
  /\ UNCHANGED <<clock, held>>
  /\ last' \in [err : Errors, token : {0}]

StepKinds ==
  \/ Idles
  \/ \E c \in Clients, id \in Ids : Reads(c, id)
  \/ \E c \in Clients, id \in Ids, r \in Resource : Creates(c, id, r)
  \/ \E c \in Clients, id \in Ids, r \in Resource : Writes(c, id, r)
  \/ \E id \in Ids : Deletes(id)

LEMMA BumpedType ==
  ASSUME TypeOK, NEW id \in Ids, NEW attrs \in Content
  PROVE  /\ BumpVersion(id, attrs) \in Resource
         /\ BumpVersion(id, attrs).version = seq[id] + 1
  BY DEF BumpVersion, TypeOK, Resource

LEMMA FailIsIdle ==
  ASSUME NEW err \in Errors, Fail(err)
  PROVE  Idles
  BY DEF Fail, Answer, Idles, NoToken, OpaqueVersion

LEMMA WriteIsWrites ==
  ASSUME TypeOK, NEW c \in Clients, NEW id \in Ids, NEW attrs \in Content,
         NEW token \in TokensOf(c, id), Exists(id),
         VersionMatches(token, items[id].version),
         Write(c, id, attrs, token)
  PROVE  StepKinds
<1> DEFINE r == BumpVersion(id, attrs)
<1>1. r \in Resource /\ r.version = seq[id] + 1
  BY BumpedType
<1>2. CASE ~CheckUnique(id, r) /\ Fail("uniqueness")
  BY <1>2, FailIsIdle DEF StepKinds, Errors
<1>3. CASE /\ CheckUnique(id, r)
           /\ seq' = [seq EXCEPT ![id] = @ + 1]
           /\ Reindex(Entries(id, items[id]), Entries(id, r))
           /\ items' = [items EXCEPT ![id] = r]
           /\ UNCHANGED <<order, rank, clock>>
           /\ HandOut(c, id)
           /\ Answer("none", token)
  <2>1. items[id] \in Resource
    BY DEF TypeOK, Exists
  <2>2. /\ last' \in [err : Errors, token : {0, items[id].version}]
        /\ last'.token # 0 => held[c] # Nil /\ held[c].id = id
                              /\ held[c].res.version = items[id].version
    BY <1>3, <2>1 DEF Answer, Errors, TokensOf, NoToken, Tokens, OpaqueVersion, VersionMatches
  <2>3. Writes(c, id, r)
    BY <1>1, <1>3, <2>2 DEF Writes
  <2> QED BY <1>1, <2>3 DEF StepKinds
<1> QED BY <1>2, <1>3 DEF Write

LEMMA AppliedType ==
  ASSUME NEW S, NEW elems \in SUBSET S, NEW op \in PatchOp(S)
  PROVE  Applied(elems, op) \in SUBSET S
  BY DEF Applied, PatchOp

LEMMA NextKinds ==
  ASSUME TypeOK, [Next]_vars
  PROVE  StepKinds \/ UNCHANGED vars
<1> USE ConstantsAssumption
<1>1. CASE UNCHANGED vars
  BY <1>1
<1>2. ASSUME NEW c \in Clients, NEW id \in Ids, NEW body \in Bodies, Create(c, id, body)
      PROVE  StepKinds
  <2> DEFINE r == BumpVersion(id, body)
  <2>1. r \in Resource /\ r.version = seq[id] + 1
    BY BumpedType
  <2>2. CASE Fail("uniqueness")
    BY <2>2, FailIsIdle DEF StepKinds, Errors
  <2>3. CASE /\ ~Exists(id) /\ CheckUnique(id, r)
             /\ seq' = [seq EXCEPT ![id] = @ + 1]
             /\ Insert(id, r)
             /\ Reindex({}, Entries(id, r))
             /\ HandOut(c, id)
             /\ Answer("none", NoToken)
    <3>1. Creates(c, id, r)
      BY <2>1, <2>3 DEF Creates, Answer, Errors, NoToken, OpaqueVersion
    <3> QED BY <2>1, <3>1 DEF StepKinds
  <2> QED BY <1>2, <2>2, <2>3 DEF Create
<1>3. ASSUME NEW c \in Clients, NEW id \in Ids, Get(c, id)
      PROVE  StepKinds
  <2>1. CASE Fail("notFound")
    BY <2>1, FailIsIdle DEF StepKinds, Errors
  <2>2. CASE Exists(id) /\ UNCHANGED store /\ HandOut(c, id) /\ Answer("none", NoToken)
    BY <2>2 DEF StepKinds, Reads, Answer, Errors, NoToken, OpaqueVersion
  <2> QED BY <1>3, <2>1, <2>2 DEF Get
<1>4. ASSUME NEW c \in Clients, NEW id \in Ids, NEW body \in Bodies,
             NEW token \in TokensOf(c, id), Replace(c, id, body, token)
      PROVE  StepKinds
  <2>1. CASE Fail("notFound") \/ Fail("preconditionFailed")
    BY <2>1, FailIsIdle DEF StepKinds, Errors
  <2>2. CASE Exists(id) /\ VersionMatches(token, items[id].version) /\ Write(c, id, body, token)
    BY <2>2, WriteIsWrites
  <2> QED BY <1>4, <2>1, <2>2 DEF Replace
<1>5. ASSUME NEW c \in Clients, NEW id \in Ids, NEW p \in Ops, Patch(c, id, p)
      PROVE  StepKinds
  <2> DEFINE elems == items[id].attrs[p.attr]
             attrs == [items[id].attrs EXCEPT ![p.attr] = Applied(elems, p.op)]
  <2>1. CASE Fail("notFound") \/ Fail("noTarget")
    BY <2>1, FailIsIdle DEF StepKinds, Errors
  <2>2. CASE Exists(id) /\ UNCHANGED store /\ HandOut(c, id) /\ Answer("none", NoToken)
    BY <2>2 DEF StepKinds, Reads, Answer, Errors, NoToken, OpaqueVersion
  <2>3. CASE Exists(id) /\ Write(c, id, attrs, NoToken)
    <3>1. /\ items[id].attrs \in Content /\ p.attr \in Attrs /\ p.op \in PatchOp(Values)
      BY <2>3 DEF Exists, TypeOK, Resource
    <3>2. Applied(elems, p.op) \in SUBSET Values
      BY <3>1, AppliedType DEF Content
    <3>3. attrs \in Content
      BY <3>1, <3>2 DEF Content
    <3>4. NoToken \in TokensOf(c, id) /\ VersionMatches(NoToken, items[id].version)
      BY DEF TokensOf, VersionMatches, NoToken
    <3> QED BY <2>3, <3>3, <3>4, WriteIsWrites
  <2> QED BY <1>5, <2>1, <2>2, <2>3 DEF Patch
<1>6. ASSUME NEW c \in Clients, NEW id \in Ids, Delete(c, id)
      PROVE  StepKinds
  <2>1. CASE Fail("notFound")
    BY <2>1, FailIsIdle DEF StepKinds, Errors
  <2>2. CASE /\ Exists(id)
             /\ Reindex(Entries(id, items[id]), {})
             /\ Drop(id)
             /\ UNCHANGED <<clock, held>>
             /\ Answer("none", NoToken)
    BY <2>2 DEF StepKinds, Deletes, Answer, Errors, NoToken, OpaqueVersion
  <2> QED BY <1>6, <2>1, <2>2 DEF Delete
<1> QED BY <1>1, <1>2, <1>3, <1>4, <1>5, <1>6 DEF Next

-----------------------------------------------------------------------------
(* The inductive invariant.  TypeOK needs OrderIsRank (a stored id is in   *)
(* the order remove deletes it from); uniqueness and the contract need the *)
(* index to be exact; a copy stays below the version of its resource.      *)

CopiesLag ==
  \A c \in Clients : held[c] # Nil =>
     /\ held[c].born \in 1..clock
     /\ SameLife(c) => held[c].res.version <= items[held[c].id].version

IInv == /\ TypeOK
        /\ OrderIsRank
        /\ IndexExact
        /\ UniqueHeldOnce
        /\ CopiesLag
        /\ VersionNamesContent

(* What a resource contributes to the index is well typed.                 *)
LEMMA EntriesType ==
  ASSUME NEW id \in Ids, NEW r \in Resource
  PROVE  Entries(id, r) \subseteq Indexed \X FoldedTerms \X Ids
  BY DEF Entries, Terms, FoldedTerms

LEMMA WithoutType ==
  ASSUME NEW list \in Seq(Ids), list # <<>>, NEW id \in Ids
  PROVE  Without(list, id) \in Seq(Ids)
<1> DEFINE at == CHOOSE i \in DOMAIN list : list[i] = id
           f  == [i \in 1..(Len(list) - 1) |-> IF i < at THEN list[i] ELSE list[i + 1]]
<1>1. Len(list) - 1 \in Nat OBVIOUS
<1>2. \A i \in 1..(Len(list) - 1) : list[i] \in Ids /\ list[i + 1] \in Ids
  OBVIOUS
<1>3. f \in [1..(Len(list) - 1) -> Ids]
  BY <1>2
<1> QED BY <1>1, <1>3 DEF Without

LEMMA HandOutType ==
  ASSUME TypeOK, NEW c \in Clients, NEW id \in Ids, HandOut(c, id),
         items'[id] \in Resource, rank'[id] \in Nat
  PROVE  held' \in [Clients -> HandedOut \cup {Nil}]
  BY DEF TypeOK, HandOut, HandedOut

LEMMA TypeStep ==
  ASSUME IInv, StepKinds
  PROVE  TypeOK'
<1> USE ConstantsAssumption DEF IInv
<1>1. CASE Idles
  BY <1>1 DEF Idles, store, TypeOK, Exists
<1>2. ASSUME NEW c \in Clients, NEW id \in Ids, Reads(c, id)
      PROVE  TypeOK'
  <2>1. items'[id] \in Resource /\ rank'[id] \in Nat
    BY <1>2 DEF Reads, Exists, TypeOK, store
  <2>2. held' \in [Clients -> HandedOut \cup {Nil}]
    BY <1>2, <2>1, HandOutType DEF Reads
  <2> QED BY <1>2, <2>2 DEF Reads, TypeOK, store, Exists
<1>3. ASSUME NEW c \in Clients, NEW id \in Ids, NEW r \in Resource, Creates(c, id, r)
      PROVE  TypeOK'
  <2> USE <1>3 DEF Creates, Insert
  <2>1. items' \in [Ids -> Resource \cup {Nil}] /\ items'[id] = r
    BY DEF TypeOK
  <2>2. /\ seq' \in [Ids -> Nat] /\ rank' \in [Ids -> Nat]
        /\ clock' \in Nat /\ order' \in Seq(Ids)
    BY DEF TypeOK
  <2>3. index' \subseteq Indexed \X FoldedTerms \X Ids /\ buckets' \subseteq Indexed
    BY EntriesType DEF TypeOK, Reindex, FoldedTerms
  <2>4. held' \in [Clients -> HandedOut \cup {Nil}]
    BY <2>1, <2>2, HandOutType
  <2>5. \A i \in Ids : seq'[i] = IF items'[i] # Nil THEN items'[i].version ELSE 0
    BY DEF TypeOK, Exists, Resource
  <2>6. last' \in [err : Errors, token : Nat]
    OBVIOUS
  <2> QED BY <2>1, <2>2, <2>3, <2>4, <2>5, <2>6 DEF TypeOK, FoldedTerms, Exists
<1>4. ASSUME NEW c \in Clients, NEW id \in Ids, NEW r \in Resource, Writes(c, id, r)
      PROVE  TypeOK'
  <2> USE <1>4 DEF Writes
  <2>1. items' \in [Ids -> Resource \cup {Nil}] /\ items'[id] = r /\ items[id] \in Resource
    BY DEF TypeOK, Exists
  <2>2. /\ seq' \in [Ids -> Nat] /\ rank' \in [Ids -> Nat]
        /\ clock' \in Nat /\ order' \in Seq(Ids)
    BY DEF TypeOK
  <2>3. index' \subseteq Indexed \X FoldedTerms \X Ids /\ buckets' \subseteq Indexed
    BY EntriesType DEF TypeOK, Reindex, FoldedTerms
  <2>4. held' \in [Clients -> HandedOut \cup {Nil}]
    BY <2>1, <2>2, HandOutType
  <2>5. \A i \in Ids : seq'[i] = IF items'[i] # Nil THEN items'[i].version ELSE 0
    BY DEF TypeOK, Exists, Resource
  <2>6. last' \in [err : Errors, token : Nat]
    BY <2>1 DEF Resource
  <2> QED BY <2>1, <2>2, <2>3, <2>4, <2>5, <2>6 DEF TypeOK, FoldedTerms, Exists
<1>5. ASSUME NEW id \in Ids, Deletes(id)
      PROVE  TypeOK'
  <2> USE <1>5 DEF Deletes, Drop
  <2>1. items' \in [Ids -> Resource \cup {Nil}]
    BY DEF TypeOK
  <2>2. seq' \in [Ids -> Nat] /\ rank' \in [Ids -> Nat] /\ clock' \in Nat
    BY DEF TypeOK
  <2>3. order # <<>>
    BY DEF OrderIsRank, ToSet, Stored, TypeOK
  <2>4. order' \in Seq(Ids)
    BY <2>3, WithoutType DEF TypeOK
  <2>5. index' \subseteq Indexed \X FoldedTerms \X Ids /\ buckets' \subseteq Indexed
    BY DEF TypeOK, Reindex, FoldedTerms
  <2>6. \A i \in Ids : seq'[i] = IF items'[i] # Nil THEN items'[i].version ELSE 0
    BY DEF TypeOK, Exists
  <2>7. held' \in [Clients -> HandedOut \cup {Nil}] /\ last' \in [err : Errors, token : Nat]
    BY DEF TypeOK
  <2> QED BY <2>1, <2>2, <2>4, <2>5, <2>6, <2>7 DEF TypeOK, FoldedTerms, Exists
<1> QED BY <1>1, <1>2, <1>3, <1>4, <1>5 DEF StepKinds

(* The order without id lists what it listed, less id, in the same order.  *)
LEMMA WithoutElements ==
  ASSUME NEW list \in Seq(Ids), NEW id \in Ids, NEW at \in DOMAIN list, list[at] = id,
         \A i, j \in DOMAIN list : list[i] = list[j] => i = j
  PROVE  LET new == Without(list, id)
             old(i) == IF i < at THEN i ELSE i + 1
         IN  /\ DOMAIN new = 1..(Len(list) - 1)
             /\ \A i \in DOMAIN new : old(i) \in DOMAIN list /\ new[i] = list[old(i)]
             /\ ToSet(new) = ToSet(list) \ {id}
<1> DEFINE pos == CHOOSE i \in DOMAIN list : list[i] = id
           new == [i \in 1..(Len(list) - 1) |-> IF i < pos THEN list[i] ELSE list[i + 1]]
<1>1. pos = at
  OBVIOUS
<1>2. Len(list) \in Nat \ {0} /\ DOMAIN list = 1..Len(list)
  OBVIOUS
<1>3. \A i \in 1..(Len(list) - 1) :
        /\ (IF i < at THEN i ELSE i + 1) \in DOMAIN list
        /\ new[i] = list[IF i < at THEN i ELSE i + 1]
  BY <1>1, <1>2
<1>4. ToSet(new) \subseteq ToSet(list) \ {id}
  <2> SUFFICES ASSUME NEW i \in 1..(Len(list) - 1)
               PROVE  new[i] \in ToSet(list) \ {id}
    BY DEF ToSet
  <2>1. (IF i < at THEN i ELSE i + 1) # at
    BY <1>2
  <2> QED BY <1>2, <1>3, <2>1 DEF ToSet
<1>5. ToSet(list) \ {id} \subseteq ToSet(new)
  <2> SUFFICES ASSUME NEW j \in DOMAIN list, list[j] # id
               PROVE  list[j] \in ToSet(new)
    BY DEF ToSet
  <2>0. \A i \in 1..(Len(list) - 1) : new[i] \in ToSet(new)
    BY DEF ToSet
  <2>1. CASE j < at
    <3>1. j \in 1..(Len(list) - 1)
      BY <1>2, <2>1
    <3> QED BY <1>3, <2>0, <2>1, <3>1
  <2>2. CASE j > at
    <3>1. j - 1 \in 1..(Len(list) - 1) /\ ~(j - 1 < at)
      BY <1>2, <2>2
    <3>2. (j - 1) + 1 = j
      BY <1>2
    <3> QED BY <1>3, <2>0, <3>1, <3>2
  <2> QED BY <1>2, <2>1, <2>2
<1> QED BY <1>3, <1>4, <1>5 DEF Without

LEMMA OrderStep ==
  ASSUME IInv, StepKinds
  PROVE  OrderIsRank'
<1> USE DEF IInv
<1>0. /\ order \in Seq(Ids) /\ rank \in [Ids -> Nat] /\ clock \in Nat
      /\ \A i \in DOMAIN order : order[i] \in Stored
      /\ items \in [Ids -> Resource \cup {Nil}]
  BY DEF TypeOK, OrderIsRank, ToSet
<1>1. CASE UNCHANGED store
  BY <1>1 DEF store, OrderIsRank, Stored, Exists
<1>2. ASSUME NEW c \in Clients, NEW id \in Ids, NEW r \in Resource, Creates(c, id, r)
      PROVE  OrderIsRank'
  <2>1. /\ order' = Append(order, id) /\ clock' = clock + 1
        /\ rank' = [rank EXCEPT ![id] = clock + 1]
        /\ Stored' = Stored \cup {id} /\ id \notin Stored
    <3>1. items' = [items EXCEPT ![id] = r] /\ r # Nil
      BY <1>2, ConstantsAssumption DEF Creates, Insert
    <3> QED BY <1>0, <1>2, <3>1 DEF Creates, Insert, Stored, Exists
  <2>2. ToSet(order') = Stored'
    <3>1. /\ DOMAIN order' = 1..(Len(order) + 1)
          /\ \A i \in DOMAIN order : order'[i] = order[i]
          /\ order'[Len(order) + 1] = id
      BY <1>0, <2>1
    <3>2. \A i \in DOMAIN order' : i \in DOMAIN order \/ i = Len(order) + 1
      BY <1>0, <3>1
    <3>3. DOMAIN order \subseteq DOMAIN order' /\ Len(order) + 1 \in DOMAIN order'
      BY <1>0, <3>1
    <3>4. ToSet(order') = ToSet(order) \cup {id}
      BY <3>1, <3>2, <3>3 DEF ToSet
    <3> QED BY <2>1, <3>4 DEF OrderIsRank
  <2>3. \A i, j \in DOMAIN order' : i < j => rank'[order'[i]] < rank'[order'[j]]
    <3> SUFFICES ASSUME NEW i \in DOMAIN order', NEW j \in DOMAIN order', i < j
                 PROVE  rank'[order'[i]] < rank'[order'[j]]
      OBVIOUS
    <3>1. i \in DOMAIN order /\ order'[i] = order[i] /\ order[i] \in Stored
      BY <1>0, <2>1
    <3>2. rank'[order'[i]] = rank[order[i]] /\ rank[order[i]] \in 1..clock
      BY <1>0, <2>1, <3>1 DEF OrderIsRank, Stored
    <3>3. CASE j = Len(order) + 1
      BY <1>0, <2>1, <3>2, <3>3
    <3>4. CASE j \in DOMAIN order
      <4>1. order'[j] = order[j] /\ order[j] \in Stored /\ rank'[order'[j]] = rank[order[j]]
        BY <1>0, <2>1, <3>4 DEF Stored
      <4> QED BY <3>1, <3>2, <3>4, <4>1 DEF OrderIsRank
    <3> QED BY <1>0, <2>1, <3>3, <3>4
  <2>4. \A i \in Stored' : rank'[i] \in 1..clock'
    BY <1>0, <2>1 DEF OrderIsRank, Stored
  <2> QED BY <2>2, <2>3, <2>4 DEF OrderIsRank
<1>3. ASSUME NEW c \in Clients, NEW id \in Ids, NEW r \in Resource, Writes(c, id, r)
      PROVE  OrderIsRank'
  <2>1. Stored' = Stored
    BY <1>0, <1>3, ConstantsAssumption DEF Writes, Stored, Exists
  <2> QED BY <1>3, <2>1 DEF Writes, OrderIsRank
<1>4. ASSUME NEW id \in Ids, Deletes(id)
      PROVE  OrderIsRank'
  <2>1. /\ order' = Without(order, id) /\ clock' = clock
        /\ rank' = [rank EXCEPT ![id] = 0]
        /\ Stored' = Stored \ {id}
    BY <1>0, <1>4 DEF Deletes, Drop, Stored, Exists
  <2>2. PICK at \in DOMAIN order : order[at] = id
    BY <1>4 DEF Deletes, OrderIsRank, ToSet, Stored
  <2>3. \A i, j \in DOMAIN order : order[i] = order[j] => i = j
    <3> SUFFICES ASSUME NEW i \in DOMAIN order, NEW j \in DOMAIN order, order[i] = order[j],
                        i < j \/ j < i
                 PROVE  FALSE
      BY <1>0
    <3> QED BY <1>0 DEF OrderIsRank, Stored
  <2> DEFINE old(i) == IF i < at THEN i ELSE i + 1
  <2>4. /\ DOMAIN order' = 1..(Len(order) - 1)
        /\ \A i \in DOMAIN order' : old(i) \in DOMAIN order /\ order'[i] = order[old(i)]
        /\ ToSet(order') = ToSet(order) \ {id}
    BY <1>0, <2>1, <2>2, <2>3, WithoutElements
  <2>5. \A i, j \in DOMAIN order' : i < j => rank'[order'[i]] < rank'[order'[j]]
    <3> SUFFICES ASSUME NEW i \in DOMAIN order', NEW j \in DOMAIN order', i < j
                 PROVE  rank'[order'[i]] < rank'[order'[j]]
      OBVIOUS
    <3>0. i \in Int /\ j \in Int /\ at \in Int
      BY <1>0, <2>2, <2>4
    <3>1. old(i) < old(j) /\ old(i) # at /\ old(j) # at
      BY <3>0
    <3>2. order[old(i)] # id /\ order[old(j)] # id
      BY <2>2, <2>3, <2>4, <3>1
    <3>3. /\ rank'[order'[i]] = rank[order[old(i)]]
          /\ rank'[order'[j]] = rank[order[old(j)]]
      <4>1. \A x \in Stored : x # id => rank'[x] = rank[x]
        BY <1>0, <2>1 DEF Stored
      <4>2. order[old(i)] \in Stored /\ order[old(j)] \in Stored
        BY <1>0, <2>4
      <4> HIDE DEF old
      <4> QED BY <2>4, <3>2, <4>1, <4>2
    <3> QED BY <2>4, <3>1, <3>3 DEF OrderIsRank
  <2>6. \A i \in Stored' : rank'[i] \in 1..clock'
    BY <1>0, <2>1 DEF OrderIsRank, Stored
  <2> QED BY <2>1, <2>4, <2>5, <2>6 DEF OrderIsRank
<1> QED BY <1>1, <1>2, <1>3, <1>4 DEF StepKinds, Idles, Reads

(* Index entries name the resource that contributes them, so reindexing    *)
(* one id never touches another's entries.                                 *)
LEMMA EntriesOwner ==
  ASSUME NEW id, NEW r, NEW e \in Entries(id, r)
  PROVE  e[3] = id
  BY DEF Entries

LEMMA IndexStep ==
  ASSUME IInv, StepKinds
  PROVE  IndexExact'
<1> USE DEF IInv
<1> DEFINE All == UNION {Entries(i, items[i]) : i \in Stored}
<1>0. index = All
  BY DEF IndexExact
<1>1. CASE UNCHANGED store
  BY <1>1 DEF store, IndexExact, Stored, Exists, Entries, Terms
<1>2. ASSUME NEW id \in Ids, NEW r \in Resource \cup {Nil}, NEW cur, NEW old,
             items' = [items EXCEPT ![id] = r],
             old = (IF Exists(id) THEN Entries(id, items[id]) ELSE {}),
             cur = (IF r # Nil THEN Entries(id, r) ELSE {}),
             index' = (index \ old) \cup cur
      PROVE  index' = UNION {Entries(i, items'[i]) : i \in Stored'}
  <2>1. items'[id] = r /\ \A i \in Ids \ {id} : items'[i] = items[i]
    BY <1>2 DEF TypeOK
  <2>2. \A i \in Ids : i \in Stored' <=> items'[i] # Nil
    BY DEF Stored, Exists
  <2>3. ASSUME NEW e \in index'
        PROVE  \E i \in Stored' : e \in Entries(i, items'[i])
    <3>1. CASE e \in cur
      BY <1>2, <2>1, <2>2, <3>1
    <3>2. CASE e \in index /\ e \notin old
      <4>1. PICK i \in Stored : e \in Entries(i, items[i])
        BY <1>0, <3>2
      <4>2. i # id
        BY <1>2, <3>2, <4>1 DEF Stored
      <4>3. i \in Stored' /\ items'[i] = items[i]
        BY <2>1, <2>2, <4>1, <4>2 DEF Stored, Exists
      <4> QED BY <4>1, <4>3
    <3> QED BY <1>2, <3>1, <3>2
  <2>4. ASSUME NEW i \in Stored', NEW e \in Entries(i, items'[i])
        PROVE  e \in index'
    <3>1. CASE i = id
      BY <1>2, <2>1, <2>2, <2>4, <3>1
    <3>2. CASE i # id
      <4>1. i \in Stored /\ items'[i] = items[i]
        BY <2>1, <2>2, <3>2 DEF Stored, Exists
      <4>2. e \in index
        BY <1>0, <2>4, <4>1
      <4>3. e \notin old
        BY <1>2, <2>4, <3>2, EntriesOwner
      <4> QED BY <1>2, <4>2, <4>3
    <3> QED BY <3>1, <3>2
  <2> QED BY <2>3, <2>4
<1>3. ASSUME NEW c \in Clients, NEW id \in Ids, NEW r \in Resource, Creates(c, id, r)
      PROVE  IndexExact'
  BY <1>2, <1>3, ConstantsAssumption DEF Creates, Insert, Reindex, IndexExact
<1>4. ASSUME NEW c \in Clients, NEW id \in Ids, NEW r \in Resource, Writes(c, id, r)
      PROVE  IndexExact'
  BY <1>2, <1>4, ConstantsAssumption DEF Writes, Reindex, IndexExact
<1>5. ASSUME NEW id \in Ids, Deletes(id)
      PROVE  IndexExact'
  BY <1>2, <1>5 DEF Deletes, Drop, Reindex, IndexExact
<1> QED BY <1>1, <1>3, <1>4, <1>5 DEF StepKinds, Idles, Reads

(* With an exact index, checkUnique finds every clash there is.            *)
LEMMA CheckUniqueFindsAll ==
  ASSUME IndexExact, NEW id \in Ids, NEW r \in Resource, CheckUnique(id, r),
         NEW a \in Unique, NEW other \in Stored, other # id
  PROVE  Terms(r, a) \cap Terms(items[other], a) = {}
<1> SUFFICES ASSUME NEW t \in Terms(r, a), t \in Terms(items[other], a)
             PROVE  FALSE
  OBVIOUS
<1>1. <<a, t, other>> \in Entries(other, items[other])
  BY DEF Entries, Indexed
<1>2. <<a, t, other>> \in index
  BY <1>1 DEF IndexExact
<1> QED BY <1>2 DEF CheckUnique

LEMMA UniqueStep ==
  ASSUME IInv, StepKinds
  PROVE  UniqueHeldOnce'
<1> USE DEF IInv
<1>1. CASE UNCHANGED store
  BY <1>1 DEF store, UniqueHeldOnce, Stored, Exists, Terms
<1>2. ASSUME NEW id \in Ids, NEW r \in Resource, CheckUnique(id, r),
             items' = [items EXCEPT ![id] = r]
      PROVE  UniqueHeldOnce'
  <2>1. items'[id] = r /\ \A i \in Ids \ {id} : items'[i] = items[i]
    BY <1>2 DEF TypeOK
  <2> SUFFICES ASSUME NEW a \in Unique, NEW i \in Stored', NEW j \in Stored', i # j
               PROVE  Terms(items'[i], a) \cap Terms(items'[j], a) = {}
    BY DEF UniqueHeldOnce, Terms
  <2>2. \A k \in Stored' : k = id \/ (k \in Stored /\ items'[k] = items[k])
    BY <2>1 DEF Stored, Exists
  <2>3. CASE i # id /\ j # id
    BY <2>2, <2>3 DEF UniqueHeldOnce
  <2>4. \A k \in Stored : k # id => Terms(r, a) \cap Terms(items[k], a) = {}
    BY <1>2, CheckUniqueFindsAll
  <2> QED BY <2>1, <2>2, <2>3, <2>4
<1>3. ASSUME NEW id \in Ids, Deletes(id)
      PROVE  UniqueHeldOnce'
  <2>1. \A k \in Stored' : k \in Stored /\ items'[k] = items[k]
    BY <1>3 DEF Deletes, Drop, Stored, Exists, TypeOK
  <2> SUFFICES ASSUME NEW a \in Unique, NEW i \in Stored', NEW j \in Stored', i # j
               PROVE  Terms(items'[i], a) \cap Terms(items'[j], a) = {}
    BY DEF UniqueHeldOnce, Terms
  <2> QED BY <2>1 DEF UniqueHeldOnce
<1> QED BY <1>1, <1>2, <1>3 DEF StepKinds, Idles, Reads, Creates, Insert, Writes

(* A resource a client holds a copy of is in the same life after a step    *)
(* only if it was before: an id that is created gets a rank of its own.    *)
LEMMA CopiesStep ==
  ASSUME IInv, StepKinds
  PROVE  CopiesLag' /\ VersionNamesContent'
<1> USE DEF IInv
<1>0. /\ items \in [Ids -> Resource \cup {Nil}] /\ rank \in [Ids -> Nat] /\ clock \in Nat
      /\ held \in [Clients -> HandedOut \cup {Nil}]
      /\ \A i \in Ids : Exists(i) => items[i].version \in Nat /\ rank[i] \in 1..clock
                                   /\ seq[i] = items[i].version
      /\ Nil \notin Resource
      /\ \A c \in Clients : held[c] # Nil => /\ held[c].id \in Ids
                                             /\ held[c].res.version \in Nat
                                             /\ held[c].born \in 1..clock
  BY ConstantsAssumption DEF TypeOK, OrderIsRank, Stored, Exists, Resource, HandedOut, CopiesLag
<1> DEFINE Good(c) ==
      held[c] # Nil =>
        /\ held[c].born \in 1..clock
        /\ SameLife(c) => /\ held[c].res.version <= items[held[c].id].version
                          /\ held[c].res.version = items[held[c].id].version
                               => held[c].res = items[held[c].id]
<1>g. \A c \in Clients : Good(c)
  BY DEF CopiesLag, VersionNamesContent
<1>s. SUFFICES ASSUME NEW k \in Clients PROVE Good(k)'
  BY DEF CopiesLag, VersionNamesContent, SameLife
<1>1. CASE UNCHANGED <<store, held>>
  BY <1>1, <1>g DEF store, SameLife, Exists
<1>2. ASSUME NEW c \in Clients, NEW id \in Ids, HandOut(c, id), k = c, clock' \in Nat,
             items'[id] \in Resource, rank'[id] \in 1..clock'
      PROVE  Good(k)'
  BY <1>0, <1>2 DEF HandOut, SameLife, Exists, Resource
<1>3. ASSUME NEW c \in Clients, NEW id \in Ids, Reads(c, id)
      PROVE  Good(k)'
  <2>1. items'[id] \in Resource /\ rank'[id] \in 1..clock' /\ clock' \in Nat
    BY <1>0, <1>3 DEF Reads, store, Exists
  <2>2. CASE k # c
    <3>1. held'[k] = held[k]
      BY <1>0, <1>3, <2>2 DEF Reads, HandOut
    <3> QED BY <1>3, <1>g, <3>1 DEF Reads, store, SameLife, Exists
  <2> QED BY <1>2, <1>3, <2>1, <2>2 DEF Reads
<1>4. ASSUME NEW c \in Clients, NEW id \in Ids, NEW r \in Resource, Creates(c, id, r)
      PROVE  Good(k)'
  <2> USE <1>4 DEF Creates, Insert
  <2>1. items'[id] \in Resource /\ rank'[id] = clock + 1 /\ clock' = clock + 1
    BY <1>0
  <2>2. CASE k # c
    <3>1. held'[k] = held[k]
      BY <1>0, <2>2 DEF HandOut
    <3>2. CASE held[k] # Nil
      <4>1. held[k].born \in 1..clock
        BY <1>0, <3>2
      <4>2. CASE held[k].id = id
        BY <1>0, <2>1, <3>1, <4>1, <4>2 DEF SameLife
      <4>3. CASE held[k].id # id
        BY <1>0, <1>g, <2>1, <3>1, <3>2, <4>1, <4>3 DEF SameLife, Exists
      <4> QED BY <4>2, <4>3
    <3> QED BY <3>1, <3>2
  <2> QED BY <1>0, <1>2, <2>1, <2>2
<1>5. ASSUME NEW c \in Clients, NEW id \in Ids, NEW r \in Resource, Writes(c, id, r)
      PROVE  Good(k)'
  <2> USE <1>5 DEF Writes
  <2>1. /\ items'[id] = r /\ rank'[id] \in 1..clock' /\ clock' \in Nat
        /\ items[id].version \in Nat /\ r.version = items[id].version + 1
    BY <1>0
  <2>2. CASE k # c
    <3>1. held'[k] = held[k] /\ rank' = rank /\ clock' = clock
      BY <1>0, <2>2 DEF HandOut
    <3>2. CASE held[k] # Nil /\ held[k].id = id
      BY <1>0, <1>g, <2>1, <3>1, <3>2 DEF SameLife
    <3>3. CASE held[k] # Nil /\ held[k].id # id
      <4>1. items'[held[k].id] = items[held[k].id]
        BY <1>0, <3>3
      <4> QED BY <1>g, <3>1, <3>3, <4>1 DEF SameLife, Exists
    <3> QED BY <3>1, <3>2, <3>3
  <2> QED BY <1>2, <2>1, <2>2
<1>6. ASSUME NEW id \in Ids, Deletes(id)
      PROVE  Good(k)'
  <2>1. /\ items'[id] = Nil /\ held' = held /\ clock' = clock
        /\ \A i \in Ids \ {id} : items'[i] = items[i] /\ rank'[i] = rank[i]
    BY <1>0, <1>6 DEF Deletes, Drop
  <2> QED BY <1>0, <1>g, <2>1 DEF SameLife, Exists
<1> QED BY <1>1, <1>3, <1>4, <1>5, <1>6 DEF StepKinds, Idles, Reads

-----------------------------------------------------------------------------
(* The theorems.                                                           *)

LEMMA InitIInv == Init => IInv
<1> SUFFICES ASSUME Init PROVE IInv
  OBVIOUS
<1> USE DEF Init
<1>1. TypeOK
  BY DEF TypeOK, Exists, Errors
<1>2. Stored = {}
  BY DEF Stored, Exists
<1>3. OrderIsRank
  BY <1>2 DEF OrderIsRank, ToSet
<1>4. IndexExact /\ UniqueHeldOnce
  BY <1>2 DEF IndexExact, UniqueHeldOnce
<1>5. CopiesLag /\ VersionNamesContent
  BY DEF CopiesLag, VersionNamesContent, SameLife
<1> QED BY <1>1, <1>3, <1>4, <1>5 DEF IInv

LEMMA NextIInv == IInv /\ [Next]_vars => IInv'
<1> SUFFICES ASSUME IInv, [Next]_vars PROVE IInv'
  OBVIOUS
<1>1. CASE StepKinds
  BY <1>1, TypeStep, OrderStep, IndexStep, UniqueStep, CopiesStep DEF IInv
<1>2. CASE UNCHANGED vars
  <2> USE <1>2 DEF vars, store, IInv, Stored, Exists
  <2>1. TypeOK'
    BY DEF TypeOK
  <2>2. OrderIsRank'
    BY DEF OrderIsRank
  <2>3. IndexExact' /\ UniqueHeldOnce'
    BY DEF IndexExact, UniqueHeldOnce, Entries, Terms
  <2>4. CopiesLag' /\ VersionNamesContent'
    BY DEF CopiesLag, VersionNamesContent, SameLife
  <2> QED BY <2>1, <2>2, <2>3, <2>4
<1> QED BY <1>1, <1>2, NextKinds DEF IInv

LEMMA Inductive == Spec => []IInv
BY InitIInv, NextIInv, PTL DEF Spec

(* Type correctness: in particular a stored resource always carries the    *)
(* version its counter counts, through every create, write and delete.     *)
THEOREM TypeCorrect == Spec => []TypeOK
<1>1. IInv => TypeOK
  BY DEF IInv
<1> QED BY <1>1, Inductive, PTL

(* reindex and remove keep the index exact.                                *)
THEOREM IndexCorrect == Spec => []IndexExact
<1>1. IInv => IndexExact
  BY DEF IInv
<1> QED BY <1>1, Inductive, PTL

(* No two resources ever hold string values of a unique attribute that     *)
(* fold alike.                                                             *)
THEOREM UniquenessCorrect == Spec => []UniqueHeldOnce
<1>1. IInv => UniqueHeldOnce
  BY DEF IInv
<1> QED BY <1>1, Inductive, PTL

(* The insertion order lists each stored id once, by rank.                 *)
THEOREM OrderCorrect == Spec => []OrderIsRank
<1>1. IInv => OrderIsRank
  BY DEF IInv
<1> QED BY <1>1, Inductive, PTL

(* A version identifies the content of a resource while it lives.          *)
THEOREM VersionsNameContent == Spec => []VersionNamesContent
<1>1. IInv => VersionNamesContent
  BY DEF IInv
<1> QED BY <1>1, Inductive, PTL

(* A Replace that succeeds under a token overwrites what its caller read.  *)
THEOREM NoUpdateIsLost == Spec => NoLostUpdate
<1>1. ASSUME IInv, [Next]_vars
      PROVE  [last'.token # 0 =>
                \A c \in Clients : held'[c] # held[c] /\ SameLife(c)
                                   => items[held[c].id] = held[c].res]_vars
  <2> SUFFICES ASSUME StepKinds, last'.token # 0,
                      NEW c \in Clients, held'[c] # held[c], SameLife(c)
               PROVE  items[held[c].id] = held[c].res
    BY <1>1, NextKinds DEF IInv
  <2>1. held \in [Clients -> HandedOut \cup {Nil}]
    BY <1>1 DEF IInv, TypeOK
  <2>2. PICK d \in Clients, id \in Ids, r \in Resource : Writes(d, id, r)
    BY DEF StepKinds, Idles, Reads, Creates, Deletes
  <2>3. d = c
    BY <2>1, <2>2 DEF Writes, HandOut
  <2>4. held[c].id = id /\ held[c].res.version = items[id].version
    BY <2>2, <2>3 DEF Writes
  <2> QED BY <1>1, <2>4 DEF IInv, VersionNamesContent
<1> QED BY <1>1, Inductive, PTL DEF Spec, NoLostUpdate

(* The store implements server.Store's contract: with the index, the       *)
(* counters and the insertion order forgotten, every call is one atomic    *)
(* step of a map of versioned resources that enforces uniqueness.          *)
LEMMA NoClash ==
  ASSUME IInv, NEW id \in Ids, NEW r \in Resource, CheckUnique(id, r)
  PROVE  ~Contract!Clash(id, r)
<1>1. \A a \in Unique, other \in Stored : other # id => Terms(r, a) \cap Terms(items[other], a) = {}
  BY CheckUniqueFindsAll DEF IInv
<1> QED BY <1>1 DEF Contract!Clash, Contract!Keys, Terms, Strings, Stored, Exists

THEOREM StoreImplementsContract == Spec => ImplementsContract
<1>1. Init => Contract!Init
  BY DEF Init, Contract!Init
<1>2. ASSUME IInv, [Next]_vars
      PROVE  [Contract!Next]_(Contract!contractVars)
  <2> USE DEF Contract!Next, Contract!contractVars, Contract!Becomes
  <2>0. /\ items \in [Ids -> Resource \cup {Nil}] /\ Contract!Resource = Resource
        /\ \A i \in Ids : Exists(i) => items[i].version \in Nat /\ seq[i] = items[i].version
    BY <1>2 DEF IInv, TypeOK, Resource, Contract!Resource, Content, Exists
  <2>1. CASE UNCHANGED vars
    BY <2>1 DEF vars, store
  <2>2. CASE \/ Idles
             \/ \E c \in Clients, id \in Ids : Reads(c, id)
    BY <2>2 DEF Idles, Reads, store, Contract!Observe
  <2>3. ASSUME NEW c \in Clients, NEW id \in Ids, NEW r \in Resource, Creates(c, id, r)
        PROVE  Contract!Create(id)
    <3>1. items[id] = Nil /\ items' = [items EXCEPT ![id] = r] /\ items'[id] = r
      BY <2>0, <2>3 DEF Creates, Insert, Exists
    <3> QED BY <1>2, <2>0, <2>3, <3>1, NoClash DEF Contract!Create, Creates
  <2>4. ASSUME NEW c \in Clients, NEW id \in Ids, NEW r \in Resource, Writes(c, id, r)
        PROVE  Contract!Write(id)
    <3>1. items[id] # Nil /\ items' = [items EXCEPT ![id] = r] /\ items'[id] = r
      BY <2>0, <2>4 DEF Writes, Exists
    <3>2. items[id].version \in Nat /\ r.version = items[id].version + 1
      BY <2>0, <2>4 DEF Writes
    <3> QED BY <1>2, <2>0, <2>4, <3>1, <3>2, NoClash DEF Contract!Write, Writes
  <2>5. ASSUME NEW id \in Ids, Deletes(id)
        PROVE  Contract!Delete(id)
    BY <2>5 DEF Deletes, Drop, Exists, Contract!Delete
  <2> QED BY <1>2, <2>1, <2>2, <2>3, <2>4, <2>5, NextKinds DEF IInv, StepKinds
<1> QED BY <1>1, <1>2, Inductive, PTL DEF Spec, ImplementsContract, Contract!Spec


-----------------------------------------------------------------------------
(* The two ways to list.                                                   *)

(* The candidates come in insertion order: the ids the index names, or     *)
(* every stored one.                                                       *)
LEMMA CandidatesAre ==
  ASSUME TypeOK, OrderIsRank, NEW f
  PROVE  /\ CandidateSet(f) \in Seq(Ids) /\ Climbs(CandidateSet(f), rank)
         /\ ToSet(CandidateSet(f)) = IF UsesIndex(f) THEN IndexLookup(f) \cap Stored ELSE Stored
<1>1. order \in Seq(Ids) /\ rank \in [Ids -> Nat] /\ ToSet(order) = Stored
  BY DEF TypeOK, OrderIsRank
<1>2. Climbs(order, rank)
  BY DEF OrderIsRank, Climbs
<1>3. CASE ~UsesIndex(f)
  BY <1>1, <1>2, <1>3 DEF CandidateSet
<1>4. CASE UsesIndex(f)
  <2> DEFINE hits == {id \in IndexLookup(f) : Exists(id)}
             list == SetToSeq(hits)
  <2>1. hits \in SUBSET Stored /\ hits \subseteq Ids /\ hits = IndexLookup(f) \cap Stored
    BY DEF IndexLookup, Stored
  <2>2. CandidateSet(f) = SortResources(list, rank, TRUE)
    BY <1>4 DEF CandidateSet
  <2> HIDE DEF hits
  <2>3. IsFiniteSet(hits)
    <3>1. IsFiniteSet(Stored)
      BY <1>1, ListedFinite
    <3> QED BY <2>1, <3>1, FS_Subset
  <2>4. list \in Seq(hits) /\ ToSet(list) = hits /\ Distinct(list)
    BY <2>3, SomeListOf
  <2> HIDE DEF list
  <2>5. list \in Seq(Ids) /\ DOMAIN list = 1..Len(list) /\ \A i \in DOMAIN list : list[i] \in Stored
    BY <2>1, <2>4
  (* No two stored ids have one rank.                                      *)
  <2>6. ASSUME NEW a \in Stored, NEW b \in Stored, rank[a] = rank[b] PROVE a = b
    <3>1. PICK i \in DOMAIN order : order[i] = a
      BY <1>1 DEF ToSet
    <3>2. PICK j \in DOMAIN order : order[j] = b
      BY <1>1 DEF ToSet
    <3>3. i \in Nat /\ j \in Nat /\ rank[a] \in Nat /\ rank[b] \in Nat
      BY <1>1 DEF Stored
    <3>4. ~(i < j) /\ ~(j < i)
      BY <1>2, <2>6, <3>1, <3>2, <3>3 DEF Climbs
    <3> QED BY <3>1, <3>2, <3>3, <3>4
  <2>7. RanksApart(list, rank)
    BY <2>4, <2>5, <2>6 DEF Distinct, RanksApart
  <2>8. /\ SortResources(list, rank, TRUE) \in Seq(Ids) /\ Climbs(SortResources(list, rank, TRUE), rank)
        /\ ToSet(SortResources(list, rank, TRUE)) = ToSet(list)
    BY <1>1, <2>5, <2>7, SortedClimbs
  <2> QED BY <1>4, <2>1, <2>2, <2>4, <2>8
<1> QED BY <1>3, <1>4

(* A stored resource the filter matches is under the index's term for it.  *)
LEMMA IndexMisses ==
  ASSUME TypeOK, IndexExact, NEW a \in Attrs, NEW v \in Values, UsesIndex(Eq(a, v)),
         NEW id \in Stored, Match(items[id], Eq(a, v))
  PROVE  id \in IndexLookup(Eq(a, v))
<1> DEFINE f == Eq(a, v)
<1>1. f.kind = "eq" /\ f.attr = a /\ f.value = v /\ v \in Strings /\ a \in Indexed
  BY DEF UsesIndex, Eq, TypeOK
<1>2. PICK w \in items[id].attrs[a] : SameValue(a, w, v)
  BY <1>1 DEF Match
<1> HIDE DEF f
<1>3. w \in Strings /\ FoldName[w] = FoldName[v]
  BY <1>1, <1>2 DEF SameValue
<1>4. FoldName[v] \in Terms(items[id], a)
  BY <1>2, <1>3 DEF Terms
<1>5. <<a, FoldName[v], id>> \in Entries(id, items[id])
  BY <1>1, <1>4 DEF Entries
<1>6. <<a, FoldName[v], id>> \in index
  BY <1>5 DEF IndexExact
<1> QED BY <1>1, <1>6 DEF IndexLookup, Stored, f

(* Filtering either gives the matching ids in insertion order.             *)
LEMMA PlansMatch ==
  ASSUME TypeOK, OrderIsRank, IndexExact, NEW a \in Attrs, NEW v \in Values
  PROVE  MatchCandidates(Eq(a, v)) = Matching(order, Eq(a, v))
<1> DEFINE f == Eq(a, v)
           cand == CandidateSet(f)
           hit(list) == {i \in DOMAIN list : Match(items[list[i]], f)}
<1>1. order \in Seq(Ids) /\ rank \in [Ids -> Nat] /\ ToSet(order) = Stored
  BY DEF TypeOK, OrderIsRank
<1>2. Climbs(order, rank)
  BY DEF OrderIsRank, Climbs
<1>3. /\ cand \in Seq(Ids) /\ Climbs(cand, rank)
      /\ ToSet(cand) = IF UsesIndex(f) THEN IndexLookup(f) \cap Stored ELSE Stored
  BY CandidatesAre
<1>4. \A id \in Stored : UsesIndex(f) /\ Match(items[id], f) => id \in IndexLookup(f)
  BY IndexMisses
<1> HIDE DEF f, cand
<1> DEFINE x == Selected(cand, hit(cand))
           y == Selected(order, hit(order))
<1>5. x \in Seq(Ids) /\ Climbs(x, rank) /\ ToSet(x) = {cand[i] : i \in hit(cand) \cap DOMAIN cand}
  BY <1>3, SelectedIs, SelectedClimbs, SelectedRange
<1>6. y \in Seq(Ids) /\ Climbs(y, rank) /\ ToSet(y) = {order[i] : i \in hit(order) \cap DOMAIN order}
  BY <1>1, <1>2, SelectedIs, SelectedClimbs, SelectedRange
<1>7. ToSet(x) = {id \in ToSet(cand) : Match(items[id], f)}
  <2> HIDE DEF x
  <2> QED BY <1>5 DEF ToSet
<1>8. ToSet(y) = {id \in ToSet(order) : Match(items[id], f)}
  <2> HIDE DEF y
  <2> QED BY <1>6 DEF ToSet
<1>9. ToSet(x) = ToSet(y)
  <2> HIDE DEF x, y
  <2> QED BY <1>1, <1>3, <1>4, <1>7, <1>8
<1>10. x = y
  <2> HIDE DEF x, y
  <2> QED BY <1>1, <1>5, <1>6, <1>9, OneByRank
<1> QED BY <1>10 DEF MatchCandidates, Matching, f, cand

(* The length of the list is an int.                                       *)
ClockBounded == clock <= MaxClock

LEMMA ClockHolds == Spec => []ClockBounded
<1>1. Init => ClockBounded
  BY ConstantsAssumption DEF Init, ClockBounded
<1>2. IInv /\ ClockBounded /\ [Next]_vars => ClockBounded'
  <2> SUFFICES ASSUME IInv, ClockBounded, [Next]_vars PROVE clock' <= MaxClock
    BY DEF ClockBounded
  <2>1. clock \in Nat /\ MaxClock \in Nat /\ clock <= MaxClock
    BY ConstantsAssumption DEF IInv, TypeOK, ClockBounded
  <2>2. clock' = clock \/ (clock < MaxClock /\ clock' = clock + 1)
    <3>1. \A err : Fail(err) => clock' = clock
      BY DEF Fail, store
    <3>2. ASSUME NEW c \in Clients, NEW id \in Ids, NEW body \in Bodies, Create(c, id, body)
          PROVE  clock' = clock \/ (clock < MaxClock /\ clock' = clock + 1)
      BY <3>1, <3>2 DEF Create, Insert
    <3>3. \A c, id, attrs, token : Write(c, id, attrs, token) => clock' = clock
      BY <3>1 DEF Write
    <3>4. ASSUME NEW c \in Clients, NEW id \in Ids,
                 \/ Get(c, id) \/ Delete(c, id)
                 \/ \E body \in Bodies, token \in TokensOf(c, id) : Replace(c, id, body, token)
                 \/ \E p \in Ops : Patch(c, id, p)
          PROVE  clock' = clock
      BY <3>1, <3>3, <3>4 DEF Get, Delete, Replace, Patch, store
    <3> QED BY <3>2, <3>4 DEF Next, vars, store
  <2> QED BY <2>1, <2>2
<1> QED BY <1>1, <1>2, Inductive, PTL DEF Spec

LEMMA OrderFits ==
  ASSUME TypeOK, OrderIsRank, ClockBounded
  PROVE  Len(order) \in 0..MaxInt
<1> DEFINE n == Len(order)
           f == [k \in 1..n |-> rank[order[k]]]
<1>1. order \in Seq(Ids) /\ clock \in Nat /\ MaxClock \in 0..MaxInt /\ clock <= MaxClock /\ MaxInt \in Nat
  BY ConstantsAssumption, IntAssumption DEF TypeOK, ClockBounded
<1>2. n \in Nat /\ DOMAIN order = 1..n
  BY <1>1
<1> HIDE DEF n
<1>3. \A k \in 1..n : f[k] \in 1..clock
  BY <1>2 DEF OrderIsRank, ToSet
<1>4. f \in [1..n -> Nat \ {0}] /\ \A i, j \in 1..n : i < j => f[i] < f[j]
  <2>1. \A i, j \in 1..n : i < j => f[i] < f[j]
    BY <1>2 DEF OrderIsRank
  <2>2. \A k \in 1..n : rank[order[k]] \in Nat \ {0}
    BY <1>1, <1>3
  <2> QED BY <2>1, <2>2
<1> HIDE DEF f
<1>5. n # 0 => n <= f[n] /\ f[n] \in 1..clock
  <2>1. \A k \in 1..n : k <= f[k]
    BY <1>2, <1>4, Rising
  <2> QED BY <1>2, <1>3, <2>1
<1> QED BY <1>1, <1>2, <1>5 DEF n

(* The index narrows a listing and never decides one (candidateSet): an    *)
(* equality it serves lists the resources, in the order and with the total *)
(* of the scan it stands in for.  The list's length being an int, its      *)
(* window from the first place on does not wrap.                           *)
THEOREM ListPlansCorrect == Spec => []ListPlansAgree
<1>1. IInv /\ ClockBounded => ListPlansAgree
  <2> SUFFICES ASSUME IInv, ClockBounded, NEW a \in Attrs, NEW v \in Values
               PROVE  LET page == ListPage(Eq(a, v), [id \in Ids |-> NoKey], TRUE, 1, Len(order))
                      IN  /\ ~page.panics
                          /\ page.resources = Matching(order, Eq(a, v))
                          /\ page.total = Len(page.resources)
    BY DEF ListPlansAgree
  <2> DEFINE f == Eq(a, v)
             found == MatchCandidates(f)
             key == [id \in Ids |-> NoKey]
  <2>1. TypeOK /\ OrderIsRank /\ IndexExact
    BY DEF IInv
  <2>2. found = Matching(order, f)
    BY <2>1, PlansMatch
  <2>3. order \in Seq(Ids)
    BY <2>1 DEF TypeOK
  <2> DEFINE places == {i \in DOMAIN order : Match(items[order[i]], f)}
  <2>4. Matching(order, f) = Selected(order, places)
    BY DEF Matching
  <2> HIDE DEF places, f
  <2>5. found \in Seq(Ids) /\ Len(found) <= Len(order)
    <3>1. found \in Seq(Ids)
      BY <2>2, <2>3, <2>4, SelectedIs
    <3>2. PICK place : IsSelection(place, found, order, places)
      BY <2>2, <2>3, <2>4, SelectedIs
    <3> HIDE DEF found
    <3> DEFINE n == Len(found)
    <3>3. n \in Nat /\ DOMAIN found = 1..n
      BY <3>1
    <3> HIDE DEF n
    <3>4. /\ place \in [1..n -> Nat \ {0}] /\ \A k \in 1..n : place[k] \in DOMAIN order
          /\ \A i, j \in 1..n : i < j => place[i] < place[j]
      <4>1. \A i \in DOMAIN order : i \in Nat \ {0}
        BY <2>3
      <4>2. /\ place \in [1..n -> places \cap DOMAIN order]
            /\ \A i, j \in 1..n : i < j => place[i] < place[j]
        BY <3>2, <3>3 DEF IsSelection
      <4> QED BY <4>1, <4>2
    <3>5. \A k \in 1..n : k <= place[k]
      BY <3>3, <3>4, Rising
    <3>6. n # 0 => n <= Len(order)
      <4> SUFFICES ASSUME n # 0 PROVE n <= Len(order)
        OBVIOUS
      <4>1. n \in 1..n
        BY <3>3
      <4>2. n <= place[n] /\ place[n] \in DOMAIN order
        BY <3>4, <3>5, <4>1
      <4>3. DOMAIN order = 1..Len(order) /\ Len(order) \in Nat
        BY <2>3
      <4> QED BY <3>3, <4>2, <4>3
    <3> QED BY <2>3, <3>1, <3>3, <3>6 DEF n
  <2> HIDE DEF found
  <2>6. SortResources(found, key, TRUE) = found
    <3>1. \A i \in DOMAIN found : key[found[i]] = NoKey
      BY <2>5
    <3> HIDE DEF key
    <3> QED BY <2>5, <3>1, UnkeyedStays
  <2>7. Paginate(found, 1, Len(order)) = found
    <3>1. CASE Len(order) # 0
      <4>1. Len(order) \in Nat \ {0}
        BY <2>3, <3>1
      <4> QED BY <2>5, <4>1, WholePage
    <3>2. CASE Len(order) = 0
      <4>1. found = <<>>
        BY <2>5, <3>2
      <4> QED BY <3>2, <4>1 DEF Paginate
    <3> QED BY <3>1, <3>2
  <2>9. Matching(order, f) = found
    BY <2>2
  <2> HIDE DEF key
  <2>10. ~WindowWraps(SortResources(found, key, TRUE), 1, Len(order))
    BY <2>1, OrderFits, FirstPage
  <2>11. /\ ~ListPage(f, key, TRUE, 1, Len(order)).panics
         /\ ListPage(f, key, TRUE, 1, Len(order)).resources = found
         /\ ListPage(f, key, TRUE, 1, Len(order)).total = Len(found)
    BY <2>6, <2>7, <2>10 DEF ListPage, found
  <2> QED BY <2>9, <2>11 DEF f, key
<1> QED BY <1>1, Inductive, ClockHolds, PTL
==============================================================================
