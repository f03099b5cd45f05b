---------------------------- MODULE StoreContract ----------------------------
(***************************************************************************)
(* What server.Store promises its callers, whatever the implementation: a  *)
(* map from ids to versioned resources in which every call takes effect    *)
(* at once, a write gives the resource a version it did not have before in *)
(* its lifetime, a compare-and-swap token names the version it replaces,   *)
(* and no two resources hold the same unique value.  There is no index     *)
(* here and no insertion order: uniqueness is stated over the resources    *)
(* themselves.                                                             *)
(***************************************************************************)
EXTENDS Naturals

CONSTANTS Ids, Attrs, Values,
          Unique,        \* attributes under a server or global uniqueness rule
          FoldName,      \* case folding of the string values
          Nil            \* no resource

VARIABLES items,         \* id -> resource or Nil
          token          \* the version the last call's token named, 0 for none

contractVars == <<items, token>>

Resource == [attrs : [Attrs -> SUBSET Values], version : Nat]

(* The unique values two resources may not share are compared folded, and  *)
(* only string values (the domain of FoldName) are compared at all.        *)
Keys(r, a) == {FoldName[v] : v \in r.attrs[a] \cap DOMAIN FoldName}

Clash(id, r) ==
  \E other \in Ids \ {id}, a \in Unique :
     items[other] # Nil /\ Keys(r, a) \cap Keys(items[other], a) # {}

(* The call leaves r under id and every other resource alone.              *)
Becomes(id, r) == items' = [items EXCEPT ![id] = r]

Init == items = [id \in Ids |-> Nil] /\ token = 0

Create(id) ==
  LET new == items'[id]
  IN  /\ items[id] = Nil
      /\ new \in Resource
      /\ ~Clash(id, new)
      /\ Becomes(id, new)
      /\ token' = 0

(* Replace, or the native Patch.                                           *)
Write(id) ==
  LET new == items'[id]
  IN  /\ items[id] # Nil
      /\ new \in Resource
      /\ ~Clash(id, new)
      /\ new.version > items[id].version
      /\ Becomes(id, new)
      /\ token' \in {0, items[id].version}

Delete(id) ==
  /\ items[id] # Nil
  /\ Becomes(id, Nil)
  /\ token' = 0

(* A read, a write that changed nothing, or a call that failed.            *)
Observe == UNCHANGED items /\ token' = 0

Next == Observe \/ \E id \in Ids : Create(id) \/ Write(id) \/ Delete(id)

Spec == Init /\ [][Next]_contractVars

==============================================================================
