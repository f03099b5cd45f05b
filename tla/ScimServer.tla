------------------------------ MODULE ScimServer ------------------------------
(***************************************************************************)
(* The request handlers of one resource type (server/handler_crud.go and   *)
(* handler_patch.go), running concurrently over a Store.  A step is one    *)
(* call of the store with the handler's own computation up to the next     *)
(* call, or one operation on the resource's stripe lock.                   *)
(*                                                                         *)
(* The Store is StoreContract's: each call atomic, and Replace a           *)
(* compare-and-swap when it tracks versions.  A resource's version changes *)
(* with every write of it; where the store tracks none it stands for the   *)
(* content hash the server uses as the tag, and no call compares it.       *)
(***************************************************************************)
EXTENDS ResourceRules, FiniteSets

CONSTANTS
  Requests,    \* requests in flight, each served by a goroutine of its own
  Stripes, StripeOf,  \* lock stripes, and the hash of an id to its stripe
  PatchRetries,       \* patchRetries
  Modes,       \* how the server may be built, see AtomicServer
  Start,       \* the resources the store holds when the server starts
  Bodies, PatchOps,   \* what clients send
  OutsideBodies,      \* what the embedding program writes
  MaxOutside   \* bound: its writes

Flags == [native : BOOLEAN, versioned : BOOLEAN, strict : BOOLEAN, outside : BOOLEAN]

(* What a request can ask, and how it can end.                             *)
Call ==
  LET Condition == [form : {"none", "any", "tag"}, version : Nat]
  IN  [kind : {"create"}, id : Ids, body : Bodies]
      \cup [kind : {"put"}, id : Ids, body : Bodies, match : Condition]
      \cup [kind : {"patch"}, id : Ids, p : PatchOps, match : Condition]
      \cup [kind : {"get", "delete"}, id : Ids, match : Condition]

Errors == {"none", "internal", "notFound", "notModified", "preconditionFailed",
           "uniqueness", "mutability", "invalidValue", "noTarget"}

Outcome == [err : Errors, res : Resource \cup {Nil}]

ASSUME ServerAssumption ==
  /\ StripeOf \in [Ids -> Stripes]
  /\ PatchRetries \in Nat \ {0} /\ MaxOutside \in Nat
  /\ Modes \subseteq Flags
  /\ Start \in [Ids -> Resource \cup {Nil}]
  /\ Nil \notin Requests \cup Call \cup Outcome
  /\ \A attrs \in OutsideBodies : Valid(attrs, TRUE)
  /\ \A id \in Ids : Start[id] # Nil => Valid(Start[id].attrs, TRUE)
  /\ Bodies \cup OutsideBodies \subseteq Content
  /\ PatchOps \subseteq [attr : Attrs, op : PatchOp(Values)]

VARIABLES
  mode,      \* how this server was built
  items,     \* the store: id -> resource or Nil
  used,      \* ids ever given to a resource
  holder,    \* stripe -> the request that holds its lock, or Nil
  pc,        \* request -> where its handler is
  call,      \* request -> what was asked
  snap,      \* request -> the resource its last Get returned
  attempt,   \* request -> rounds of the PATCH compare-and-swap loop
  answer,    \* request -> its outcome
  outside    \* writes the embedding program has made

vars == <<mode, items, used, holder, pc, call, snap, attempt, answer, outside>>

-----------------------------------------------------------------------------
(* The store's calls.                                                      *)

Stored(id, attrs) ==
  items' = [items EXCEPT ![id] = [attrs |-> attrs, version |-> @.version + 1]]

SwapRefused_Never(id, read) == FALSE

(* Replace under the version of the copy that was read.                    *)
SwapRefused(id, read) == mode.versioned /\ items[id].version # read.version

-----------------------------------------------------------------------------
(* A client that read the resource before it sends the request.            *)
Conditions(id) ==
  {NoMatch, AnyTag} \cup (IF items[id] = Nil THEN {} ELSE {TagOf(items[id])})

(* assignCreateIdentity gives a new resource an id of its own, a UUID.      *)
Calls ==
  [kind : {"create"}, id : Ids \ used, body : Bodies]
  \cup UNION {[kind : {"put"}, id : {id}, body : Bodies, match : Conditions(id)]
              \cup [kind : {"patch"}, id : {id}, p : PatchOps, match : Conditions(id)]
              \cup [kind : {"get", "delete"}, id : {id}, match : Conditions(id)] : id \in used}

-----------------------------------------------------------------------------
(* The handlers.                                                           *)

StripeFor(q) == StripeOf[call[q].id]

Holds(q) == \E s \in Stripes : holder[s] = q

Goto(q, label) == pc' = [pc EXCEPT ![q] = label]

Answer_KeepsLock(q, err, res) ==
  /\ answer' = [answer EXCEPT ![q] = [err |-> err, res |-> res]]
  /\ Goto(q, IF Holds(q) /\ err # "internal" THEN "unlock" ELSE "done")

(* A handler's return: the answer is settled, the deferred unlock, where   *)
(* there is one, is still to run.                                          *)
Answer(q, err, res) ==
  /\ answer' = [answer EXCEPT ![q] = [err |-> err, res |-> res]]
  /\ Goto(q, IF Holds(q) THEN "unlock" ELSE "done")

Refuse(q, err) == Answer(q, err, Nil) /\ UNCHANGED <<items, snap, attempt>>

Init ==
  /\ mode \in Modes
  /\ items = Start
  /\ used = {id \in Ids : Start[id] # Nil}
  /\ holder = [s \in Stripes |-> Nil]
  /\ pc = [q \in Requests |-> "idle"]
  /\ call = [q \in Requests |-> Nil] /\ answer = [q \in Requests |-> Nil]
  /\ snap = [q \in Requests |-> Nil]
  /\ attempt = [q \in Requests |-> 0]
  /\ outside = 0

(* The native PATCH needs no Get of its own when there is nothing to check. *)
FirstStep(c) ==
  CASE c.kind \in {"create", "get"} -> c.kind
    [] c.kind = "patch" /\ mode.native ->
         IF c.match = NoMatch /\ ~mode.strict THEN "patch" ELSE "preflight"
    [] OTHER -> "lock"

Arrive(q) ==
  /\ pc[q] = "idle"
  /\ \E c \in Calls : /\ call' = [call EXCEPT ![q] = c]
                     /\ used' = used \cup {c.id}
                     /\ Goto(q, FirstStep(c))
  /\ UNCHANGED <<mode, items, holder, snap, attempt, answer, outside>>

Lock_NoWait(q) ==
  /\ pc[q] = "lock"
  /\ holder' = [holder EXCEPT ![StripeFor(q)] = q]
  /\ Goto(q, IF call[q].kind = "delete" /\ call[q].match = NoMatch THEN "delete" ELSE "read")
  /\ UNCHANGED <<mode, items, used, call, snap, attempt, answer, outside>>

(* stripedLocks.lock; an unconditional DELETE has nothing to read.         *)
Lock(q) ==
  /\ pc[q] = "lock"
  /\ holder[StripeFor(q)] = Nil
  /\ holder' = [holder EXCEPT ![StripeFor(q)] = q]
  /\ Goto(q, IF call[q].kind = "delete" /\ call[q].match = NoMatch THEN "delete" ELSE "read")
  /\ UNCHANGED <<mode, items, used, call, snap, attempt, answer, outside>>

Unlock(q) ==
  /\ pc[q] = "unlock"
  /\ holder' = [holder EXCEPT ![StripeFor(q)] = Nil]
  /\ Goto(q, "done")
  /\ UNCHANGED <<mode, items, used, call, snap, attempt, answer, outside>>

(* A store call, for a request whose handler is at label.                  *)
At(q, label) == pc[q] = label /\ UNCHANGED <<mode, used, holder, call, outside>>

CreateStep(q) ==
  LET c == call[q]
  IN  /\ At(q, "create")
      /\ \/ Refuse(q, "internal")
         \/ ~Valid(c.body, mode.strict) /\ Refuse(q, "invalidValue")
         \/ Valid(c.body, mode.strict) /\ Clash(items, c.id, c.body) /\ Refuse(q, "uniqueness")
         \/ /\ Valid(c.body, mode.strict) /\ ~Clash(items, c.id, c.body)
            /\ items' = [items EXCEPT ![c.id] = [attrs |-> c.body, version |-> 1]]
            /\ Answer(q, "none", items'[c.id])
            /\ UNCHANGED <<snap, attempt>>

GetStep(q) ==
  LET c == call[q]
      r == items[c.id]
  IN  /\ At(q, "get")
      /\ \/ Refuse(q, "internal")
         \/ r = Nil /\ Refuse(q, "notFound")
         \/ /\ r # Nil /\ c.match.form # "none" /\ Matches(c.match, r)
            /\ Refuse(q, "notModified")
         \/ /\ r # Nil /\ ~(c.match.form # "none" /\ Matches(c.match, r))
            /\ Answer(q, "none", r)
            /\ UNCHANGED <<items, snap, attempt>>

(* store.Get inside the lock, and what the handler makes of its result.    *)
(* PATCH checks If-Match on its first round only.                          *)
Failed(q, r) ==
  LET c == call[q]
  IN  CASE r = Nil -> "notFound"
        [] r # Nil /\ attempt[q] = 0 /\ ~Matches(c.match, r) -> "preconditionFailed"
        [] OTHER -> CASE c.kind = "put"    -> PutError(c.body, r.attrs, mode.strict)
                      [] c.kind = "patch"  -> PatchError(c.p, r.attrs, mode.strict)
                      [] c.kind = "delete" -> "none"

NothingToDo(q, r) == call[q].kind = "patch" /\ Patched(call[q].p, r.attrs) = r.attrs

ReadStep(q) ==
  LET r == items[call[q].id]
  IN  /\ At(q, "read")
      /\ \/ Refuse(q, "internal")
         \/ Failed(q, r) # "none" /\ Refuse(q, Failed(q, r))
         \/ /\ Failed(q, r) = "none" /\ NothingToDo(q, r)
            /\ Answer(q, "none", r)
            /\ UNCHANGED <<items, snap, attempt>>
         \/ /\ Failed(q, r) = "none" /\ ~NothingToDo(q, r)
            /\ snap' = [snap EXCEPT ![q] = r]
            /\ Goto(q, IF call[q].kind = "delete" THEN "delete" ELSE "replace")
            /\ UNCHANGED <<items, attempt, answer>>

(* What the handler made of the copy it read.                              *)
Written(q) ==
  IF call[q].kind = "put" THEN Merge(call[q].body, snap[q].attrs)
                          ELSE Patched(call[q].p, snap[q].attrs)

TriesAgain_OneLess(q) == call[q].kind = "patch" /\ attempt[q] + 2 < PatchRetries

TriesAgain_OneMore(q) == call[q].kind = "patch" /\ attempt[q] < PatchRetries

(* Only PATCH retries a lost swap, and not for ever.                       *)
TriesAgain(q) == call[q].kind = "patch" /\ attempt[q] + 1 < PatchRetries

ReplaceStep(q) ==
  LET id == call[q].id
  IN  /\ At(q, "replace")
      /\ \/ Refuse(q, "internal")
         \/ items[id] = Nil /\ Refuse(q, "notFound")
         \/ /\ items[id] # Nil /\ SwapRefused(id, snap[q]) /\ TriesAgain(q)
            /\ attempt' = [attempt EXCEPT ![q] = @ + 1]
            /\ Goto(q, "read")
            /\ UNCHANGED <<items, snap, answer>>
         \/ /\ items[id] # Nil /\ SwapRefused(id, snap[q]) /\ ~TriesAgain(q)
            /\ Refuse(q, "preconditionFailed")
         \/ /\ items[id] # Nil /\ ~SwapRefused(id, snap[q])
            /\ Clash(items, id, Written(q)) /\ Refuse(q, "uniqueness")
         \/ /\ items[id] # Nil /\ ~SwapRefused(id, snap[q]) /\ ~Clash(items, id, Written(q))
            /\ Stored(id, Written(q))
            /\ Answer(q, "none", items'[id])
            /\ UNCHANGED <<snap, attempt>>

DeleteStep(q) ==
  LET id == call[q].id
  IN  /\ At(q, "delete")
      /\ \/ Refuse(q, "internal")
         \/ items[id] = Nil /\ Refuse(q, "notFound")
         \/ /\ items[id] # Nil
            /\ items' = [items EXCEPT ![id] = Nil]
            /\ Answer(q, "none", Nil)
            /\ UNCHANGED <<snap, attempt>>

(* patchNative's Get: If-Match, and under strict the validation of what    *)
(* the operation would do to the copy.  No lock is held.                   *)
PreflightStep(q) ==
  LET c == call[q]
      r == items[c.id]
      err == PatchError(c.p, r.attrs, TRUE)
  IN  /\ At(q, "preflight")
      /\ \/ Refuse(q, "internal")
         \/ r = Nil /\ Refuse(q, "notFound")
         \/ r # Nil /\ ~Matches(c.match, r) /\ Refuse(q, "preconditionFailed")
         \/ /\ r # Nil /\ Matches(c.match, r) /\ mode.strict /\ err # "none"
            /\ Refuse(q, err)
         \/ /\ r # Nil /\ Matches(c.match, r) /\ (mode.strict => err = "none")
            /\ Goto(q, "patch")
            /\ UNCHANGED <<items, snap, attempt, answer>>

(* store.Patch: applied to the resource as the store has it, not validated. *)
PatchStep(q) ==
  LET c   == call[q]
      r   == items[c.id]
      err == ApplyError(c.p, r.attrs)
      new == Patched(c.p, r.attrs)
  IN  /\ At(q, "patch")
      /\ \/ Refuse(q, "internal")
         \/ r = Nil /\ Refuse(q, "notFound")
         \/ r # Nil /\ err # "none" /\ Refuse(q, err)
         \/ /\ r # Nil /\ err = "none" /\ new = r.attrs
            /\ Answer(q, "none", r)
            /\ UNCHANGED <<items, snap, attempt>>
         \/ /\ r # Nil /\ err = "none" /\ new # r.attrs
            /\ Clash(items, c.id, new) /\ Refuse(q, "uniqueness")
         \/ /\ r # Nil /\ err = "none" /\ new # r.attrs /\ ~Clash(items, c.id, new)
            /\ Stored(c.id, new)
            /\ Answer(q, "none", items'[c.id])
            /\ UNCHANGED <<snap, attempt>>

(* The embedding program writes or deletes in the store directly, around   *)
(* the handlers and their locks.                                           *)
Outside ==
  /\ mode.outside /\ outside < MaxOutside
  /\ \E id \in Ids :
        /\ items[id] # Nil
        /\ \/ \E attrs \in OutsideBodies : ~Clash(items, id, attrs) /\ Stored(id, attrs)
           \/ items' = [items EXCEPT ![id] = Nil]
  /\ outside' = outside + 1
  /\ UNCHANGED <<mode, used, holder, pc, call, snap, attempt, answer>>

Serve(q) ==
  \/ Lock(q) \/ Unlock(q)
  \/ CreateStep(q) \/ GetStep(q)
  \/ ReadStep(q) \/ ReplaceStep(q) \/ DeleteStep(q)
  \/ PreflightStep(q) \/ PatchStep(q)

AllDone == \A q \in Requests : pc[q] = "done"

(* Every request is answered: the server idles.                            *)
Rest == AllDone /\ UNCHANGED vars

Next == Outside \/ Rest \/ \E q \in Requests : Arrive(q) \/ Serve(q)

Spec == Init /\ [][Next]_vars

(* A goroutine that can run runs; a mutex with finitely many contenders is *)
(* eventually theirs.  No request has to arrive and nobody has to write    *)
(* from outside.                                                           *)
FairSpec == Spec /\ \A q \in Requests : WF_vars(Serve(q))

-----------------------------------------------------------------------------
(* Properties.                                                             *)

(* Where a handler holds its stripe's lock, and where it does not.         *)
Locked   == {"read", "replace", "delete", "unlock"}
Unlocked == {"idle", "lock", "create", "get", "preflight", "patch", "done"}

(* Every variable has its type.                                            *)
TypeOK ==
  /\ mode \in Modes
  /\ items \in [Ids -> Resource \cup {Nil}]
  /\ used \subseteq Ids /\ \A id \in Ids : items[id] # Nil => id \in used
  /\ holder \in [Stripes -> Requests \cup {Nil}]
  /\ pc \in [Requests -> Locked \cup Unlocked]
  /\ call \in [Requests -> Call \cup {Nil}]
  /\ snap \in [Requests -> Resource \cup {Nil}]
  /\ attempt \in [Requests -> 0..(PatchRetries - 1)]
  /\ answer \in [Requests -> Outcome \cup {Nil}]
  /\ outside \in 0..MaxOutside

(* The modes in which requests are atomic: the store compares versions, or *)
(* every writer of the store takes the stripe lock.                        *)
Serializable == mode.versioned \/ ~(mode.native \/ mode.outside)

(* The copy a PUT or PATCH is about to write over: while nobody bypasses   *)
(* the locks it is still what is stored, otherwise it is if the swap will  *)
(* succeed.                                                                *)
SwapsWhatItRead ==
  \A q \in Requests :
     /\ pc[q] = "replace" /\ items[call[q].id] # Nil
     /\ Serializable /\ ~SwapRefused(call[q].id, snap[q])
     => items[call[q].id] = snap[q]

(* No request rewrites an attribute the server or its program owns: a      *)
(* readOnly attribute, or an immutable one once assigned, outlives every   *)
(* PUT and PATCH, those that read the resource before it was set included. *)
OwnedByServer(before, after) ==
  \A a \in ReadOnly \cup Immutable :
     (a \in ReadOnly \/ before.attrs[a] # {}) => after.attrs[a] = before.attrs[a]

ProtectedKept ==
  [][Serializable /\ outside' = outside =>
       \A id \in Ids : items[id] # Nil /\ items'[id] # Nil
                         => OwnedByServer(items[id], items'[id])]_vars

AllValid == \A id \in Ids : items[id] # Nil => Valid(items[id].attrs, mode.strict)

(* Whatever PUT and PATCH are interleaved, and however many rounds a PATCH *)
(* takes, what the handlers persist is valid under the schema: they swap   *)
(* in nothing that was not validated as it was computed.                   *)
StoredAreValid == ~mode.native => AllValid

(* A PATCH is refused for contention only after losing patchRetries swaps, *)
(* each to a different write from outside the server: requests of this     *)
(* server never make one another fail (they queue on the stripe).          *)
PatchGivesUpLate ==
  \A q \in Requests :
     /\ answer[q] # Nil /\ answer[q].err = "preconditionFailed"
     /\ call[q].kind = "patch" /\ call[q].match = NoMatch
     => outside >= PatchRetries

(* Every request that arrives is answered and releases its lock.           *)
AllAnswered == \A q \in Requests : pc[q] # "idle" ~> pc[q] = "done"

(* Every request takes effect at one instant, on the resource as it then   *)
(* is: no update is lost, a readOnly or assigned immutable attribute never *)
(* changes, and a conditional PUT replaces the version it names.           *)
Atomic == INSTANCE AtomicServer

RequestsAreAtomic == Atomic!Spec

==============================================================================
