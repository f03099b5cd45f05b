--------------------------- MODULE ScimServerProofs ---------------------------
(***************************************************************************)
(* Theorems about ScimServer, for any requests, ids, stripes, schema,      *)
(* contents and bounds.                                                    *)
(***************************************************************************)
EXTENDS ScimServer, TLAPS

-----------------------------------------------------------------------------
(* The kinds of step, for what they do to the handlers and to the store.   *)

Working == {"create", "get", "read", "replace", "delete", "preflight", "patch"}

LocksBypassed == mode.outside \/ mode.native

Overwrites(q) ==
  LET id == call[q].id
  IN  /\ pc[q] \in {"replace", "patch"}
      /\ items[id] # Nil
      /\ \E attrs \in Content :
            /\ Stored(id, attrs)
            /\ pc[q] = "replace" => attrs = Written(q) /\ ~SwapRefused(id, snap[q])
            /\ pc[q] = "patch" => /\ attrs = Patched(call[q].p, items[id].attrs)
                                  /\ ApplyError(call[q].p, items[id].attrs) = "none"

Removes(q) ==
  /\ pc[q] = "delete"
  /\ items[call[q].id] # Nil
  /\ items' = [items EXCEPT ![call[q].id] = Nil]

Creates(q) ==
  /\ pc[q] = "create"
  /\ Valid(call[q].body, mode.strict)
  /\ items' = [items EXCEPT ![call[q].id] = [attrs |-> call[q].body, version |-> 1]]

(* A handler returns, having changed the store in its last call or not.    *)
Returns(q) ==
  /\ pc[q] \in Working
  /\ \E err \in Errors, res \in Resource \cup {Nil} : Answer(q, err, res)
  /\ items' = items \/ Overwrites(q) \/ Removes(q) \/ Creates(q)
  /\ UNCHANGED <<mode, used, holder, call, snap, attempt, outside>>

(* A read the handler goes on from.                                        *)
ReadsOn(q) ==
  LET r == items[call[q].id]
  IN  /\ pc[q] = "read"
      /\ Failed(q, r) = "none" /\ ~NothingToDo(q, r)
      /\ snap' = [snap EXCEPT ![q] = r]
      /\ Goto(q, IF call[q].kind = "delete" THEN "delete" ELSE "replace")
      /\ UNCHANGED <<mode, items, used, holder, call, attempt, answer, outside>>

(* A lost swap that is tried again.                                        *)
Retries(q) ==
  /\ pc[q] = "replace"
  /\ items[call[q].id] # Nil /\ SwapRefused(call[q].id, snap[q]) /\ TriesAgain(q)
  /\ attempt' = [attempt EXCEPT ![q] = @ + 1]
  /\ Goto(q, "read")
  /\ UNCHANGED <<mode, items, used, holder, call, snap, answer, outside>>

PassesPreflight(q) ==
  /\ pc[q] = "preflight"
  /\ Goto(q, "patch")
  /\ UNCHANGED <<mode, items, used, holder, call, snap, attempt, answer, outside>>

StepOf(q) ==
  \/ Arrive(q) \/ Lock(q) \/ Unlock(q)
  \/ Returns(q) \/ ReadsOn(q) \/ Retries(q) \/ PassesPreflight(q)

StepKinds == Outside \/ \E q \in Requests : StepOf(q)

-----------------------------------------------------------------------------
(* The inductive invariant.                                                *)

(* A stripe's holder is the one handler between its lock and its unlock.   *)
LocksHeld ==
  /\ \A q \in Requests : pc[q] \in Locked => holder[StripeFor(q)] = q
  /\ \A s \in Stripes : holder[s] # Nil =>
        pc[holder[s]] \in Locked /\ StripeFor(holder[s]) = s

(* A handler is where its kind of request goes.                            *)
KindAt(label) ==
  CASE label = "create" -> {"create"}
    [] label = "get" -> {"get"}
    [] label \in {"preflight", "patch"} -> {"patch"}
    [] label \in {"lock", "read"} -> {"put", "patch", "delete"}
    [] label = "replace" -> {"put", "patch"}
    [] label = "delete" -> {"delete"}
    [] OTHER -> {"create", "get", "put", "patch", "delete"}

HandlersOnCourse ==
  \A q \in Requests :
     /\ pc[q] = "idle" <=> call[q] = Nil
     /\ answer[q] # Nil <=> pc[q] \in {"unlock", "done"}
     /\ call[q] # Nil => call[q].id \in used /\ call[q].kind \in KindAt(pc[q])
     /\ pc[q] \in {"preflight", "patch"} => mode.native
     /\ pc[q] \in {"lock", "read", "replace"} /\ call[q].kind = "patch" => ~mode.native
     /\ attempt[q] > 0 => /\ call[q] # Nil /\ call[q].kind = "patch"
                          /\ mode.versioned /\ mode.outside

(* A handler that has read the resource goes on to write or delete it.     *)
HasRead(p) == pc[p] = "replace" \/ (pc[p] = "delete" /\ call[p].match.form = "tag")

(* A generated id is one request's until its resource is created.          *)
CreatesFresh ==
  \A q \in Requests : pc[q] = "create" =>
     /\ items[call[q].id] = Nil
     /\ \A p \in Requests \ {q} : call[p] # Nil /\ call[p].id = call[q].id =>
           call[p].kind # "create" /\ ~HasRead(p)

(* What a handler knows of the copy it read when it comes to write.        *)
CopyUsable(q) ==
  LET c == call[q]
      r == snap[q]
  IN  /\ r # Nil
      /\ items[c.id] # Nil => /\ r.version <= items[c.id].version
                              /\ r.version = items[c.id].version => items[c.id] = r
      /\ ~LocksBypassed => items[c.id] = r
      /\ c.kind = "put" => PutError(c.body, r.attrs, mode.strict) = "none"
      /\ c.kind = "patch" => /\ PatchError(c.p, r.attrs, mode.strict) = "none"
                             /\ Patched(c.p, r.attrs) # r.attrs
      /\ Matches(c.match, r) \/ (c.kind = "patch" /\ attempt[q] > 0)

CopiesUsable ==
  \A q \in Requests :
     /\ pc[q] = "replace" => CopyUsable(q)
     /\ pc[q] = "delete" /\ ~LocksBypassed /\ items[call[q].id] # Nil
           => Matches(call[q].match, items[call[q].id])

IInv == TypeOK /\ LocksHeld /\ HandlersOnCourse /\ CreatesFresh /\ CopiesUsable

-----------------------------------------------------------------------------
(* The rules keep contents well typed.                                     *)

LEMMA MergeType ==
  ASSUME NEW body \in Content, NEW cur \in Content
  PROVE  Merge(body, cur) \in Content
  BY DEF Merge, Content

LEMMA PatchedType ==
  ASSUME NEW p \in PatchOps, NEW cur \in Content
  PROVE  Patched(p, cur) \in Content
<1>1. p.attr \in Attrs /\ p.op \in PatchOp(Values)
  BY ServerAssumption
<1>2. Applied(cur[p.attr], p.op) \in SUBSET Values
  BY <1>1 DEF Applied, PatchOp, Content
<1> QED BY <1>1, <1>2 DEF Patched, Content

LEMMA ErrorTypes ==
  /\ \A body, cur, strict : PutError(body, cur, strict) \in Errors
  /\ \A p, cur, strict : PatchError(p, cur, strict) \in Errors
  /\ \A p, cur : ApplyError(p, cur) \in Errors
<1>1. \A p, cur : ApplyError(p, cur) \in Errors
  BY DEF ApplyError, Errors
<1>2. \A body, cur, strict : PutError(body, cur, strict) \in Errors
  BY DEF PutError, Errors
<1>3. \A p, cur, strict : PatchError(p, cur, strict) \in Errors
  BY <1>1 DEF PatchError, Errors
<1> QED BY <1>1, <1>2, <1>3

LEMMA FailedType ==
  ASSUME HandlersOnCourse, NEW q \in Requests, NEW r, pc[q] = "read"
  PROVE  Failed(q, r) \in Errors
<1>1. call[q] # Nil /\ call[q].kind \in {"put", "patch", "delete"}
  BY DEF HandlersOnCourse, KindAt
<1> QED BY <1>1, ErrorTypes DEF Failed, Errors

(* Every kind of request carries what its handler uses of it.              *)
LEMMA CallTypes ==
  ASSUME NEW c \in Call
  PROVE  /\ c.id \in Ids
         /\ c.kind \in {"create", "put", "patch", "get", "delete"}
         /\ c.kind \in {"create", "put"} => c.body \in Content
         /\ c.kind = "patch" => c.p \in PatchOps
         /\ c.kind # "create" => c.match \in [form : {"none", "any", "tag"}, version : Nat]
  BY ServerAssumption DEF Call

(* The content a step of q writes is well typed.                           *)
LEMMA WrittenType ==
  ASSUME IInv, NEW q \in Requests, pc[q] = "replace"
  PROVE  Written(q) \in Content
<1>1. call[q] \in Call /\ call[q].kind \in {"put", "patch"} /\ snap[q] \in Resource
  BY DEF IInv, TypeOK, HandlersOnCourse, KindAt, CopiesUsable, CopyUsable
<1>2. snap[q].attrs \in Content
  BY <1>1 DEF Resource
<1> QED BY <1>1, <1>2, CallTypes, MergeType, PatchedType DEF Written

-----------------------------------------------------------------------------
(* Every step is of one of the kinds.                                      *)

LEMMA RefusalReturns ==
  ASSUME NEW q \in Requests, pc[q] \in Working, NEW err \in Errors, Refuse(q, err),
         UNCHANGED <<mode, used, holder, call, outside>>
  PROVE  Returns(q)
  BY DEF Refuse, Returns

LEMMA NextKinds ==
  ASSUME IInv, [Next]_vars
  PROVE  StepKinds \/ UNCHANGED vars
<1> USE DEF At
<1>a. /\ items \in [Ids -> Resource \cup {Nil}]
      /\ \A q \in Requests : pc[q] # "idle" => call[q] \in Call
      /\ \A q \in Requests : call[q] # Nil => call[q].kind \in KindAt(pc[q])
      /\ \A id \in Ids, attrs \in Content : Stored(id, attrs) /\ items[id] # Nil
            => items'[id] \in Resource
  BY DEF IInv, TypeOK, HandlersOnCourse, Stored, Resource
<1>1. CASE UNCHANGED vars
  BY <1>1
<1>2. CASE Outside \/ (\E q \in Requests : Arrive(q) \/ Lock(q) \/ Unlock(q))
  BY <1>2 DEF StepKinds, StepOf
<1>3. ASSUME NEW q \in Requests, CreateStep(q)
      PROVE  Returns(q)
  <2>1. pc[q] = "create" /\ call[q] \in Call /\ call[q].kind = "create"
    BY <1>3, <1>a DEF CreateStep, KindAt, IInv, HandlersOnCourse
  <2>2. CASE Refuse(q, "internal") \/ Refuse(q, "invalidValue") \/ Refuse(q, "uniqueness")
    BY <1>3, <2>1, <2>2, RefusalReturns DEF CreateStep, Working, Errors
  <2>3. CASE /\ Valid(call[q].body, mode.strict)
             /\ items' = [items EXCEPT ![call[q].id] = [attrs |-> call[q].body, version |-> 1]]
             /\ Answer(q, "none", items'[call[q].id])
             /\ UNCHANGED <<snap, attempt>>
    <3>1. items'[call[q].id] \in Resource
      BY <1>a, <2>1, <2>3, CallTypes DEF Resource
    <3> QED BY <1>3, <2>1, <2>3, <3>1 DEF CreateStep, Returns, Creates, Working, Errors
  <2> QED BY <1>3, <2>2, <2>3 DEF CreateStep
<1>4. ASSUME NEW q \in Requests, GetStep(q)
      PROVE  Returns(q)
  <2>1. pc[q] = "get" /\ call[q] \in Call
    BY <1>4, <1>a DEF GetStep
  <2>2. CASE Refuse(q, "internal") \/ Refuse(q, "notFound") \/ Refuse(q, "notModified")
    BY <1>4, <2>1, <2>2, RefusalReturns DEF GetStep, Working, Errors
  <2>3. CASE Answer(q, "none", items[call[q].id]) /\ UNCHANGED <<items, snap, attempt>>
    BY <1>4, <1>a, <2>1, <2>3, CallTypes DEF GetStep, Returns, Working, Errors
  <2> QED BY <1>4, <2>2, <2>3 DEF GetStep
<1>5. ASSUME NEW q \in Requests, ReadStep(q)
      PROVE  Returns(q) \/ ReadsOn(q)
  <2> DEFINE r == items[call[q].id]
  <2>1. pc[q] = "read" /\ call[q] \in Call /\ Failed(q, r) \in Errors
    BY <1>5, <1>a, FailedType DEF ReadStep, IInv
  <2>2. CASE Refuse(q, "internal") \/ Refuse(q, Failed(q, r))
    BY <1>5, <2>1, <2>2, RefusalReturns DEF ReadStep, Working, Errors
  <2>3. CASE Answer(q, "none", r) /\ UNCHANGED <<items, snap, attempt>>
    BY <1>5, <1>a, <2>1, <2>3, CallTypes DEF ReadStep, Returns, Working, Errors
  <2>4. CASE /\ Failed(q, r) = "none" /\ ~NothingToDo(q, r)
             /\ snap' = [snap EXCEPT ![q] = r]
             /\ Goto(q, IF call[q].kind = "delete" THEN "delete" ELSE "replace")
             /\ UNCHANGED <<items, attempt, answer>>
    BY <1>5, <2>4 DEF ReadStep, ReadsOn
  <2> QED BY <1>5, <2>2, <2>3, <2>4 DEF ReadStep
<1>6. ASSUME NEW q \in Requests, ReplaceStep(q)
      PROVE  Returns(q) \/ Retries(q)
  <2> DEFINE id == call[q].id
  <2>1. pc[q] = "replace" /\ call[q] \in Call /\ Written(q) \in Content
    BY <1>6, <1>a, WrittenType DEF ReplaceStep
  <2>2. CASE \/ Refuse(q, "internal") \/ Refuse(q, "notFound")
             \/ Refuse(q, "preconditionFailed") \/ Refuse(q, "uniqueness")
    BY <1>6, <2>1, <2>2, RefusalReturns DEF ReplaceStep, Working, Errors
  <2>3. CASE /\ items[id] # Nil /\ SwapRefused(id, snap[q]) /\ TriesAgain(q)
             /\ attempt' = [attempt EXCEPT ![q] = @ + 1]
             /\ Goto(q, "read")
             /\ UNCHANGED <<items, snap, answer>>
    BY <1>6, <2>3 DEF ReplaceStep, Retries
  <2>4. CASE /\ items[id] # Nil /\ ~SwapRefused(id, snap[q])
             /\ Stored(id, Written(q))
             /\ Answer(q, "none", items'[id])
             /\ UNCHANGED <<snap, attempt>>
    <3>1. items'[id] \in Resource
      BY <1>a, <2>1, <2>4, CallTypes
    <3>2. Overwrites(q)
      BY <2>1, <2>4 DEF Overwrites
    <3> QED BY <1>6, <2>1, <2>4, <3>1, <3>2 DEF ReplaceStep, Returns, Working, Errors
  <2> QED BY <1>6, <2>2, <2>3, <2>4 DEF ReplaceStep
<1>7. ASSUME NEW q \in Requests, DeleteStep(q)
      PROVE  Returns(q)
  <2>1. pc[q] = "delete"
    BY <1>7 DEF DeleteStep
  <2>2. CASE Refuse(q, "internal") \/ Refuse(q, "notFound")
    BY <1>7, <2>1, <2>2, RefusalReturns DEF DeleteStep, Working, Errors
  <2>3. CASE /\ items[call[q].id] # Nil
             /\ items' = [items EXCEPT ![call[q].id] = Nil]
             /\ Answer(q, "none", Nil)
             /\ UNCHANGED <<snap, attempt>>
    BY <1>7, <2>1, <2>3 DEF DeleteStep, Returns, Removes, Working, Errors
  <2> QED BY <1>7, <2>2, <2>3 DEF DeleteStep
<1>8. ASSUME NEW q \in Requests, PreflightStep(q)
      PROVE  Returns(q) \/ PassesPreflight(q)
  <2> DEFINE err == PatchError(call[q].p, items[call[q].id].attrs, TRUE)
  <2>1. pc[q] = "preflight" /\ err \in Errors
    BY <1>8, ErrorTypes DEF PreflightStep
  <2>2. CASE \/ Refuse(q, "internal") \/ Refuse(q, "notFound")
             \/ Refuse(q, "preconditionFailed") \/ Refuse(q, err)
    BY <1>8, <2>1, <2>2, RefusalReturns DEF PreflightStep, Working, Errors
  <2>3. CASE Goto(q, "patch") /\ UNCHANGED <<items, snap, attempt, answer>>
    BY <1>8, <2>1, <2>3 DEF PreflightStep, PassesPreflight
  <2> QED BY <1>8, <2>2, <2>3 DEF PreflightStep
<1>9. ASSUME NEW q \in Requests, PatchStep(q)
      PROVE  Returns(q)
  <2> DEFINE c   == call[q]
             r   == items[c.id]
             err == ApplyError(c.p, r.attrs)
             new == Patched(c.p, r.attrs)
  <2>1. pc[q] = "patch" /\ c \in Call /\ c.kind = "patch" /\ err \in Errors
    BY <1>9, <1>a, ErrorTypes DEF PatchStep, KindAt, IInv, HandlersOnCourse
  <2>2. CASE \/ Refuse(q, "internal") \/ Refuse(q, "notFound")
             \/ Refuse(q, err) \/ Refuse(q, "uniqueness")
    BY <1>9, <2>1, <2>2, RefusalReturns DEF PatchStep, Working, Errors
  <2>3. CASE Answer(q, "none", r) /\ UNCHANGED <<items, snap, attempt>>
    BY <1>9, <1>a, <2>1, <2>3, CallTypes DEF PatchStep, Returns, Working, Errors
  <2>4. CASE /\ r # Nil /\ err = "none" /\ Stored(c.id, new)
             /\ Answer(q, "none", items'[c.id])
             /\ UNCHANGED <<snap, attempt>>
    <3>1. new \in Content /\ c.id \in Ids
      BY <1>a, <2>1, <2>4, CallTypes, PatchedType DEF Resource
    <3>2. items'[c.id] \in Resource
      BY <1>a, <2>4, <3>1
    <3>3. Overwrites(q)
      BY <2>1, <2>4, <3>1 DEF Overwrites
    <3> QED BY <1>9, <2>1, <2>4, <3>2, <3>3 DEF PatchStep, Returns, Working, Errors
  <2> QED BY <1>9, <2>2, <2>3, <2>4 DEF PatchStep
<1> QED BY <1>1, <1>2, <1>3, <1>4, <1>5, <1>6, <1>7, <1>8, <1>9
        DEF Next, Rest, Serve, StepKinds, StepOf

-----------------------------------------------------------------------------
(* The invariant is inductive: one lemma for each of its parts.            *)

LEMMA ArrivalType ==
  ASSUME IInv, NEW c \in Calls
  PROVE  c \in Call /\ (c.kind = "create" => c.id \notin used)
         /\ (c.kind # "create" => c.id \in used)
<1> USE DEF IInv, TypeOK
<1>1. CASE c \in [kind : {"create"}, id : Ids \ used, body : Bodies]
  BY <1>1 DEF Call
<1>2. ASSUME NEW id \in used,
             c \in [kind : {"put"}, id : {id}, body : Bodies, match : Conditions(id)]
                    \cup [kind : {"patch"}, id : {id}, p : PatchOps, match : Conditions(id)]
                    \cup [kind : {"get", "delete"}, id : {id}, match : Conditions(id)]
      PROVE  c \in Call /\ c.kind # "create" /\ c.id \in used
  <2>1. id \in Ids
    OBVIOUS
  <2>2. Conditions(id) \subseteq [form : {"none", "any", "tag"}, version : Nat]
    BY <2>1 DEF Conditions, NoMatch, AnyTag, TagOf, Resource
  <2> QED BY <1>2, <2>1, <2>2 DEF Call
<1> QED BY <1>1, <1>2 DEF Calls

LEMMA TypeStep ==
  ASSUME IInv, StepKinds
  PROVE  TypeOK'
<1> USE DEF IInv, Goto
<1>a. TypeOK
  OBVIOUS
<1>1. CASE Outside
  <2>1. PICK id \in Ids :
          /\ items[id] # Nil
          /\ \/ \E attrs \in OutsideBodies : Stored(id, attrs)
             \/ items' = [items EXCEPT ![id] = Nil]
    BY <1>1 DEF Outside
  <2>2. items' \in [Ids -> Resource \cup {Nil}] /\ \A i \in Ids : items'[i] # Nil => i \in used
    BY <1>a, <2>1, ServerAssumption DEF TypeOK, Stored, Resource
  <2>3. outside' \in 0..MaxOutside
    BY <1>1, ServerAssumption DEF Outside, TypeOK
  <2> QED BY <1>1, <2>2, <2>3 DEF Outside, TypeOK
<1>2. ASSUME NEW q \in Requests, Arrive(q)
      PROVE  TypeOK'
  <2>1. PICK c \in Calls : /\ call' = [call EXCEPT ![q] = c]
                           /\ used' = used \cup {c.id}
                           /\ Goto(q, FirstStep(c))
    BY <1>2 DEF Arrive
  <2>2. c \in Call /\ c.id \in Ids /\ FirstStep(c) \in Unlocked
    BY ArrivalType, CallTypes DEF FirstStep, Unlocked
  <2> QED BY <1>2, <2>1, <2>2 DEF Arrive, TypeOK
<1>3. ASSUME NEW q \in Requests, Lock(q) \/ Unlock(q) \/ PassesPreflight(q)
      PROVE  TypeOK'
  BY <1>3 DEF Lock, Unlock, PassesPreflight, TypeOK, Locked, Unlocked
<1>4. ASSUME NEW q \in Requests, Returns(q)
      PROVE  TypeOK'
  <2>1. PICK err \in Errors, res \in Resource \cup {Nil} : Answer(q, err, res)
    BY <1>4 DEF Returns
  <2>2. /\ answer' \in [Requests -> Outcome \cup {Nil}]
        /\ pc' \in [Requests -> Locked \cup Unlocked]
    BY <2>1 DEF TypeOK, Answer, Outcome, Locked, Unlocked
  <2>3. call[q] \in Call /\ call[q].id \in Ids /\ call[q].id \in used
    BY <1>4, CallTypes DEF Returns, Working, HandlersOnCourse, TypeOK
  <2>4. items' \in [Ids -> Resource \cup {Nil}] /\ \A i \in Ids : items'[i] # Nil => i \in used
    <3>1. CASE items' = items \/ Removes(q)
      BY <2>3, <3>1 DEF Removes, TypeOK
    <3>2. CASE Overwrites(q)
      BY <2>3, <3>2 DEF Overwrites, Stored, TypeOK, Resource
    <3>3. CASE Creates(q)
      <4>1. call[q].body \in Content
        BY <2>3, <3>3, CallTypes DEF Creates, HandlersOnCourse, KindAt
      <4> QED BY <2>3, <3>3, <4>1 DEF Creates, TypeOK, Resource
    <3> QED BY <1>4, <3>1, <3>2, <3>3 DEF Returns
  <2> QED BY <1>4, <2>2, <2>4 DEF Returns, TypeOK
<1>5. ASSUME NEW q \in Requests, ReadsOn(q)
      PROVE  TypeOK'
  <2>1. call[q] \in Call /\ items[call[q].id] \in Resource \cup {Nil}
    BY <1>5, CallTypes DEF ReadsOn, HandlersOnCourse, TypeOK
  <2> QED BY <1>5, <2>1 DEF ReadsOn, TypeOK, Locked
<1>6. ASSUME NEW q \in Requests, Retries(q)
      PROVE  TypeOK'
  <2>1. attempt[q] + 1 \in 0..(PatchRetries - 1)
    BY <1>6, ServerAssumption DEF Retries, TriesAgain, TypeOK
  <2> QED BY <1>6, <2>1 DEF Retries, TypeOK, Locked
<1> QED BY <1>1, <1>2, <1>3, <1>4, <1>5, <1>6 DEF StepKinds, StepOf

(* Only Lock and Unlock move a lock, and a handler that returns still has  *)
(* to unlock exactly when it holds one.                                    *)
LEMMA LockStep ==
  ASSUME IInv, StepKinds
  PROVE  LocksHeld'
<1> USE DEF IInv, Goto, StripeFor
<1>a. /\ pc \in [Requests -> Locked \cup Unlocked] /\ holder \in [Stripes -> Requests \cup {Nil}]
      /\ call \in [Requests -> Call \cup {Nil}] /\ Nil \notin Requests
      /\ Locked \cap Unlocked = {}
      /\ \A q \in Requests : pc[q] # "idle" => call[q] # Nil /\ StripeFor(q) \in Stripes
  BY ServerAssumption, CallTypes DEF TypeOK, HandlersOnCourse, Locked, Unlocked
<1>1. CASE Outside
  BY <1>1 DEF Outside, LocksHeld
<1>2. ASSUME NEW q \in Requests, Arrive(q)
      PROVE  LocksHeld'
  <2>1. PICK c \in Calls : call' = [call EXCEPT ![q] = c] /\ Goto(q, FirstStep(c))
    BY <1>2 DEF Arrive
  <2>2. FirstStep(c) \in Unlocked /\ pc[q] \in Unlocked
    BY <1>2, ArrivalType, CallTypes DEF FirstStep, Unlocked, Arrive
  <2> QED BY <1>2, <1>a, <2>1, <2>2 DEF Arrive, LocksHeld
<1>3. ASSUME NEW q \in Requests, Lock(q)
      PROVE  LocksHeld'
  <2>1. pc'[q] \in Locked /\ pc[q] \in Unlocked /\ holder'[StripeFor(q)] = q
    BY <1>3, <1>a DEF Lock, Locked, Unlocked
  <2> QED BY <1>3, <1>a, <2>1 DEF Lock, LocksHeld
<1>4. ASSUME NEW q \in Requests, Unlock(q)
      PROVE  LocksHeld'
  <2>1. pc'[q] \in Unlocked /\ pc[q] \in Locked
    BY <1>4, <1>a DEF Unlock, Locked, Unlocked
  <2> QED BY <1>4, <1>a, <2>1 DEF Unlock, LocksHeld
<1>5. ASSUME NEW q \in Requests, Returns(q)
      PROVE  LocksHeld'
  <2>1. pc' = [pc EXCEPT ![q] = IF Holds(q) THEN "unlock" ELSE "done"]
    BY <1>5 DEF Returns, Answer
  <2>2. Holds(q) <=> pc[q] \in Locked
    BY <1>a, <1>5 DEF Holds, LocksHeld, Returns, Working
  <2> QED BY <1>5, <1>a, <2>1, <2>2 DEF Returns, LocksHeld, Locked, Unlocked
<1>6. ASSUME NEW q \in Requests, ReadsOn(q) \/ Retries(q) \/ PassesPreflight(q)
      PROVE  LocksHeld'
  BY <1>6, <1>a DEF ReadsOn, Retries, PassesPreflight, LocksHeld, Locked, Unlocked
<1> QED BY <1>1, <1>2, <1>3, <1>4, <1>5, <1>6 DEF StepKinds, StepOf

(* Handlers follow the course of their kind of request; a lost swap is     *)
(* tried again only where somebody bypasses the locks.                     *)
LEMMA CourseStep ==
  ASSUME IInv, StepKinds
  PROVE  HandlersOnCourse'
<1> USE DEF IInv, Goto
<1>a. /\ pc \in [Requests -> Locked \cup Unlocked] /\ call \in [Requests -> Call \cup {Nil}]
      /\ answer \in [Requests -> Outcome \cup {Nil}] /\ mode \in Flags
      /\ attempt \in [Requests -> Nat]
      /\ Nil \notin Call /\ Nil \notin Outcome
  BY ServerAssumption DEF TypeOK
<1> DEFINE Course(q) ==
      /\ pc[q] = "idle" <=> call[q] = Nil
      /\ answer[q] # Nil <=> pc[q] \in {"unlock", "done"}
      /\ call[q] # Nil => call[q].id \in used /\ call[q].kind \in KindAt(pc[q])
      /\ pc[q] \in {"preflight", "patch"} => mode.native
      /\ pc[q] \in {"lock", "read", "replace"} /\ call[q].kind = "patch" => ~mode.native
      /\ attempt[q] > 0 => /\ call[q] # Nil /\ call[q].kind = "patch"
                           /\ mode.versioned /\ mode.outside
<1>b. \A q \in Requests : Course(q)
  BY DEF HandlersOnCourse
<1>s. SUFFICES ASSUME NEW k \in Requests PROVE Course(k)'
  BY DEF HandlersOnCourse
<1>1. CASE Outside
  BY <1>1, <1>b DEF Outside
<1>2. ASSUME NEW q \in Requests, Arrive(q)
      PROVE  Course(k)'
  <2>1. PICK c \in Calls : /\ call' = [call EXCEPT ![q] = c]
                           /\ used' = used \cup {c.id}
                           /\ Goto(q, FirstStep(c))
    BY <1>2 DEF Arrive
  <2>2. /\ c \in Call /\ c.kind \in KindAt(FirstStep(c))
        /\ FirstStep(c) \notin {"idle", "unlock", "done"}
        /\ FirstStep(c) \in {"preflight", "patch"} => mode.native
        /\ FirstStep(c) \in {"lock", "read", "replace"} /\ c.kind = "patch" => ~mode.native
    BY ArrivalType, CallTypes DEF FirstStep, KindAt
  <2>3. CASE k = q
    BY <1>2, <1>a, <1>b, <2>1, <2>2, <2>3 DEF Arrive
  <2>4. CASE k # q
    BY <1>2, <1>a, <1>b, <2>1, <2>4 DEF Arrive
  <2> QED BY <2>3, <2>4
<1>3. ASSUME NEW q \in Requests, Lock(q)
      PROVE  Course(k)'
  <2>1. call[q].kind \in {"put", "patch", "delete"}
    BY <1>3, <1>b DEF Lock, KindAt
  <2> QED BY <1>3, <1>a, <1>b, <2>1 DEF Lock, KindAt
<1>4. ASSUME NEW q \in Requests, Unlock(q)
      PROVE  Course(k)'
  BY <1>4, <1>a, <1>b, CallTypes DEF Unlock, KindAt
<1>5. ASSUME NEW q \in Requests, Returns(q)
      PROVE  Course(k)'
  <2>1. PICK err \in Errors, res \in Resource \cup {Nil} : Answer(q, err, res)
    BY <1>5 DEF Returns
  <2>2. /\ answer' = [answer EXCEPT ![q] = [err |-> err, res |-> res]]
        /\ [err |-> err, res |-> res] # Nil
    BY <1>a, <2>1 DEF Answer, Outcome
  <2>3. pc' = [pc EXCEPT ![q] = "unlock"] \/ pc' = [pc EXCEPT ![q] = "done"]
    BY <2>1 DEF Answer
  <2>4. call[q] # Nil /\ call[q] \in Call
    BY <1>5, <1>a, <1>b DEF Returns, Working
  <2>5. CASE k = q
    BY <1>5, <1>a, <1>b, <2>2, <2>3, <2>4, <2>5, CallTypes DEF Returns, KindAt
  <2>6. CASE k # q
    BY <1>5, <1>a, <1>b, <2>2, <2>3, <2>6 DEF Returns
  <2> QED BY <2>5, <2>6
<1>6. ASSUME NEW q \in Requests, ReadsOn(q)
      PROVE  Course(k)'
  <2>1. call[q].kind \in {"put", "patch", "delete"}
    BY <1>6, <1>b DEF ReadsOn, KindAt
  <2> QED BY <1>6, <1>a, <1>b, <2>1 DEF ReadsOn, KindAt
<1>7. ASSUME NEW q \in Requests, Retries(q)
      PROVE  Course(k)'
  <2>1. call[q].kind = "patch" /\ mode.versioned /\ mode.outside
    <3>1. CopyUsable(q) /\ items[call[q].id] # snap[q]
      BY <1>7 DEF CopiesUsable, Retries, SwapRefused
    <3> QED BY <1>7, <1>b, <3>1 DEF CopyUsable, LocksBypassed, Retries, TriesAgain, SwapRefused
  <2> QED BY <1>7, <1>a, <1>b, <2>1 DEF Retries, KindAt
<1>8. ASSUME NEW q \in Requests, PassesPreflight(q)
      PROVE  Course(k)'
  BY <1>8, <1>a, <1>b DEF PassesPreflight, KindAt
<1> QED BY <1>1, <1>2, <1>3, <1>4, <1>5, <1>6, <1>7, <1>8 DEF StepKinds, StepOf

(* Only its own create gives an id its resource.                           *)
LEMMA FreshStep ==
  ASSUME IInv, StepKinds
  PROVE  CreatesFresh'
<1> USE DEF IInv, Goto
<1>a. /\ pc \in [Requests -> Locked \cup Unlocked] /\ call \in [Requests -> Call \cup {Nil}]
      /\ items \in [Ids -> Resource \cup {Nil}] /\ Nil \notin Call
      /\ \A id \in Ids : items[id] # Nil => id \in used
      /\ \A q \in Requests : pc[q] # "idle" => call[q] # Nil
      /\ \A q \in Requests : call[q] # Nil => /\ call[q].id \in used /\ call[q] \in Call
                                             /\ call[q].id \in Ids
                                             /\ call[q].kind \in KindAt(pc[q])
  BY ServerAssumption, CallTypes DEF TypeOK, HandlersOnCourse
<1> DEFINE Fresh(q, p) ==
      pc[q] = "create" =>
        /\ items[call[q].id] = Nil
        /\ p # q /\ call[p] # Nil /\ call[p].id = call[q].id =>
              call[p].kind # "create" /\ ~HasRead(p)
<1>b. \A q, p \in Requests : Fresh(q, p)
  BY DEF CreatesFresh
<1>s. SUFFICES ASSUME NEW k \in Requests, NEW p \in Requests PROVE Fresh(k, p)'
  BY DEF CreatesFresh, HasRead
<1>1. CASE Outside
  <2>1. \A id \in Ids : items[id] = Nil => items'[id] = Nil
    BY <1>1, <1>a DEF Outside, Stored
  <2> QED BY <1>1, <1>a, <1>b, <2>1 DEF Outside, HasRead
<1>2. ASSUME NEW q \in Requests, Arrive(q)
      PROVE  Fresh(k, p)'
  <2>1. PICK c \in Calls : /\ call' = [call EXCEPT ![q] = c]
                           /\ used' = used \cup {c.id}
                           /\ Goto(q, FirstStep(c))
    BY <1>2 DEF Arrive
  <2>2. /\ c \in Call /\ c.id \in Ids
        /\ c.kind = "create" => c.id \notin used
        /\ FirstStep(c) = "create" => c.kind = "create"
        /\ c.kind # "create" => c.id \in used
        /\ FirstStep(c) \notin {"replace", "delete"}
    BY ArrivalType, CallTypes DEF FirstStep
  <2>3. CASE k = q
    BY <1>2, <1>a, <1>b, <2>1, <2>2, <2>3 DEF Arrive, HasRead
  <2>4. CASE k # q /\ p = q
    BY <1>2, <1>a, <1>b, <2>1, <2>2, <2>4 DEF Arrive, HasRead
  <2>5. CASE k # q /\ p # q
    BY <1>2, <1>a, <1>b, <2>1, <2>5 DEF Arrive, HasRead
  <2> QED BY <2>3, <2>4, <2>5
<1>3. ASSUME NEW q \in Requests, Lock(q) \/ Unlock(q) \/ PassesPreflight(q) \/ Retries(q)
      PROVE  Fresh(k, p)'
  <2>1. /\ pc'[q] \notin {"create", "replace"} /\ call' = call /\ items' = items
        /\ pc'[q] = "delete" => call[q].match.form = "none"
        /\ \A x \in Requests \ {q} : pc'[x] = pc[x]
    BY <1>3, <1>a DEF Lock, Unlock, PassesPreflight, Retries, NoMatch
  <2> QED BY <1>a, <1>b, <2>1 DEF HasRead
<1>4. ASSUME NEW q \in Requests, Returns(q)
      PROVE  Fresh(k, p)'
  <2>1. /\ pc'[q] \in {"unlock", "done"} /\ call' = call
        /\ \A x \in Requests \ {q} : pc'[x] = pc[x]
    BY <1>4, <1>a DEF Returns, Answer
  <2>2. \A id \in Ids : items[id] = Nil /\ items'[id] # Nil => pc[q] = "create" /\ id = call[q].id
    <3>1. call[q].id \in Ids
      BY <1>4, <1>a DEF Returns, Working
    <3>2. CASE items' = items \/ Removes(q) \/ Overwrites(q)
      BY <1>a, <3>1, <3>2 DEF Removes, Overwrites, Stored
    <3>3. CASE Creates(q)
      BY <1>a, <3>1, <3>3 DEF Creates
    <3> QED BY <1>4, <3>2, <3>3 DEF Returns
  <2>3. pc[q] = "create" => call[q].kind = "create"
    BY <1>4, <1>a DEF KindAt, Returns, Working
  <2> QED BY <1>a, <1>b, <2>1, <2>2, <2>3 DEF HasRead
<1>5. ASSUME NEW q \in Requests, ReadsOn(q)
      PROVE  Fresh(k, p)'
  <2>1. /\ pc'[q] \notin {"create"} /\ call' = call /\ items' = items
        /\ items[call[q].id] # Nil
        /\ \A x \in Requests \ {q} : pc'[x] = pc[x]
    BY <1>5, <1>a DEF ReadsOn, Failed
  <2> QED BY <1>a, <1>b, <2>1 DEF HasRead
<1> QED BY <1>1, <1>2, <1>3, <1>4, <1>5 DEF StepKinds, StepOf

(* Of the handlers, only one that runs a native PATCH can touch a resource *)
(* another has read and is about to write.                                 *)
LEMMA OthersWrites ==
  ASSUME IInv, NEW q \in Requests, Returns(q), NEW k \in Requests \ {q}, HasRead(k)
  PROVE  LET id == call[k].id
         IN  \/ items'[id] = items[id]
             \/ mode.native /\ items'[id] = Nil
             \/ /\ mode.native /\ items[id] # Nil
                /\ items'[id].version = items[id].version + 1
<1> USE DEF IInv
<1> DEFINE id == call[k].id
<1>1. /\ call[k] # Nil /\ id \in Ids /\ call[q].id \in Ids
      /\ items \in [Ids -> Resource \cup {Nil}]
      /\ pc[k] \in Locked
  BY CallTypes DEF TypeOK, HandlersOnCourse, HasRead, Locked, Returns, Working, KindAt
<1>2. CASE items' = items
  BY <1>2
<1>3. CASE Creates(q)
  <2>1. call[k].id # call[q].id
    BY <1>1, <1>3 DEF Creates, CreatesFresh
  <2> QED BY <1>1, <1>3, <2>1 DEF Creates
<1>4. ASSUME ~mode.native, pc[q] \in {"replace", "delete", "patch"}
      PROVE  id # call[q].id
  <2>1. pc[q] \in Locked
    BY <1>4 DEF HandlersOnCourse, Locked
  <2> QED BY <1>1, <2>1 DEF LocksHeld, StripeFor
<1>5. CASE Overwrites(q)
  <2>1. PICK attrs \in Content : Stored(call[q].id, attrs)
    BY <1>5 DEF Overwrites
  <2> QED BY <1>1, <1>4, <1>5, <2>1 DEF Overwrites, Stored
<1>6. CASE Removes(q)
  BY <1>1, <1>4, <1>6 DEF Removes
<1> QED BY <1>2, <1>3, <1>5, <1>6 DEF Returns

(* The copy a handler read stays usable: only a writer that bypasses the   *)
(* locks can touch the resource while the handler is under way, and every  *)
(* write gives it a new version.                                           *)
LEMMA CopiesStep ==
  ASSUME IInv, StepKinds
  PROVE  CopiesUsable'
<1> USE DEF IInv, Goto
<1>a. /\ pc \in [Requests -> Locked \cup Unlocked] /\ call \in [Requests -> Call \cup {Nil}]
      /\ items \in [Ids -> Resource \cup {Nil}] /\ Nil \notin Call
      /\ snap \in [Requests -> Resource \cup {Nil}] /\ attempt \in [Requests -> Nat]
      /\ Nil \notin Resource
      /\ \A r \in Resource : r.version \in Nat
      /\ \A q \in Requests : pc[q] # "idle" => call[q] \in Call /\ call[q].id \in Ids
  BY ServerAssumption, RulesAssumption, CallTypes DEF TypeOK, HandlersOnCourse, Resource
<1> DEFINE Usable(k) ==
      /\ pc[k] = "replace" => CopyUsable(k)
      /\ pc[k] = "delete" /\ ~LocksBypassed /\ items[call[k].id] # Nil
            => Matches(call[k].match, items[call[k].id])
<1>b. \A q \in Requests : Usable(q)
  BY DEF CopiesUsable
<1>s. SUFFICES ASSUME NEW k \in Requests PROVE Usable(k)'
  BY DEF CopiesUsable
<1>1. CASE Outside
  <2>1. PICK id \in Ids :
          /\ items[id] # Nil
          /\ \/ \E attrs \in OutsideBodies : Stored(id, attrs)
             \/ items' = [items EXCEPT ![id] = Nil]
    BY <1>1 DEF Outside
  <2>2. \A i \in Ids : \/ items'[i] = items[i] \/ items'[i] = Nil
                       \/ items[i] # Nil /\ items'[i].version = items[i].version + 1
    BY <1>a, <2>1 DEF Stored
  <2>3. LocksBypassed /\ LocksBypassed'
    BY <1>1 DEF Outside, LocksBypassed
  <2>4. ASSUME pc[k] = "replace"
        PROVE  CopyUsable(k)'
    <3>1. CopyUsable(k) /\ call[k].id \in Ids /\ snap[k] \in Resource
      BY <1>a, <1>b, <2>4 DEF CopyUsable
    <3> QED BY <1>1, <1>a, <2>2, <2>3, <3>1 DEF Outside, CopyUsable
  <2> QED BY <1>1, <2>3, <2>4 DEF Outside
<1>2. ASSUME NEW q \in Requests,
             Arrive(q) \/ Lock(q) \/ Unlock(q) \/ PassesPreflight(q) \/ Retries(q)
      PROVE  Usable(k)'
  <2>1. /\ items' = items /\ snap' = snap /\ mode' = mode
        /\ \A x \in Requests \ {q} : /\ pc'[x] = pc[x] /\ call'[x] = call[x]
                                    /\ attempt'[x] = attempt[x]
    BY <1>2, <1>a DEF Arrive, Lock, Unlock, PassesPreflight, Retries
  <2>2. pc'[q] # "replace" /\ (pc'[q] = "delete" => call'[q].match.form = "none")
    BY <1>2, <1>a DEF Arrive, FirstStep, Lock, Unlock, PassesPreflight, Retries, NoMatch
  <2>3. CASE k = q
    BY <2>2, <2>3 DEF Matches
  <2>4. CASE k # q
    BY <1>b, <2>1, <2>4 DEF CopyUsable, LocksBypassed
  <2> QED BY <2>3, <2>4
<1>3. ASSUME NEW q \in Requests, Returns(q)
      PROVE  Usable(k)'
  <2>1. /\ pc'[q] \in {"unlock", "done"} /\ UNCHANGED <<mode, call, snap, attempt>>
        /\ \A x \in Requests \ {q} : pc'[x] = pc[x]
    BY <1>3, <1>a DEF Returns, Answer
  <2>2. CASE k = q
    BY <2>1, <2>2
  <2>3. ASSUME k # q, pc[k] = "replace"
        PROVE  CopyUsable(k)'
    <3>1. /\ CopyUsable(k) /\ call[k].id \in Ids /\ snap[k] \in Resource
      BY <1>a, <1>b, <2>3 DEF CopyUsable
    <3>2. \/ items'[call[k].id] = items[call[k].id]
          \/ mode.native /\ items'[call[k].id] = Nil
          \/ /\ mode.native /\ items[call[k].id] # Nil
             /\ items'[call[k].id].version = items[call[k].id].version + 1
      BY <1>3, <2>3, OthersWrites DEF HasRead
    <3> QED BY <1>a, <2>1, <3>1, <3>2 DEF CopyUsable, LocksBypassed
  <2>4. ASSUME k # q, pc[k] = "delete", ~LocksBypassed, items'[call[k].id] # Nil
        PROVE  Matches(call[k].match, items'[call[k].id])
    <3>1. CASE call[k].match.form # "tag"
      BY <3>1 DEF Matches
    <3>2. CASE call[k].match.form = "tag"
      <4>1. items'[call[k].id] = items[call[k].id]
        BY <1>3, <2>4, <3>2, OthersWrites DEF HasRead, LocksBypassed
      <4> QED BY <1>b, <2>4, <4>1
    <3> QED BY <3>1, <3>2
  <2> QED BY <2>1, <2>2, <2>3, <2>4 DEF LocksBypassed
<1>4. ASSUME NEW q \in Requests, ReadsOn(q)
      PROVE  Usable(k)'
  <2> DEFINE c == call[q]
             r == items[c.id]
  <2>1. /\ c \in Call /\ c.id \in Ids /\ c.kind \in {"put", "patch", "delete"}
        /\ pc' = [pc EXCEPT ![q] = IF c.kind = "delete" THEN "delete" ELSE "replace"]
        /\ snap' = [snap EXCEPT ![q] = r]
        /\ UNCHANGED <<mode, items, call, attempt>>
    BY <1>4, <1>a DEF ReadsOn, HandlersOnCourse, KindAt
  <2>2. r # Nil /\ (attempt[q] = 0 => Matches(c.match, r))
    BY <1>4 DEF ReadsOn, Failed
  <2>3. /\ attempt[q] > 0 => LocksBypassed /\ c.kind = "patch"
        /\ attempt[q] = 0 \/ attempt[q] > 0
    BY <1>a DEF HandlersOnCourse, LocksBypassed
  <2>4. CASE k = q /\ c.kind = "delete"
    BY <1>a, <2>1, <2>2, <2>3, <2>4 DEF LocksBypassed
  <2>5. CASE k = q /\ c.kind \in {"put", "patch"}
    <3>1. /\ c.kind = "put" => PutError(c.body, r.attrs, mode.strict) = "none"
          /\ c.kind = "patch" => /\ PatchError(c.p, r.attrs, mode.strict) = "none"
                                 /\ Patched(c.p, r.attrs) # r.attrs
      BY <1>4, <2>2, <2>5 DEF ReadsOn, Failed, NothingToDo
    <3>2. r \in Resource /\ pc'[q] = "replace" /\ snap'[q] = r
      BY <1>a, <2>1, <2>2, <2>5
    <3>3. CopyUsable(q)'
      BY <1>a, <2>1, <2>2, <2>3, <3>1, <3>2 DEF CopyUsable, LocksBypassed
    <3> QED BY <2>5, <3>2, <3>3
  <2>6. CASE k # q
    <3>1. pc'[k] = pc[k] /\ snap'[k] = snap[k]
      BY <1>a, <2>1, <2>6
    <3> QED BY <1>b, <2>1, <3>1 DEF CopyUsable, LocksBypassed
  <2> QED BY <2>1, <2>4, <2>5, <2>6
<1> QED BY <1>1, <1>2, <1>3, <1>4 DEF StepKinds, StepOf

LEMMA InitIInv == Init => IInv
<1> SUFFICES ASSUME Init PROVE IInv
  OBVIOUS
<1> USE ServerAssumption DEF Init
<1>1. TypeOK
  BY DEF TypeOK, Unlocked
<1>2. LocksHeld
  BY DEF LocksHeld, Locked
<1>3. HandlersOnCourse /\ CreatesFresh /\ CopiesUsable
  BY DEF HandlersOnCourse, CreatesFresh, CopiesUsable
<1> QED BY <1>1, <1>2, <1>3 DEF IInv

LEMMA NextIInv == IInv /\ [Next]_vars => IInv'
<1> SUFFICES ASSUME IInv, [Next]_vars PROVE IInv'
  OBVIOUS
<1>1. CASE StepKinds
  BY <1>1, TypeStep, LockStep, CourseStep, FreshStep, CopiesStep DEF IInv
<1>2. CASE UNCHANGED vars
  BY <1>2 DEF vars, IInv, TypeOK, LocksHeld, HandlersOnCourse, CreatesFresh, CopiesUsable,
              StripeFor, HasRead, CopyUsable, LocksBypassed
<1> QED BY <1>1, <1>2, NextKinds

LEMMA InvariantHolds == Spec => []IInv
<1> QED BY InitIInv, NextIInv, PTL DEF Spec

(* Every variable keeps its type, whatever is interleaved.                 *)
THEOREM TypeCorrect == Spec => []TypeOK
<1>1. IInv => TypeOK
  BY DEF IInv
<1> QED BY <1>1, InvariantHolds, PTL

-----------------------------------------------------------------------------
(* Stale copies.                                                           *)

LEMMA SwapInv == IInv => SwapsWhatItRead
  BY DEF IInv, CopiesUsable, CopyUsable, SwapsWhatItRead, Serializable, SwapRefused, LocksBypassed

(* In every mode in which requests are promised to be atomic, the copy a   *)
(* PUT or PATCH computed its write from (store.Get in replaceLocked and    *)
(* patchFallback) is still what is stored when store.Replace succeeds.     *)
THEOREM SwapIsCurrent == Spec => []SwapsWhatItRead
<1> QED BY SwapInv, InvariantHolds, PTL

-----------------------------------------------------------------------------
(* Validity and ownership of what is stored.                               *)

LEMMA WrittenIsValid ==
  ASSUME IInv, NEW q \in Requests, pc[q] = "replace"
  PROVE  Valid(Written(q), mode.strict)
<1>1. CopyUsable(q) /\ call[q].kind \in {"put", "patch"}
  BY DEF IInv, CopiesUsable, HandlersOnCourse, KindAt
<1> QED BY <1>1 DEF CopyUsable, Written, PutError, PatchError

LEMMA StoredValidStep ==
  ASSUME IInv, StepKinds, StoredAreValid
  PROVE  StoredAreValid'
<1> USE DEF StoredAreValid, AllValid
<1>a. /\ items \in [Ids -> Resource \cup {Nil}] /\ mode \in Flags
      /\ \A q \in Requests : pc[q] \in Working => call[q].id \in Ids
  BY ServerAssumption, CallTypes DEF IInv, TypeOK, HandlersOnCourse, Working
<1>1. CASE Outside
  <2>1. \A attrs \in OutsideBodies : Valid(attrs, mode.strict)
    BY <1>a, ServerAssumption DEF Valid, Flags
  <2> QED BY <1>1, <1>a, <2>1 DEF Outside, Stored
<1>2. ASSUME NEW q \in Requests, Returns(q), ~mode.native
      PROVE  AllValid'
  <2>1. CASE items' = items
    BY <1>2, <2>1 DEF Returns
  <2>2. CASE Overwrites(q)
    <3>1. pc[q] = "replace"
      BY <1>2, <2>2 DEF Overwrites, IInv, HandlersOnCourse
    <3>2. Stored(call[q].id, Written(q)) /\ Valid(Written(q), mode.strict)
      BY <2>2, <3>1, WrittenIsValid DEF Overwrites
    <3> QED BY <1>2, <1>a, <3>2 DEF Returns, Stored
  <2>3. CASE Removes(q)
    BY <1>2, <1>a, <2>3 DEF Returns, Removes
  <2>4. CASE Creates(q)
    BY <1>2, <1>a, <2>4 DEF Returns, Creates
  <2> QED BY <1>2, <2>1, <2>2, <2>3, <2>4 DEF Returns
<1>3. ASSUME NEW q \in Requests,
             \/ Arrive(q) \/ Lock(q) \/ Unlock(q)
             \/ ReadsOn(q) \/ Retries(q) \/ PassesPreflight(q)
      PROVE  StoredAreValid'
  BY <1>3 DEF Arrive, Lock, Unlock, ReadsOn, Retries, PassesPreflight
<1>4. ASSUME NEW q \in Requests, Returns(q) PROVE mode' = mode
  BY <1>4 DEF Returns
<1> QED BY <1>1, <1>2, <1>3, <1>4 DEF StepKinds, StepOf

(* Whatever requests are interleaved, the handlers of a server whose store *)
(* has no native PATCH persist only what validateResource accepts.         *)
THEOREM StoredValid == Spec => []StoredAreValid
<1>1. Init => StoredAreValid
  <2> SUFFICES ASSUME Init PROVE AllValid
    BY DEF StoredAreValid
  <2>1. mode \in Flags
    BY ServerAssumption DEF Init
  <2> QED BY <2>1, ServerAssumption DEF Init, AllValid, Valid, Flags
<1>2. IInv /\ [Next]_vars /\ StoredAreValid => StoredAreValid'
  <2>1. UNCHANGED vars /\ StoredAreValid => StoredAreValid'
    BY DEF vars, StoredAreValid, AllValid
  <2> QED BY <2>1, NextKinds, StoredValidStep
<1> QED BY <1>1, <1>2, InvariantHolds, PTL DEF Spec

(* An accepted PUT or PATCH leaves what the server owns as it was.         *)
LEMMA MergeKeeps ==
  ASSUME NEW body \in Content, NEW cur \in Content, NEW strict,
         PutError(body, cur, strict) = "none",
         NEW a \in ReadOnly \cup Immutable, a \in ReadOnly \/ cur[a] # {}
  PROVE  Merge(body, cur)[a] = cur[a]
<1>1. a \in Attrs /\ ~MergeRefused(body, cur)
  BY RulesAssumption DEF PutError
<1> QED BY <1>1 DEF Merge, MergeRefused

LEMMA PatchKeeps ==
  ASSUME NEW p \in PatchOps, NEW cur \in Content, ApplyError(p, cur) = "none",
         NEW a \in ReadOnly \cup Immutable, a \in ReadOnly \/ cur[a] # {}
  PROVE  Patched(p, cur)[a] = cur[a]
<1>1. /\ a \in Attrs /\ p.attr \in Attrs /\ p.op \in PatchOp(Values)
      /\ ~PatchRefused(p, cur)
  BY RulesAssumption, ServerAssumption DEF ApplyError
<1>2. CASE p.attr = a
  <2>1. p.op.kind \in {"add", "set"} /\ ~Changes(cur[a], p.op)
    BY <1>1, <1>2 DEF PatchRefused
  <2> QED BY <1>1, <1>2, <2>1 DEF Patched, Changes, Content
<1>3. CASE p.attr # a
  BY <1>1, <1>3 DEF Patched, Content
<1> QED BY <1>2, <1>3

LEMMA ProtectedStep ==
  ASSUME IInv, StepKinds, Serializable, outside' = outside,
         NEW id \in Ids, items[id] # Nil, items'[id] # Nil
  PROVE  OwnedByServer(items[id], items'[id])
<1>a. /\ items \in [Ids -> Resource \cup {Nil}] /\ outside \in Nat
      /\ snap \in [Requests -> Resource \cup {Nil}]
      /\ \A r \in Resource : r.attrs \in Content
      /\ \A q \in Requests : pc[q] \in Working => call[q] \in Call /\ call[q].id \in Ids
  BY ServerAssumption, CallTypes DEF IInv, TypeOK, HandlersOnCourse, Working, Resource
<1>1. items'[id] = items[id] => OwnedByServer(items[id], items'[id])
  BY DEF OwnedByServer
<1>2. ASSUME NEW q \in Requests, Overwrites(q), id = call[q].id
      PROVE  OwnedByServer(items[id], items'[id])
  <2>1. PICK attrs \in Content :
          /\ Stored(id, attrs)
          /\ pc[q] = "replace" => attrs = Written(q) /\ ~SwapRefused(id, snap[q])
          /\ pc[q] = "patch" => /\ attrs = Patched(call[q].p, items[id].attrs)
                                /\ ApplyError(call[q].p, items[id].attrs) = "none"
    BY <1>2 DEF Overwrites
  <2>2. items'[id].attrs = attrs /\ items[id].attrs \in Content
    BY <1>a, <2>1 DEF Stored
  <2>3. CASE pc[q] = "patch"
    <3>1. call[q].p \in PatchOps
      BY <1>a, <2>3, CallTypes DEF IInv, HandlersOnCourse, KindAt, Working
    <3> QED BY <2>1, <2>2, <2>3, <3>1, PatchKeeps DEF OwnedByServer
  <2>4. CASE pc[q] = "replace"
    <3>1. items[id] = snap[q]
      BY <1>2, <2>1, <2>4, SwapInv DEF SwapsWhatItRead
    <3>2. CopyUsable(q) /\ call[q] \in Call /\ call[q].kind \in {"put", "patch"}
      BY <1>a, <2>4 DEF IInv, CopiesUsable, HandlersOnCourse, KindAt, Working
    <3>3. CASE call[q].kind = "put"
      BY <2>1, <2>2, <2>4, <3>1, <3>2, <3>3, CallTypes, MergeKeeps
         DEF CopyUsable, Written, OwnedByServer
    <3>4. CASE call[q].kind = "patch"
      <4>1. ApplyError(call[q].p, snap[q].attrs) = "none"
        BY <3>2, <3>4 DEF CopyUsable, PatchError
      <4> QED BY <2>1, <2>2, <2>4, <3>1, <3>2, <3>4, <4>1, CallTypes, PatchKeeps
              DEF Written, OwnedByServer
    <3> QED BY <3>2, <3>3, <3>4
  <2> QED BY <1>2, <2>3, <2>4 DEF Overwrites
<1>3. ASSUME NEW q \in Requests, Returns(q)
      PROVE  items'[id] = items[id] \/ (Overwrites(q) /\ id = call[q].id)
  <2>1. call[q].id \in Ids
    BY <1>3, <1>a DEF Returns
  <2>2. Creates(q) => items[call[q].id] = Nil
    BY DEF Creates, IInv, CreatesFresh
  <2> QED BY <1>3, <1>a, <2>1, <2>2 DEF Returns, Overwrites, Removes, Creates, Stored
<1>4. ASSUME NEW q \in Requests,
             \/ Arrive(q) \/ Lock(q) \/ Unlock(q)
             \/ ReadsOn(q) \/ Retries(q) \/ PassesPreflight(q)
      PROVE  items'[id] = items[id]
  BY <1>4 DEF Arrive, Lock, Unlock, ReadsOn, Retries, PassesPreflight
<1>5. ~Outside
  BY <1>a DEF Outside
<1> QED BY <1>1, <1>2, <1>3, <1>4, <1>5 DEF StepKinds, StepOf

(* No PUT or PATCH rewrites a readOnly attribute or an assigned immutable  *)
(* one (mergePut, checkMutable), not even from a copy read before it was   *)
(* set.                                                                    *)
THEOREM ProtectedAreKept == Spec => ProtectedKept
<1>1. IInv /\ [Next]_vars =>
        [Serializable /\ outside' = outside =>
           \A id \in Ids : items[id] # Nil /\ items'[id] # Nil
                             => OwnedByServer(items[id], items'[id])]_vars
  BY NextKinds, ProtectedStep
<1> QED BY <1>1, InvariantHolds, PTL DEF Spec, ProtectedKept

-----------------------------------------------------------------------------
(* ScimServer implements AtomicServer: the step that settles a request's   *)
(* answer is the instant at which the request takes effect.                *)

Maps == Atomic!Next \/ UNCHANGED Atomic!atomicVars

(* What every step that answers q must be in the abstract server.          *)
Effect(q) ==
  LET c == call[q]
      r == items[c.id]
  IN  \/ Atomic!Refuse(q, "internal")
      \/ c.kind = "create" /\ Atomic!Create(q, c)
      \/ c.kind # "create" /\ r = Nil /\ Atomic!Refuse(q, "notFound")
      \/ c.kind # "create" /\ r # Nil /\ c.kind = "get" /\ Atomic!Get(q, c)
      \/ c.kind # "create" /\ r # Nil /\ c.kind = "put" /\ Atomic!Put(q, c)
      \/ c.kind # "create" /\ r # Nil /\ c.kind = "patch" /\ Atomic!Patch(q, c)
      \/ c.kind # "create" /\ r # Nil /\ c.kind = "delete" /\ Atomic!Delete(q, c)

(* The instance reads the rules with the same constants.                   *)
LEMMA SameRules ==
  /\ \A match, r : Atomic!Matches(match, r) <=> Matches(match, r)
  /\ \A id, attrs : Atomic!Clash(items, id, attrs) <=> Clash(items, id, attrs)
  /\ \A attrs, strict : Atomic!Valid(attrs, strict) <=> Valid(attrs, strict)
  /\ \A body, cur : Atomic!Merge(body, cur) = Merge(body, cur)
  /\ \A p, cur : Atomic!Patched(p, cur) = Patched(p, cur)
  /\ \A p, cur : Atomic!ApplyError(p, cur) = ApplyError(p, cur)
  /\ \A body, cur, strict : Atomic!PutError(body, cur, strict) = PutError(body, cur, strict)
  /\ \A p, cur, strict : Atomic!PatchError(p, cur, strict) = PatchError(p, cur, strict)
<1> USE DEF Applied, Atomic!Applied, Changes, Atomic!Changes, NoTarget, Atomic!NoTarget
<1>1. /\ \A match, r : Atomic!Matches(match, r) <=> Matches(match, r)
      /\ \A id, attrs : Atomic!Clash(items, id, attrs) <=> Clash(items, id, attrs)
      /\ \A attrs, strict : Atomic!Valid(attrs, strict) <=> Valid(attrs, strict)
  BY DEF Matches, Atomic!Matches, Clash, Atomic!Clash, Valid, Atomic!Valid
<1>2. \A body, cur : Atomic!Merge(body, cur) = Merge(body, cur)
  BY DEF Merge, Atomic!Merge
<1>3. \A elems, op : Atomic!Applied(elems, op) = Applied(elems, op)
  OBVIOUS
<1>4. \A p, cur : Atomic!Patched(p, cur) = Patched(p, cur)
  BY <1>3 DEF Patched, Atomic!Patched
<1>5. \A p, cur : Atomic!PatchRefused(p, cur) <=> PatchRefused(p, cur)
  BY <1>3 DEF PatchRefused, Atomic!PatchRefused
<1>6. \A p, cur : Atomic!ApplyError(p, cur) = ApplyError(p, cur)
  BY <1>5 DEF ApplyError, Atomic!ApplyError
<1>7. \A body, cur : Atomic!MergeRefused(body, cur) <=> MergeRefused(body, cur)
  BY DEF MergeRefused, Atomic!MergeRefused
<1>8. \A body, cur, strict : Atomic!PutError(body, cur, strict) = PutError(body, cur, strict)
  BY <1>1, <1>2, <1>7 DEF PutError, Atomic!PutError
<1>9. \A p, cur, strict : Atomic!PatchError(p, cur, strict) = PatchError(p, cur, strict)
  BY <1>1, <1>4, <1>6 DEF PatchError, Atomic!PatchError
<1> QED BY <1>1, <1>2, <1>4, <1>6, <1>8, <1>9

LEMMA EffectMaps ==
  ASSUME IInv, NEW q \in Requests, pc[q] \in Working,
         UNCHANGED <<mode, used, holder, call, outside>>, Effect(q)
  PROVE  Maps
<1>1. call[q] # Nil /\ answer[q] = Nil
  BY DEF IInv, HandlersOnCourse, Working
<1>2. Atomic!Serve(q)
  BY <1>1 DEF Effect, Atomic!Serve
<1> QED BY <1>2 DEF Maps, Atomic!Next

LEMMA RefusalMaps ==
  ASSUME NEW q \in Requests, NEW err, Refuse(q, err)
  PROVE  Atomic!Refuse(q, err)
  BY DEF Refuse, Answer, Atomic!Refuse, Atomic!Reply

LEMMA CreateMaps ==
  ASSUME IInv, NEW q \in Requests, CreateStep(q)
  PROVE  Maps
<1>1. /\ pc[q] = "create" /\ call[q].kind = "create" /\ items[call[q].id] = Nil
      /\ UNCHANGED <<mode, used, holder, call, outside>>
  BY DEF CreateStep, At, IInv, HandlersOnCourse, KindAt, CreatesFresh
<1>2. Effect(q)
  BY <1>1, RefusalMaps, SameRules DEF CreateStep, Effect, Atomic!Create, Answer, Atomic!Reply
<1> QED BY <1>1, <1>2, EffectMaps DEF Working

LEMMA GetMaps ==
  ASSUME IInv, NEW q \in Requests, GetStep(q)
  PROVE  Maps
<1>1. /\ pc[q] = "get" /\ call[q].kind = "get"
      /\ UNCHANGED <<mode, used, holder, call, outside>>
  BY DEF GetStep, At, IInv, HandlersOnCourse, KindAt
<1>2. Effect(q)
  BY <1>1, RefusalMaps, SameRules DEF GetStep, Effect, Atomic!Get, Answer, Atomic!Reply
<1> QED BY <1>1, <1>2, EffectMaps DEF Working

LEMMA ReadMaps ==
  ASSUME IInv, NEW q \in Requests, ReadStep(q)
  PROVE  Maps
<1> DEFINE c == call[q]
           r == items[c.id]
<1>1. /\ pc[q] = "read" /\ c.kind \in {"put", "patch", "delete"}
      /\ UNCHANGED <<mode, used, holder, call, outside>>
      /\ c.kind = "patch" => ~mode.native
      /\ attempt[q] = 0 \/ (c.kind = "patch" /\ mode.outside)
  BY DEF ReadStep, At, IInv, TypeOK, HandlersOnCourse, KindAt
<1>2. CASE Refuse(q, "internal")
  BY <1>1, <1>2, RefusalMaps, EffectMaps DEF Effect, Working
<1>3. CASE Failed(q, r) # "none" /\ Refuse(q, Failed(q, r))
  <2>1. Atomic!Refuse(q, Failed(q, r))
    BY <1>3, RefusalMaps
  <2>2. CASE r = Nil
    <3>1. Failed(q, r) = "notFound"
      BY <2>2 DEF Failed
    <3> QED BY <1>1, <2>1, <2>2, <3>1, EffectMaps DEF Effect, Working
  <2>3. CASE r # Nil /\ attempt[q] = 0 /\ ~Matches(c.match, r)
    <3>1. Failed(q, r) = "preconditionFailed"
      BY <2>3 DEF Failed
    <3>2. Effect(q)
      BY <1>1, <2>1, <2>3, <3>1, SameRules DEF Effect, Atomic!Put, Atomic!Patch, Atomic!Delete
    <3> QED BY <1>1, <3>2, EffectMaps DEF Working
  <2>4. CASE r # Nil /\ ~(attempt[q] = 0 /\ ~Matches(c.match, r))
    <3>1. Matches(c.match, r) \/ (c.kind = "patch" /\ mode.outside)
      BY <1>1, <2>4
    <3>2. Failed(q, r) = CASE c.kind = "put"    -> PutError(c.body, r.attrs, mode.strict)
                           [] c.kind = "patch"  -> PatchError(c.p, r.attrs, mode.strict)
                           [] c.kind = "delete" -> "none"
      BY <2>4 DEF Failed
    <3>3. CASE c.kind = "put"
      <4>1. Failed(q, r) = PutError(c.body, r.attrs, mode.strict)
        BY <3>2, <3>3
      <4>2. Atomic!Put(q, c)
        BY <1>3, <2>1, <3>1, <3>3, <4>1, SameRules DEF Atomic!Put
      <4> QED BY <1>1, <2>4, <3>3, <4>2, EffectMaps DEF Effect, Working
    <3>4. CASE c.kind = "patch"
      <4>1. Failed(q, r) = PatchError(c.p, r.attrs, mode.strict)
        BY <3>2, <3>4
      <4>2. Atomic!Patch(q, c)
        BY <1>3, <2>1, <3>1, <3>4, <4>1, SameRules DEF Atomic!Patch, Atomic!LocksBypassed
      <4> QED BY <1>1, <2>4, <3>4, <4>2, EffectMaps DEF Effect, Working
    <3>5. c.kind # "delete"
      BY <1>3, <3>2
    <3> QED BY <1>1, <3>3, <3>4, <3>5
  <2> QED BY <2>2, <2>3, <2>4
<1>4. CASE /\ Failed(q, r) = "none" /\ NothingToDo(q, r)
           /\ Answer(q, "none", r) /\ UNCHANGED <<items, snap, attempt>>
  <2>1. /\ c.kind = "patch" /\ r # Nil /\ PatchError(c.p, r.attrs, mode.strict) = "none"
        /\ Patched(c.p, r.attrs) = r.attrs
        /\ Matches(c.match, r) \/ mode.outside
    BY <1>1, <1>4 DEF Failed, NothingToDo
  <2>2. Atomic!Patch(q, c)
    BY <1>1, <1>4, <2>1, SameRules DEF Atomic!Patch, Atomic!LocksBypassed, Answer, Atomic!Reply
  <2> QED BY <1>1, <2>1, <2>2, EffectMaps DEF Effect, Working
<1>5. CASE UNCHANGED <<items, answer>>
  BY <1>1, <1>5 DEF Maps, Atomic!atomicVars
<1> QED BY <1>2, <1>3, <1>4, <1>5 DEF ReadStep

LEMMA ReplaceMaps ==
  ASSUME IInv, Serializable, NEW q \in Requests, ReplaceStep(q)
  PROVE  Maps
<1> DEFINE c == call[q]
           r == items[c.id]
<1>1. /\ pc[q] = "replace" /\ c.kind \in {"put", "patch"}
      /\ UNCHANGED <<mode, used, holder, call, outside>>
      /\ c.kind = "patch" => ~mode.native
      /\ attempt[q] > 0 => mode.outside
      /\ CopyUsable(q)
  BY DEF ReplaceStep, At, IInv, HandlersOnCourse, KindAt, CopiesUsable
<1>2. CASE Refuse(q, "internal")
  BY <1>1, <1>2, RefusalMaps, EffectMaps DEF Effect, Working
<1>3. CASE r = Nil /\ Refuse(q, "notFound")
  BY <1>1, <1>3, RefusalMaps, EffectMaps DEF Effect, Working
<1>4. CASE UNCHANGED <<items, answer>>
  BY <1>1, <1>4 DEF Maps, Atomic!atomicVars
<1>5. CASE r # Nil /\ SwapRefused(c.id, snap[q]) /\ Refuse(q, "preconditionFailed")
  <2>1. mode.versioned /\ LocksBypassed
    BY <1>1, <1>5 DEF SwapRefused, CopyUsable
  <2>2. Atomic!Refuse(q, "preconditionFailed")
    BY <1>5, RefusalMaps
  <2>3. Effect(q)
    BY <1>1, <1>5, <2>1, <2>2, SameRules
       DEF Effect, LocksBypassed, Atomic!Put, Atomic!Patch, Atomic!LocksBypassed
  <2> QED BY <1>1, <2>3, EffectMaps DEF Working
<1>6. CASE /\ r # Nil /\ ~SwapRefused(c.id, snap[q])
           /\ \/ Clash(items, c.id, Written(q)) /\ Refuse(q, "uniqueness")
              \/ /\ ~Clash(items, c.id, Written(q)) /\ Stored(c.id, Written(q))
                 /\ Answer(q, "none", items'[c.id])
  <2>1. r = snap[q]
    BY <1>1, <1>6, SwapInv DEF SwapsWhatItRead
  <2>2. \/ Clash(items, c.id, Written(q)) /\ Atomic!Refuse(q, "uniqueness")
        \/ Atomic!Commit(q, c.id, Written(q))
    BY <1>6, RefusalMaps, SameRules DEF Stored, Answer, Atomic!Commit, Atomic!Reply
  <2>3. CASE c.kind = "put"
    <3>1. Written(q) = Merge(c.body, r.attrs) /\ Matches(c.match, r)
      BY <1>1, <2>1, <2>3 DEF Written, CopyUsable
    <3>2. Atomic!Put(q, c)
      BY <1>1, <2>1, <2>2, <2>3, <3>1, SameRules DEF CopyUsable, Atomic!Put
    <3> QED BY <1>1, <1>6, <2>3, <3>2, EffectMaps DEF Effect, Working
  <2>4. CASE c.kind = "patch"
    <3>1. /\ Written(q) = Patched(c.p, r.attrs)
          /\ Matches(c.match, r) \/ mode.outside
          /\ PatchError(c.p, r.attrs, mode.strict) = "none" /\ Written(q) # r.attrs
      BY <1>1, <2>1, <2>4 DEF Written, CopyUsable
    <3>2. Atomic!Patch(q, c)
      BY <1>1, <2>2, <2>4, <3>1, SameRules DEF Atomic!Patch, Atomic!LocksBypassed
    <3> QED BY <1>1, <1>6, <2>4, <3>2, EffectMaps DEF Effect, Working
  <2> QED BY <1>1, <2>3, <2>4
<1> QED BY <1>2, <1>3, <1>4, <1>5, <1>6 DEF ReplaceStep

LEMMA DeleteMaps ==
  ASSUME IInv, NEW q \in Requests, DeleteStep(q)
  PROVE  Maps
<1>1. /\ pc[q] = "delete" /\ call[q].kind = "delete"
      /\ UNCHANGED <<mode, used, holder, call, outside>>
      /\ ~LocksBypassed /\ items[call[q].id] # Nil
            => Matches(call[q].match, items[call[q].id])
  BY DEF DeleteStep, At, IInv, HandlersOnCourse, KindAt, CopiesUsable
<1>2. Effect(q)
  BY <1>1, RefusalMaps, SameRules
     DEF DeleteStep, Effect, LocksBypassed, Atomic!Delete, Atomic!LocksBypassed, Answer, Atomic!Reply
<1> QED BY <1>1, <1>2, EffectMaps DEF Working

LEMMA PreflightMaps ==
  ASSUME IInv, NEW q \in Requests, PreflightStep(q)
  PROVE  Maps
<1>1. /\ pc[q] = "preflight" /\ call[q].kind = "patch"
      /\ UNCHANGED <<mode, used, holder, call, outside>>
      /\ mode.strict \in BOOLEAN
  BY ServerAssumption DEF PreflightStep, At, IInv, TypeOK, HandlersOnCourse, KindAt, Flags
<1>2. CASE UNCHANGED <<items, answer>>
  BY <1>1, <1>2 DEF Maps, Atomic!atomicVars
<1>3. CASE ~UNCHANGED <<items, answer>>
  <2>1. Effect(q)
    BY <1>1, <1>3, RefusalMaps, SameRules DEF PreflightStep, Effect, Atomic!Patch
  <2> QED BY <1>1, <2>1, EffectMaps DEF Working
<1> QED BY <1>2, <1>3

LEMMA PatchMaps ==
  ASSUME IInv, NEW q \in Requests, PatchStep(q)
  PROVE  Maps
<1> DEFINE c == call[q]
           r == items[c.id]
<1>1. /\ pc[q] = "patch" /\ c.kind = "patch" /\ mode.native
      /\ UNCHANGED <<mode, used, holder, call, outside>>
  BY DEF PatchStep, At, IInv, HandlersOnCourse, KindAt
<1>2. ApplyError(c.p, r.attrs) # "none"
        => PatchError(c.p, r.attrs, mode.strict) = ApplyError(c.p, r.attrs)
  BY DEF PatchError
<1>3. CASE Refuse(q, "internal") \/ (r = Nil /\ Refuse(q, "notFound"))
  BY <1>1, <1>3, RefusalMaps, EffectMaps DEF Effect, Working
<1>4. CASE ~(Refuse(q, "internal") \/ (r = Nil /\ Refuse(q, "notFound")))
  <2>1. r # Nil /\ Atomic!Patch(q, c)
    BY <1>1, <1>2, <1>4, RefusalMaps, SameRules
       DEF PatchStep, Stored, Answer, Atomic!Patch, Atomic!LocksBypassed, Atomic!Commit, Atomic!Reply
  <2> QED BY <1>1, <2>1, EffectMaps DEF Effect, Working
<1> QED BY <1>3, <1>4

LEMMA ArrivalMaps ==
  ASSUME IInv, NEW q \in Requests, Arrive(q)
  PROVE  Maps
<1>1. PICK c \in Calls : call' = [call EXCEPT ![q] = c] /\ used' = used \cup {c.id}
  BY DEF Arrive
<1>2. /\ call \in [Requests -> Call \cup {Nil}] /\ call[q] = Nil
      /\ c # Nil /\ (c.kind = "create") = (c.id \notin used)
  BY ArrivalType, ServerAssumption DEF Arrive, IInv, TypeOK, HandlersOnCourse
<1>3. call'[q] = c
  BY <1>1, <1>2
<1>4. Atomic!Arrive(q)
  BY <1>1, <1>2, <1>3 DEF Arrive, Atomic!Arrive
<1> QED BY <1>4 DEF Arrive, Maps, Atomic!Next

LEMMA OutsideMaps ==
  ASSUME IInv, Outside
  PROVE  Maps
<1>1. PICK id \in Ids :
        /\ items[id] # Nil
        /\ \/ \E attrs \in OutsideBodies : Stored(id, attrs)
           \/ items' = [items EXCEPT ![id] = Nil]
  BY DEF Outside
<1>2. /\ items \in [Ids -> Resource \cup {Nil}] /\ id \in used
  BY <1>1 DEF IInv, TypeOK
<1>3. /\ items' = [items EXCEPT ![id] = items'[id]]
      /\ items'[id] # Nil => items'[id].version = items[id].version + 1
  BY <1>1, <1>2 DEF Stored
<1>4. Atomic!Outside
  BY <1>1, <1>2, <1>3 DEF Outside, Atomic!Outside
<1> QED BY <1>4 DEF Outside, Maps, Atomic!Next

LEMMA StepMaps ==
  ASSUME IInv, Serializable, [Next]_vars
  PROVE  [Atomic!Next]_(Atomic!atomicVars)
<1>1. CASE UNCHANGED vars
  BY <1>1 DEF vars, Atomic!atomicVars
<1>2. ASSUME NEW q \in Requests, Lock(q) \/ Unlock(q)
      PROVE  Maps
  BY <1>2 DEF Lock, Unlock, Maps, Atomic!atomicVars
<1> QED BY <1>1, <1>2, ArrivalMaps, OutsideMaps, CreateMaps, GetMaps, ReadMaps, ReplaceMaps,
           DeleteMaps, PreflightMaps, PatchMaps
        DEF Next, Rest, Serve, Maps

(* Requests are linearizable (handleCreate, handleGet, handleReplace,      *)
(* handlePatch, handleDelete): over a store that tracks versions, or that  *)
(* nobody writes around the stripe locks, every request takes effect in    *)
(* one step, as AtomicServer says it should.                               *)
THEOREM AtomicityCorrect ==
  ASSUME \A m \in Modes : m.versioned \/ ~(m.native \/ m.outside)
  PROVE  Spec => RequestsAreAtomic
<1>1. Init => Atomic!Init
  BY DEF Init, Atomic!Init
<1>2. IInv => Serializable
  BY DEF IInv, TypeOK, Serializable
<1>3. IInv /\ [Next]_vars => [Atomic!Next]_(Atomic!atomicVars)
  BY <1>2, StepMaps
<1> QED BY <1>1, <1>3, InvariantHolds, PTL DEF Spec, RequestsAreAtomic, Atomic!Spec

-----------------------------------------------------------------------------
(* A PATCH is refused for contention only after losing patchRetries swaps. *)

(* Each round lost, and the loss of the one under way, is another write    *)
(* from outside.                                                           *)
LossesAreOutsideWrites ==
  \A q \in Requests :
     /\ attempt[q] <= outside
     /\ /\ pc[q] = "replace" /\ call[q].kind = "patch"
        /\ items[call[q].id] \notin {Nil, snap[q]}
        => attempt[q] < outside

LEMMA LossesStep ==
  ASSUME IInv, LossesAreOutsideWrites, StepKinds
  PROVE  LossesAreOutsideWrites'
<1>a. /\ pc \in [Requests -> Locked \cup Unlocked] /\ call \in [Requests -> Call \cup {Nil}]
      /\ items \in [Ids -> Resource \cup {Nil}]
      /\ snap \in [Requests -> Resource \cup {Nil}]
      /\ attempt \in [Requests -> Nat] /\ outside \in Nat
      /\ \A q \in Requests : pc[q] # "idle" => call[q] \in Call /\ call[q].id \in Ids
  BY ServerAssumption, CallTypes DEF IInv, TypeOK, HandlersOnCourse
<1> DEFINE Lost(q) ==
      /\ attempt[q] <= outside
      /\ /\ pc[q] = "replace" /\ call[q].kind = "patch"
         /\ items[call[q].id] \notin {Nil, snap[q]}
         => attempt[q] < outside
<1>b. \A q \in Requests : Lost(q)
  BY DEF LossesAreOutsideWrites
<1>s. SUFFICES ASSUME NEW k \in Requests PROVE Lost(k)'
  BY DEF LossesAreOutsideWrites
<1>1. CASE Outside
  BY <1>1, <1>a, <1>b DEF Outside
<1>2. ASSUME NEW q \in Requests,
             Arrive(q) \/ Lock(q) \/ Unlock(q) \/ PassesPreflight(q)
      PROVE  Lost(k)'
  <2>1. /\ UNCHANGED <<items, snap, attempt, outside>> /\ pc'[q] # "replace"
        /\ \A x \in Requests \ {q} : pc'[x] = pc[x] /\ call'[x] = call[x]
    BY <1>2, <1>a DEF Arrive, FirstStep, Lock, Unlock, PassesPreflight, Goto
  <2> QED BY <1>a, <1>b, <2>1
<1>3. ASSUME NEW q \in Requests, Returns(q)
      PROVE  Lost(k)'
  <2>1. /\ UNCHANGED <<call, snap, attempt, outside>> /\ pc'[q] # "replace"
        /\ \A x \in Requests \ {q} : pc'[x] = pc[x]
    BY <1>3, <1>a DEF Returns, Answer, Goto
  <2>2. ASSUME k # q, pc[k] = "replace", call[k].kind = "patch"
        PROVE  items'[call[k].id] = items[call[k].id]
    <3>1. ~mode.native
      BY <1>a, <2>2 DEF IInv, HandlersOnCourse
    <3> QED BY <1>3, <2>2, <3>1, OthersWrites DEF HasRead
  <2> QED BY <1>a, <1>b, <2>1, <2>2
<1>4. ASSUME NEW q \in Requests, ReadsOn(q)
      PROVE  Lost(k)'
  BY <1>4, <1>a, <1>b DEF ReadsOn, Goto
<1>5. ASSUME NEW q \in Requests, Retries(q)
      PROVE  Lost(k)'
  <2>1. call[q].kind = "patch" /\ items[call[q].id] \notin {Nil, snap[q]}
    BY <1>5 DEF Retries, TriesAgain, SwapRefused
  <2> QED BY <1>5, <1>a, <1>b, <2>1 DEF Retries, Goto
<1> QED BY <1>1, <1>2, <1>3, <1>4, <1>5 DEF StepKinds, StepOf

(* A PATCH with no precondition is refused for contention in one place.    *)
LEMMA GivesUp ==
  ASSUME IInv, [Next]_vars, NEW q \in Requests, call[q] # Nil,
         call[q].kind = "patch", call[q].match = NoMatch,
         answer'[q] # answer[q], answer'[q].err = "preconditionFailed"
  PROVE  /\ pc[q] = "replace" /\ items[call[q].id] \notin {Nil, snap[q]}
         /\ ~TriesAgain(q)
<1> DEFINE c == call[q]
           r == items[c.id]
<1>a. /\ answer \in [Requests -> Outcome \cup {Nil}] /\ Matches(c.match, r)
      /\ \A p, cur, strict : PatchError(p, cur, strict) # "preconditionFailed"
      /\ \A p, cur : ApplyError(p, cur) # "preconditionFailed"
  BY DEF IInv, TypeOK, Matches, NoMatch, PatchError, ApplyError
<1>b. \A err, res : Answer(q, err, res) => answer'[q].err = err
  BY <1>a DEF Answer
<1>1. ASSUME NEW k \in Requests \ {q}
      PROVE  ~(Arrive(k) \/ Serve(k))
  <2>1. ~Arrive(k) /\ ~Lock(k) /\ ~Unlock(k)
    BY DEF Arrive, Lock, Unlock
  <2>2. \A err, res : ~Answer(k, err, res)
    BY <1>a DEF Answer
  <2>3. ~CreateStep(k) /\ ~GetStep(k) /\ ~DeleteStep(k)
    BY <2>2 DEF CreateStep, GetStep, DeleteStep, Refuse
  <2>4. ~ReadStep(k) /\ ~ReplaceStep(k)
    BY <2>2 DEF ReadStep, ReplaceStep, Refuse
  <2>5. ~PreflightStep(k) /\ ~PatchStep(k)
    BY <2>2 DEF PreflightStep, PatchStep, Refuse
  <2> QED BY <2>1, <2>3, <2>4, <2>5 DEF Serve
<1>2. ~Outside /\ ~Rest /\ ~Arrive(q) /\ ~Lock(q) /\ ~Unlock(q) /\ ~UNCHANGED vars
  BY DEF Outside, Rest, vars, Arrive, Lock, Unlock
<1>3. ~CreateStep(q) /\ ~GetStep(q) /\ ~DeleteStep(q)
  BY DEF IInv, HandlersOnCourse, KindAt, CreateStep, GetStep, DeleteStep, At
<1>4. ~ReadStep(q)
  <2>1. Failed(q, r) # "preconditionFailed"
    BY <1>a DEF Failed
  <2> QED BY <1>b, <2>1 DEF ReadStep, Refuse
<1>5. ~PreflightStep(q) /\ ~PatchStep(q)
  BY <1>a, <1>b DEF PreflightStep, PatchStep, Refuse
<1>6. ReplaceStep(q)
  BY <1>1, <1>2, <1>3, <1>4, <1>5 DEF Next, Serve
<1> QED BY <1>b, <1>6 DEF ReplaceStep, Refuse, SwapRefused, At

LEMMA GivesUpLateStep ==
  ASSUME IInv, LossesAreOutsideWrites, PatchGivesUpLate, [Next]_vars
  PROVE  PatchGivesUpLate'
<1> SUFFICES ASSUME NEW q \in Requests,
                    answer'[q] # Nil, answer'[q].err = "preconditionFailed",
                    call'[q].kind = "patch", call'[q].match = NoMatch
             PROVE  outside' >= PatchRetries
  BY DEF PatchGivesUpLate
<1>1. /\ outside \in Nat /\ outside' \in Nat /\ outside' >= outside
      /\ PatchRetries \in Nat /\ attempt[q] \in Nat
  <2>1. outside \in Nat /\ PatchRetries \in Nat /\ attempt[q] \in Nat
    BY ServerAssumption DEF IInv, TypeOK
  <2>2. outside' = outside \/ outside' = outside + 1
    BY DEF Next, Outside, Rest, vars, Arrive, Serve, Lock, Unlock, CreateStep, GetStep, ReadStep,
           ReplaceStep, DeleteStep, PreflightStep, PatchStep, At
  <2> QED BY <2>1, <2>2
<1>2. call'[q] = call[q] /\ call[q] # Nil
  <2>1. answer[q] # Nil => pc[q] # "idle" /\ call[q] # Nil
    BY DEF IInv, HandlersOnCourse
  <2>2. Arrive(q) => answer' = answer /\ pc[q] = "idle" /\ call[q] = Nil
    BY DEF Arrive, IInv, HandlersOnCourse
  <2>3. ~Arrive(q)
    BY <2>1, <2>2
  <2>4. call'[q] = call[q]
    BY <2>3 DEF Next, Outside, Rest, vars, Arrive, Serve, Lock, Unlock, CreateStep, GetStep,
                ReadStep, ReplaceStep, DeleteStep, PreflightStep, PatchStep, At, IInv, TypeOK
  <2>5. call'[q] # Nil
    BY NextIInv DEF IInv, HandlersOnCourse
  <2> QED BY <2>4, <2>5
<1>3. CASE answer'[q] = answer[q]
  BY <1>1, <1>2, <1>3 DEF PatchGivesUpLate
<1>4. CASE answer'[q] # answer[q]
  <2>1. attempt[q] < outside /\ ~TriesAgain(q)
    BY <1>2, <1>4, GivesUp DEF LossesAreOutsideWrites
  <2> QED BY <1>1, <1>2, <2>1 DEF TriesAgain
<1> QED BY <1>3, <1>4

(* A PATCH over a store that compares versions fails for contention only   *)
(* when patchRetries writes from outside came between its reads and its    *)
(* swaps (patchFallback): other requests never make it fail.               *)
THEOREM PatchPersists == Spec => []PatchGivesUpLate
<1>1. Init => LossesAreOutsideWrites /\ PatchGivesUpLate
  BY DEF Init, LossesAreOutsideWrites, PatchGivesUpLate
<1>2. IInv /\ [Next]_vars /\ LossesAreOutsideWrites => LossesAreOutsideWrites'
  <2>1. UNCHANGED vars /\ LossesAreOutsideWrites => LossesAreOutsideWrites'
    BY DEF vars, LossesAreOutsideWrites
  <2> QED BY <2>1, NextKinds, LossesStep
<1> QED BY <1>1, <1>2, GivesUpLateStep, InvariantHolds, PTL DEF Spec

==============================================================================
