--------------------------- MODULE ClientCallsProofs --------------------------
(***************************************************************************)
(* Theorems about ClientCalls, for any calls, schema, contents, retry      *)
(* policy and client options, and any target AtomicServer describes.       *)
(***************************************************************************)
EXTENDS ClientCalls, FiniteSetTheorems, TLAPS

-----------------------------------------------------------------------------
(* The inductive invariant.                                                *)

Attempts == 1..MaxAttempts

Patches == {"patch", "removeMember"}

(* The stages a call of a kind goes through, and what its writes are.      *)
StagesOf(kind) ==
  CASE kind = "create"  -> {"post"}
    [] kind = "replace" -> {"put"}
    [] kind = "get"     -> {"get"}
    [] kind = "delete"  -> {"delete"}
    [] OTHER -> {"patch", "read", "put", "get"}

(* A stage that call c has left behind, having sent requests of it.        *)
Behind(c, w) == at[c] = "returned" \/ (w = "patch" /\ at[c] \in {"read", "put", "get"})

Refused(x) == answer[x] # Nil /\ answer[x].err # "none"

Took1(x) == answer[x] # Nil /\ answer[x].err = "none"

CourseOf(c) ==
  /\ op[c] = Nil <=> at[c] = "idle"
  /\ op[c] # Nil => at[c] \in StagesOf(op[c].kind) \cup {"returned"}
  /\ at[c] \in Writes => call[<<c, at[c], attempt[c]>>] # Nil
  /\ \A w \in Writes, k \in Attempts :
       /\ answer[<<c, w, k>>] # Nil => call[<<c, w, k>>] # Nil
       /\ call[<<c, w, k>>] # Nil =>
            /\ op[c] # Nil /\ w \in StagesOf(op[c].kind)
            /\ (at[c] = w /\ k <= attempt[c]) \/ Behind(c, w)

OnCourse == \A c \in Calls : CourseOf(c)

(* What is sent is what was asked for.                                     *)
SentAsAsked ==
  \A c \in Calls, w \in Writes \ {"put"}, k \in Attempts :
     call[<<c, w, k>>] # Nil => call[<<c, w, k>>] = Request(op[c], <<c, w, k>>, Nil)

(* A copy of the resource that a PUT can still be computed from: its       *)
(* version names that content, and no later one.                           *)
Usable(c, r) ==
  /\ setup.tags /\ items[Group] # Nil =>
       /\ r.version <= items[Group].version
       /\ r.version = items[Group].version => items[Group] = r
  /\ op[c].kind \in Patches => ApplyError(op[c].p, r.attrs) = "none"

PutsFrom(c, r) ==
  /\ copy[c] # Nil => copy[c] = r
  /\ \A k \in Attempts :
       call[<<c, "put", k>>] # Nil => call[<<c, "put", k>>] = Request(op[c], <<c, "put", k>>, r)

(* All the PUTs of a call are of one copy.                                 *)
OneCopy(c) ==
  (\E k \in Attempts : call[<<c, "put", k>>] # Nil) =>
    \E r \in Resource : Usable(c, r) /\ PutsFrom(c, r)

PutsOneCopy == \A c \in Calls : OneCopy(c)

(* Nothing is sent again after it was, or could have been, carried out.    *)
NoneTwice(c, w) ==
  \A k, l \in Attempts :
     k < l /\ call[<<c, w, l>>] # Nil /\ call[<<c, w, k>>] # Nil => Refused(<<c, w, k>>)

NoneAfterPatch(c) ==
  at[c] = "read" \/ (\E l \in Attempts : call[<<c, "put", l>>] # Nil) =>
    \A k \in Attempts : call[<<c, "patch", k>>] # Nil => Refused(<<c, "patch", k>>)

RepeatsRefused ==
  ~setup.replays =>
    \A c \in Calls : NoneTwice(c, "post") /\ NoneTwice(c, "patch") /\ NoneAfterPatch(c)

(* What a write that was carried out leaves behind.                        *)
Spent ==
  \A c \in Calls, k \in Attempts :
     /\ Took1(<<c, "delete", k>>) => items[Group] = Nil
     /\ setup.tags /\ Took1(<<c, "put", k>>) /\ items[Group] # Nil =>
          call[<<c, "put", k>>].match.version < items[Group].version

TookOnce ==
  setup.tags /\ ~setup.replays =>
    \A x, y \in Exchanges : x[1] = y[1] /\ Took1(x) /\ Took1(y) => x = y

(* A PATCH that was carried out, by the target or by the fallback, shows.  *)
Shows(c, res) == res.attrs = Patched(op[c].p, res.attrs)

PatchesShow ==
  \A c \in Calls, w \in {"patch", "put"}, k \in Attempts :
     /\ Took1(<<c, w, k>>) /\ op[c].kind \in Patches
     /\ setup.tags \/ op[c].p.attr \notin Immutable
     => Shows(c, answer[<<c, w, k>>].res)

(* Why a call that changes something may say that it succeeded.            *)
Evidence(c) ==
  \/ \E x \in Took(c) :
        op[c].kind \in Patches /\ (setup.tags \/ op[c].p.attr \notin Immutable) =>
          Shows(c, answer[x].res)
  \/ /\ op[c].kind = "removeMember"
     /\ \E x \in Exchanges : x[1] = c /\ x[2] = "patch" /\ answer[x] # Nil /\ answer[x].err = "noTarget"

Backed(c) ==
  /\ at[c] = "get" /\ op[c].kind # "get" => Evidence(c)
  /\ result[c] = "none" /\ op[c].kind # "get" => Evidence(c)
  /\ op[c] # Nil /\ op[c].kind = "create" /\ ~setup.replays /\ result[c] \in Refusals \cup {"exhausted"} =>
       \A k \in Attempts : call[<<c, "post", k>>] # Nil => Refused(<<c, "post", k>>)

OutcomesBacked == \A c \in Calls : Backed(c)

IInv ==
  /\ TypeOK /\ OnCourse /\ SentAsAsked /\ PutsOneCopy /\ RepeatsRefused
  /\ Spent /\ TookOnce /\ PatchesShow /\ OutcomesBacked

-----------------------------------------------------------------------------
(* The rules of a write.                                                   *)

LEMMA OpFields ==
  ASSUME NEW o \in Op
  PROVE  /\ o # Nil
         /\ o.kind \in {"create", "replace", "patch", "removeMember", "get", "delete"}
         /\ o.kind \in {"create", "replace"} => o.body \in Content
         /\ o.kind \in Patches =>
              o.p \in PatchOps /\ o.p.attr \in Attrs /\ o.p.op \in PatchOp(Values)
  BY CallsAssumption DEF Op, Patches

LEMMA AppliedType ==
  ASSUME NEW elems \in SUBSET Values, NEW o \in PatchOp(Values)
  PROVE  Applied(elems, o) \in SUBSET Values
  BY DEF Applied, PatchOp

LEMMA AppliedTwice ==
  ASSUME NEW elems \in SUBSET Values, NEW o \in PatchOp(Values)
  PROVE  Applied(Applied(elems, o), o) = Applied(elems, o)
<1>1. CASE o.kind = "add"
  BY <1>1 DEF Applied
<1>2. CASE o.kind = "set"
  BY <1>2 DEF Applied
<1>3. CASE o.kind = "clear"
  BY <1>3 DEF Applied
<1>4. CASE o.kind \in {"remove", "strip"}
  BY <1>4 DEF Applied
<1>5. CASE o.kind = "replace"
  BY <1>5 DEF Applied
<1> QED BY <1>1, <1>2, <1>3, <1>4, <1>5 DEF PatchOp

LEMMA PatchedType ==
  ASSUME NEW p, p.attr \in Attrs, p.op \in PatchOp(Values), NEW cur \in Content
  PROVE  Patched(p, cur) \in Content
  BY AppliedType DEF Patched, Content

(* A PATCH of what it left changes nothing.                                *)
LEMMA PatchedTwice ==
  ASSUME NEW p, p.attr \in Attrs, p.op \in PatchOp(Values), NEW cur \in Content,
         NEW new \in Content, new[p.attr] = Patched(p, cur)[p.attr]
  PROVE  new = Patched(p, new)
<1>1. cur[p.attr] \in SUBSET Values /\ new[p.attr] = Applied(cur[p.attr], p.op)
  BY DEF Patched, Content
<1>2. Applied(new[p.attr], p.op) = new[p.attr]
  BY <1>1, AppliedTwice
<1> QED BY <1>2 DEF Patched, Content

LEMMA MergeType ==
  ASSUME NEW body \in Content, NEW cur \in Content
  PROVE  Merge(body, cur) \in Content
  BY DEF Merge, Content

(* Writing the patched copy back over itself is the PATCH.                 *)
LEMMA MergePatched ==
  ASSUME NEW p, p.attr \in Attrs, p.op \in PatchOp(Values), NEW cur \in Content,
         ApplyError(p, cur) = "none"
  PROVE  Merge(Patched(p, cur), cur) = Patched(p, cur)
<1> DEFINE new == Patched(p, cur)
<1>1. new \in Content /\ new[p.attr] = Applied(cur[p.attr], p.op)
      /\ \A a \in Attrs : a # p.attr => new[a] = cur[a]
  BY PatchedType DEF Patched, Content
<1>2. ~PatchRefused(p, cur)
  BY DEF ApplyError
<1>3. p.attr \in Immutable /\ new[p.attr] = {} => cur[p.attr] = {}
  BY <1>1, <1>2 DEF PatchRefused, Changes
<1>4. \A a \in Attrs : Merge(new, cur)[a] = new[a]
  BY <1>1, <1>2, <1>3 DEF Merge, PatchRefused
<1> QED BY <1>1, <1>4, MergeType DEF Content

(* An attribute that keeps no value of its own is written as sent.         *)
LEMMA MergeWrites ==
  ASSUME NEW body \in Content, NEW cur \in Content, NEW a \in Attrs, a \notin ReadOnly \cup Immutable
  PROVE  Merge(body, cur)[a] = body[a]
  BY DEF Merge

(* The target reads the rules with the same constants.                     *)
LEMMA SameRules ==
  /\ \A match, r : Target!Matches(match, r) <=> Matches(match, r)
  /\ \A body, cur : Target!Merge(body, cur) = Merge(body, cur)
  /\ \A p, cur : Target!Patched(p, cur) = Patched(p, cur)
<1>1. \A elems, o : Target!Applied(elems, o) = Applied(elems, o)
  BY DEF Applied, Target!Applied
<1> QED BY <1>1 DEF Matches, Target!Matches, Merge, Target!Merge, Patched, Target!Patched

LEMMA ErrorTypes ==
  /\ \A p, cur : ApplyError(p, cur) \in Errors
  /\ \A body, cur, strict : Target!PutError(body, cur, strict) \in Errors
  /\ \A p, cur, strict : Target!PatchError(p, cur, strict) \in Errors
<1>1. \A p, cur : ApplyError(p, cur) \in Errors
  BY DEF ApplyError, Errors, Refusals
<1>2. \A body, cur, strict : Target!PutError(body, cur, strict) \in Errors
  BY DEF Target!PutError, Errors, Refusals
<1>3. \A p, cur, strict : Target!PatchError(p, cur, strict) \in Errors
  BY DEF Target!PatchError, Target!ApplyError, Errors, Refusals
<1> QED BY <1>1, <1>2, <1>3

-----------------------------------------------------------------------------
(* The kinds of step, for what they do to the calls and to the target.     *)

(* The request of a stage goes out, computed from r.                       *)
Sends(c, stage, k, r) ==
  /\ stage \in Writes /\ k \in Attempts
  /\ call[<<c, stage, k>>] = Nil /\ call'[<<c, stage, k>>] # Nil
  /\ call' = [call EXCEPT ![<<c, stage, k>>] = Request(op'[c], <<c, stage, k>>, r)]
  /\ used' = used \cup {call'[<<c, stage, k>>].id}
  /\ at' = [at EXCEPT ![c] = stage] /\ attempt' = [attempt EXCEPT ![c] = k]
  /\ UNCHANGED <<mode, items, answer, setup, result>>

BeginsWriting(c) ==
  \E o \in Op, stage \in Writes, r \in Resource \cup {Nil} :
     /\ at[c] = "idle" /\ stage \in StagesOf(o.kind)
     /\ stage = "put" <=> o.kind = "replace"
     /\ stage = "put" => r = items[Group] /\ r # Nil
     /\ stage # "put" => r = Nil
     /\ op' = [op EXCEPT ![c] = o] /\ copy' = [copy EXCEPT ![c] = r]
     /\ Sends(c, stage, 1, r)

BeginsReading(c) ==
  \E o \in Op, stage \in Reads :
     /\ at[c] = "idle" /\ stage \in StagesOf(o.kind)
     /\ stage = "get" => o.kind = "get"
     /\ op' = [op EXCEPT ![c] = o] /\ copy' = [copy EXCEPT ![c] = Nil]
     /\ Visit(c, stage)

(* A request is repeated: if that may do its work twice, only when the     *)
(* target declined it.                                                     *)
Resends(c) ==
  /\ at[c] \in Writes
  /\ at[c] \in {"post", "patch"} /\ ~setup.replays => Refused(<<c, at[c], attempt[c]>>)
  /\ Sends(c, at[c], attempt[c] + 1, copy[c])
  /\ UNCHANGED <<op, copy>>

(* After a PATCH: the fallback reads, or an empty answer is filled.        *)
GoesOn(c) ==
  /\ at[c] = "patch"
  /\ \/ Visit(c, "read") /\ Refused(<<c, "patch", attempt[c]>>)
     \/ Visit(c, "get") /\ Evidence(c)
  /\ UNCHANGED <<op, copy>>

PutsBack(c) ==
  /\ at[c] = "read" /\ items[Group] # Nil
  /\ ApplyError(op[c].p, items[Group].attrs) = "none"
  /\ copy' = [copy EXCEPT ![c] = items[Group]]
  /\ Sends(c, "put", 1, items[Group])
  /\ UNCHANGED op

Returns(c) ==
  \E err \in Outcome :
     /\ at[c] \in Writes \cup Reads
     /\ Return(c, err)
     /\ err = "none" /\ op[c].kind # "get" => Evidence(c)
     /\ at[c] = "post" /\ ~setup.replays /\ err \in Refusals \cup {"exhausted"} =>
          Refused(<<c, "post", attempt[c]>>)

(* What the target does for a request it carries out.                      *)
Effect(c, w, k, res) ==
  LET x == <<c, w, k>>
      r == items[Group]
  IN  \/ /\ w = "post" /\ items[x] = Nil
         /\ res = [attrs |-> op[c].body, version |-> 1]
         /\ items' = [items EXCEPT ![x] = res]
      \/ /\ w = "put" /\ r # Nil /\ Matches(call[x].match, r)
         /\ res = [attrs |-> Merge(call[x].body, r.attrs), version |-> r.version + 1]
         /\ items' = [items EXCEPT ![Group] = res]
      \/ /\ w = "patch" /\ r # Nil
         /\ \/ res = r /\ r.attrs = Patched(op[c].p, r.attrs) /\ UNCHANGED items
            \/ /\ res = [attrs |-> Patched(op[c].p, r.attrs), version |-> r.version + 1]
               /\ items' = [items EXCEPT ![Group] = res]
      \/ /\ w = "delete" /\ r # Nil
         /\ res = Nil
         /\ items' = [items EXCEPT ![Group] = Nil]

Answers(c, w, k) ==
  \E err \in Errors, res \in Resource \cup {Nil} :
     /\ call[<<c, w, k>>] # Nil /\ answer[<<c, w, k>>] = Nil
     /\ answer' = [answer EXCEPT ![<<c, w, k>>] = [err |-> err, res |-> res]]
     /\ (err # "none" /\ UNCHANGED items) \/ (err = "none" /\ Effect(c, w, k, res))
     /\ UNCHANGED <<mode, used, call, client>>

ClientStep(c) ==
  BeginsWriting(c) \/ BeginsReading(c) \/ Resends(c) \/ GoesOn(c) \/ PutsBack(c) \/ Returns(c)

StepKinds ==
  \/ \E c \in Calls : ClientStep(c)
  \/ \E c \in Calls, w \in Writes, k \in Attempts : Answers(c, w, k)

LEMMA SendKind ==
  ASSUME NEW c \in Calls, NEW stage \in Writes, NEW k \in Attempts, NEW r,
         op'[c] \in Op, Send(c, stage, k, op'[c], r)
  PROVE  Sends(c, stage, k, r)
  BY DEF Send, Sends, Target!Arrive

LEMMA StageTypes ==
  /\ Writes \cap Reads = {}
  /\ "idle" \notin Writes \cup Reads /\ "returned" \notin Writes \cup Reads
  /\ "read" \in Reads /\ "get" \in Reads /\ "put" \in Writes
  BY DEF Writes, Reads

LEMMA BeginKind ==
  ASSUME IInv, NEW c \in Calls, Begin(c)
  PROVE  BeginsWriting(c) \/ BeginsReading(c)
<1> DEFINE Begun(o, stage) ==
      /\ at[c] = "idle"
      /\ o.kind = "replace" => items[Group] # Nil
      /\ op' = [op EXCEPT ![c] = o]
      /\ copy' = [copy EXCEPT ![c] = IF o.kind = "replace" THEN items[Group] ELSE Nil]
      /\ IF stage \in Reads THEN Visit(c, stage) ELSE Send(c, stage, 1, o, copy'[c])
<1>0. PICK o \in Op : \E stage \in FirstStages(o) : Begun(o, stage)
  BY DEF Begin
<1>1. PICK stage \in FirstStages(o) : Begun(o, stage)
  BY <1>0
<1>2. /\ stage \in StagesOf(o.kind) \cap (Writes \cup Reads)
      /\ stage = "put" <=> o.kind = "replace"
      /\ stage = "get" => o.kind = "get"
      /\ stage \in Reads => o.kind # "replace"
  BY OpFields DEF FirstStages, StagesOf, Writes, Reads, Patches
<1>3. op'[c] = o /\ copy'[c] = (IF o.kind = "replace" THEN items[Group] ELSE Nil)
  BY <1>1 DEF IInv, TypeOK
<1>4. CASE stage \in Reads
  BY <1>1, <1>2, <1>4 DEF BeginsReading
<1>5. CASE stage \notin Reads
  <2>1. copy'[c] \in Resource \cup {Nil}
    BY <1>3, CallsAssumption DEF IInv, TypeOK
  <2>2. stage \in Writes /\ 1 \in Attempts
    BY <1>2, <1>5, CallsAssumption DEF Attempts
  <2>3. Sends(c, stage, 1, copy'[c])
    BY <1>1, <1>3, <1>5, <2>2, SendKind
  <2>4. copy' = [copy EXCEPT ![c] = copy'[c]]
    BY <1>1, <1>3
  <2> QED BY <1>1, <1>2, <1>3, <2>1, <2>2, <2>3, <2>4 DEF BeginsWriting
<1> QED BY <1>4, <1>5

(* What do() ends an attempt with is no answer, or the target's.           *)
LEMMA ReplyFacts ==
  ASSUME IInv, NEW c \in Calls, at[c] \in Writes,
         NEW reply \in Replies(<<c, at[c], attempt[c]>>)
  PROVE  LET x == <<c, at[c], attempt[c]>>
         IN  /\ x \in Exchanges /\ attempt[c] \in Attempts
             /\ op[c] \in Op /\ at[c] \in StagesOf(op[c].kind)
             /\ reply.err \in Errors
             /\ reply.err # "unavailable" => answer[x] # Nil /\ reply = answer[x]
<1> DEFINE x == <<c, at[c], attempt[c]>>
<1>1. x \in Exchanges /\ attempt[c] \in Attempts
  BY DEF Exchanges, Attempts, IInv, TypeOK
<1>2. op[c] \in Op /\ at[c] \in StagesOf(op[c].kind)
  BY DEF IInv, TypeOK, OnCourse, CourseOf, Writes
<1>3. reply = NoReply \/ (answer[x] # Nil /\ reply = answer[x])
  BY DEF Replies
<1>4. NoReply.err = "unavailable" /\ "unavailable" \in Errors
  BY DEF NoReply, Errors
<1>5. answer[x] # Nil => answer[x].err \in Errors
  BY <1>1 DEF IInv, TypeOK
<1> QED BY <1>1, <1>2, <1>3, <1>4, <1>5

(* A success the target reported is evidence of itself.                    *)
LEMMA TookIsEvidence ==
  ASSUME IInv, NEW c \in Calls, NEW w \in Writes, NEW k \in Attempts, Took1(<<c, w, k>>)
  PROVE  Evidence(c)
<1> DEFINE x == <<c, w, k>>
<1>1. x \in Took(c)
  BY DEF Took, Took1, Exchanges, Attempts
<1>2. op[c] # Nil /\ w \in StagesOf(op[c].kind)
  BY DEF IInv, OnCourse, CourseOf, Took1
<1>3. op[c].kind \in Patches => w \in {"patch", "put"}
  BY <1>2 DEF StagesOf, Patches, Writes
<1>4. op[c].kind \in Patches /\ (setup.tags \/ op[c].p.attr \notin Immutable) => Shows(c, answer[x].res)
  BY <1>3 DEF IInv, PatchesShow
<1> QED BY <1>1, <1>4 DEF Evidence

LEMMA NotRepeated ==
  ASSUME NEW stage \in {"post", "patch"}, NEW err, Retryable(stage, err), ~setup.replays
  PROVE  err = "throttled"
  BY DEF Retryable, Idempotent

LEMMA ReceiveKind ==
  ASSUME IInv, NEW c \in Calls, Receive(c)
  PROVE  Resends(c) \/ GoesOn(c) \/ Returns(c)
<1> DEFINE x == <<c, at[c], attempt[c]>>
<1>1. PICK reply \in Replies(x) :
        \/ Retryable(at[c], reply.err) /\ ~Exhausted(c) /\ Retry(c)
        \/ Retryable(at[c], reply.err) /\ Exhausted(c) /\ Return(c, "exhausted")
        \/ ~Retryable(at[c], reply.err) /\ at[c] = "patch" /\ AfterPatch(c, reply)
        \/ ~Retryable(at[c], reply.err) /\ at[c] # "patch" /\ Return(c, reply.err)
  BY DEF Receive
<1>2. /\ at[c] \in Writes /\ x \in Exchanges /\ attempt[c] \in Attempts
      /\ op[c] \in Op /\ at[c] \in StagesOf(op[c].kind)
      /\ reply.err \in Errors
      /\ reply.err # "unavailable" => answer[x] # Nil /\ reply = answer[x]
  BY ReplyFacts DEF Receive
<1>3. at[c] \in {"post", "patch"} /\ ~setup.replays /\ Retryable(at[c], reply.err) => Refused(x)
  BY <1>2, NotRepeated DEF Refused
<1>4. reply.err = "none" => Evidence(c)
  BY <1>2, TookIsEvidence DEF Took1
<1>5. CASE Retryable(at[c], reply.err) /\ ~Exhausted(c) /\ Retry(c)
  <2>1. attempt[c] + 1 \in Attempts
    BY <1>2, <1>5, CallsAssumption DEF Exhausted, Attempts
  <2>2. op' = op /\ copy' = copy
    BY <1>5 DEF Retry
  <2>3. Sends(c, at[c], attempt[c] + 1, copy[c])
    BY <1>2, <1>5, <2>1, <2>2, SendKind DEF Retry
  <2> QED BY <1>2, <1>3, <1>5, <2>2, <2>3 DEF Resends
<1>6. CASE Retryable(at[c], reply.err) /\ Exhausted(c) /\ Return(c, "exhausted")
  BY <1>2, <1>3, <1>6 DEF Returns, Outcome
<1>7. ASSUME Return(c, reply.err), ~Retryable(at[c], reply.err) PROVE Returns(c)
  <2>1. reply.err \in Outcome
    BY <1>2 DEF Outcome
  <2>2. at[c] = "post" /\ ~setup.replays /\ reply.err \in Refusals \cup {"exhausted"} => Refused(x)
    BY <1>2 DEF Refused, Refusals, Errors
  <2> QED BY <1>2, <1>4, <1>7, <2>1, <2>2 DEF Returns
<1>8. CASE ~Retryable(at[c], reply.err) /\ at[c] = "patch" /\ AfterPatch(c, reply)
  <2>1. CASE FallsBack(reply) /\ Visit(c, "read") /\ UNCHANGED <<op, copy>>
    BY <1>2, <1>8, <2>1 DEF FallsBack, GoesOn, Refused
  <2>2. CASE /\ Tolerated(c, reply) \/ (reply.err = "none" /\ setup.bare)
             /\ Visit(c, "get") /\ UNCHANGED <<op, copy>>
    <3>1. Tolerated(c, reply) => Evidence(c)
      BY <1>2, <1>8 DEF Tolerated, Evidence
    <3> QED BY <1>4, <1>8, <2>2, <3>1 DEF GoesOn
  <2> QED BY <1>7, <1>8, <2>1, <2>2 DEF AfterPatch
<1> QED BY <1>1, <1>5, <1>6, <1>7, <1>8

LEMMA FetchKind ==
  ASSUME IInv, NEW c \in Calls, Fetch(c)
  PROVE  Returns(c) \/ PutsBack(c)
<1>1. at[c] \in Reads /\ op[c] \in Op /\ at[c] \in StagesOf(op[c].kind)
  <2>1. at[c] \in Reads /\ at[c] # "idle" /\ at[c] # "returned"
    BY DEF Fetch, Reads
  <2>2. op[c] # Nil /\ at[c] \in StagesOf(op[c].kind)
    BY <2>1 DEF IInv, OnCourse, CourseOf
  <2> QED BY <2>1, <2>2 DEF IInv, TypeOK
<1>2. CASE Return(c, "exhausted") \/ Return(c, "notFound")
  BY <1>1, <1>2 DEF Returns, Outcome, Errors, Refusals, Reads
<1>3. CASE at[c] = "get" /\ Return(c, "none")
  BY <1>1, <1>3 DEF Returns, Outcome, Errors, IInv, OutcomesBacked, Backed
<1>4. CASE items[Group] # Nil /\ at[c] = "read" /\ PutBack(c, items[Group])
  <2> DEFINE err == ApplyError(op[c].p, items[Group].attrs)
  <2>1. CASE err # "none" /\ Return(c, err)
    BY <1>4, <2>1, ErrorTypes, StageTypes DEF Returns, Outcome
  <2>2. CASE /\ err = "none"
             /\ copy' = [copy EXCEPT ![c] = items[Group]]
             /\ Send(c, "put", 1, op[c], items[Group])
             /\ UNCHANGED op
    <3>1. Sends(c, "put", 1, items[Group])
      BY <1>1, <2>2, SendKind, StageTypes, CallsAssumption DEF Attempts
    <3> QED BY <1>4, <2>2, <3>1 DEF PutsBack
  <2> QED BY <1>4, <2>1, <2>2 DEF PutBack
<1> QED BY <1>2, <1>3, <1>4 DEF Fetch

LEMMA AbortKind ==
  ASSUME NEW c \in Calls, Abort(c)
  PROVE  Returns(c)
  BY DEF Abort, Returns, Outcome, Refusals

-----------------------------------------------------------------------------
(* What the target makes of a request is an effect, or none.               *)

LEMMA CallShape ==
  ASSUME IInv, NEW c \in Calls, NEW w \in Writes, NEW k \in Attempts, call[<<c, w, k>>] # Nil
  PROVE  /\ op[c] \in Op /\ w \in StagesOf(op[c].kind)
         /\ w = "post" => /\ call[<<c, w, k>>] = [kind |-> "create", id |-> <<c, w, k>>, body |-> op[c].body]
                          /\ op[c].body \in Content
         /\ w = "put" => \E r \in Resource :
              /\ Usable(c, r) /\ PutsFrom(c, r)
              /\ call[<<c, w, k>>] =
                   [kind |-> "put", id |-> Group, body |-> NewBody(op[c], r), match |-> IfMatch(r)]
              /\ NewBody(op[c], r) \in Content
         /\ w = "patch" => /\ call[<<c, w, k>>] = [kind |-> "patch", id |-> Group, p |-> op[c].p, match |-> NoMatch]
                           /\ op[c].kind \in Patches
         /\ w = "delete" => call[<<c, w, k>>] = [kind |-> "delete", id |-> Group, match |-> NoMatch]
<1>1. op[c] \in Op /\ w \in StagesOf(op[c].kind)
  BY DEF IInv, TypeOK, OnCourse, CourseOf
<1>2. w # "put" => call[<<c, w, k>>] = Request(op[c], <<c, w, k>>, Nil)
  BY DEF IInv, SentAsAsked
<1>3. CASE w = "post"
  BY <1>1, <1>2, <1>3, OpFields DEF Request, StagesOf
<1>4. CASE w = "put"
  <2>1. PICK r \in Resource : Usable(c, r) /\ PutsFrom(c, r)
    BY <1>4 DEF IInv, PutsOneCopy, OneCopy
  <2>2. call[<<c, w, k>>] = [kind |-> "put", id |-> Group, body |-> NewBody(op[c], r), match |-> IfMatch(r)]
    BY <1>4, <2>1 DEF PutsFrom, Request
  <2>3. op[c].kind = "replace" \/ op[c].kind \in Patches
    BY <1>1, <1>4, OpFields DEF StagesOf, Patches
  <2>4. NewBody(op[c], r) \in Content
    BY <1>1, <2>3, OpFields, PatchedType DEF NewBody, Resource, Patches
  <2> QED BY <1>1, <1>4, <2>1, <2>2, <2>4
<1>5. CASE w = "patch"
  BY <1>1, <1>2, <1>5, OpFields DEF Request, StagesOf, Patches
<1>6. CASE w = "delete"
  BY <1>1, <1>2, <1>6 DEF Request
<1> QED BY <1>1, <1>3, <1>4, <1>5, <1>6 DEF Writes

(* Resources written keep their type.                                      *)
LEMMA WrittenType ==
  ASSUME NEW attrs \in Content, NEW v \in Nat
  PROVE  [attrs |-> attrs, version |-> v] \in Resource
  BY DEF Resource

LEMMA ServeKind ==
  ASSUME IInv, NEW c \in Calls, NEW w \in Writes, NEW k \in Attempts, Serve(<<c, w, k>>)
  PROVE  Answers(c, w, k)
<1> DEFINE x == <<c, w, k>>
           q == call[x]
           r == items[Group]
<1>1. /\ q # Nil /\ answer[x] = Nil /\ x \in Exchanges
      /\ answer'[x].err # "internal"
      /\ UNCHANGED <<mode, used, call, client>>
      /\ DOMAIN answer = Exchanges
  BY DEF Serve, Pending, Target!Serve, Exchanges, Attempts, IInv, TypeOK
<1>2. \/ Target!Refuse(x, "internal")
      \/ q.kind = "create" /\ Target!Create(x, q)
      \/ q.kind # "create" /\ items[q.id] = Nil /\ Target!Refuse(x, "notFound")
      \/ /\ q.kind # "create" /\ items[q.id] # Nil
         /\ \/ q.kind = "get" /\ Target!Get(x, q)
            \/ q.kind = "put" /\ Target!Put(x, q)
            \/ q.kind = "patch" /\ Target!Patch(x, q)
            \/ q.kind = "delete" /\ Target!Delete(x, q)
  BY DEF Serve, Target!Serve
<1>3. ASSUME NEW err \in Errors \cup {"internal"}, err # "none", Target!Refuse(x, err)
      PROVE  Answers(c, w, k)
  <2>1. err \in Errors
    BY <1>1, <1>3 DEF Target!Refuse, Target!Reply
  <2> QED BY <1>1, <1>3, <2>1 DEF Target!Refuse, Target!Reply, Answers
<1>4. ASSUME NEW res \in Resource \cup {Nil}, Target!Reply(x, "none", res), Effect(c, w, k, res)
      PROVE  Answers(c, w, k)
  <2>1. "none" \in Errors
    BY DEF Errors
  <2>2. answer' = [answer EXCEPT ![x] = [err |-> "none", res |-> res]]
    BY <1>4 DEF Target!Reply
  <2> QED BY <1>1, <1>4, <2>1, <2>2 DEF Answers
<1>5. r # Nil => r \in Resource /\ r.attrs \in Content /\ r.version + 1 \in Nat
  BY CallsAssumption DEF IInv, TypeOK, Resource
<1>6. {"internal", "uniqueness", "invalidValue", "notFound", "preconditionFailed"} \subseteq Errors \cup {"internal"}
  BY DEF Errors, Refusals
<1>7. CASE w = "post"
  <2>1. q = [kind |-> "create", id |-> x, body |-> op[c].body] /\ op[c].body \in Content
    BY <1>1, <1>7, CallShape
  <2>2. CASE Target!Create(x, q)
    <3>1. CASE Target!Refuse(x, "invalidValue") \/ Target!Refuse(x, "uniqueness")
      BY <1>3, <1>6, <3>1
    <3>2. CASE /\ items[q.id] = Nil
               /\ items' = [items EXCEPT ![q.id] = [attrs |-> q.body, version |-> 1]]
               /\ Target!Reply(x, "none", items'[q.id])
      <4>1. x \in Ids
        BY <1>1, <1>7, CallsAssumption
      <4>2. items'[x] = [attrs |-> op[c].body, version |-> 1] /\ items'[x] \in Resource
        BY <2>1, <3>2, <4>1, WrittenType DEF IInv, TypeOK
      <4>3. Effect(c, w, k, items'[x])
        <5>1. q.id = x /\ q.body = op[c].body
          BY <2>1
        <5> QED BY <1>7, <3>2, <4>2, <5>1 DEF Effect
      <4> QED BY <1>4, <2>1, <3>2, <4>2, <4>3
    <3> QED BY <2>2, <3>1, <3>2 DEF Target!Create
  <2> QED BY <1>2, <1>3, <1>6, <2>1, <2>2
<1>8. CASE w = "put"
  <2>1. q.kind = "put" /\ q.id = Group /\ q.body \in Content
    <3>1. PICK s \in Resource :
            /\ q = [kind |-> "put", id |-> Group, body |-> NewBody(op[c], s), match |-> IfMatch(s)]
            /\ NewBody(op[c], s) \in Content
      BY <1>1, <1>8, CallShape
    <3> QED BY <3>1
  <2>2. CASE r # Nil /\ Target!Put(x, q)
    <3> DEFINE new == Target!Merge(q.body, r.attrs)
    <3>1. new = Merge(q.body, r.attrs) /\ new \in Content
      BY <1>5, <2>1, <2>2, SameRules, MergeType
    <3>2. CASE \E err \in Errors : err # "none" /\ Target!Refuse(x, err)
      BY <1>3, <3>2
    <3>3. CASE Matches(q.match, r) /\ Target!Commit(x, Group, new)
      <4>1. items' = [items EXCEPT ![Group] = [attrs |-> new, version |-> r.version + 1]]
            /\ Target!Reply(x, "none", items'[Group])
        BY <3>3 DEF Target!Commit
      <4>2. items'[Group] = [attrs |-> new, version |-> r.version + 1] /\ items'[Group] \in Resource
        BY <1>5, <2>2, <3>1, <4>1, WrittenType, CallsAssumption DEF IInv, TypeOK
      <4>3. Effect(c, w, k, items'[Group])
        BY <1>8, <2>2, <3>1, <3>3, <4>1, <4>2 DEF Effect
      <4> QED BY <1>4, <4>1, <4>2, <4>3
    <3> QED BY <1>6, <2>1, <2>2, <3>2, <3>3, SameRules, ErrorTypes DEF Target!Put
  <2> QED BY <1>2, <1>3, <1>6, <2>1, <2>2
<1>9. CASE w = "patch"
  <2>1. /\ q.kind = "patch" /\ q.id = Group /\ q.p = op[c].p
        /\ q.p.attr \in Attrs /\ q.p.op \in PatchOp(Values)
    <3>1. /\ q = [kind |-> "patch", id |-> Group, p |-> op[c].p, match |-> NoMatch]
          /\ op[c] \in Op /\ op[c].kind \in Patches
      BY <1>1, <1>9, CallShape
    <3> QED BY <3>1, OpFields
  <2>2. CASE r # Nil /\ Target!Patch(x, q)
    <3> DEFINE new == Target!Patched(q.p, r.attrs)
    <3>1. new = Patched(op[c].p, r.attrs) /\ new \in Content
      BY <1>5, <2>1, <2>2, SameRules, PatchedType
    <3>2. CASE \E err \in Errors : err # "none" /\ Target!Refuse(x, err)
      BY <1>3, <3>2
    <3>3. CASE new = r.attrs /\ Target!Reply(x, "none", r) /\ UNCHANGED items
      <4>1. Effect(c, w, k, r)
        BY <1>9, <2>2, <3>1, <3>3 DEF Effect
      <4> QED BY <1>4, <1>5, <2>2, <3>3, <4>1
    <3>4. CASE Target!Commit(x, Group, new)
      <4>1. items' = [items EXCEPT ![Group] = [attrs |-> new, version |-> r.version + 1]]
            /\ Target!Reply(x, "none", items'[Group])
        BY <3>4 DEF Target!Commit
      <4>2. items'[Group] = [attrs |-> new, version |-> r.version + 1] /\ items'[Group] \in Resource
        BY <1>5, <2>2, <3>1, <4>1, WrittenType, CallsAssumption DEF IInv, TypeOK
      <4>3. Effect(c, w, k, items'[Group])
        BY <1>9, <2>2, <3>1, <4>1, <4>2 DEF Effect
      <4> QED BY <1>4, <4>1, <4>2, <4>3
    <3> QED BY <1>6, <2>1, <2>2, <3>2, <3>3, <3>4, ErrorTypes DEF Target!Patch
  <2> QED BY <1>2, <1>3, <1>6, <2>1, <2>2
<1>10. CASE w = "delete"
  <2>1. q.kind = "delete" /\ q.id = Group
    <3>1. q = [kind |-> "delete", id |-> Group, match |-> NoMatch]
      BY <1>1, <1>10, CallShape
    <3> QED BY <3>1
  <2>2. CASE r # Nil /\ Target!Delete(x, q)
    <3>1. CASE Target!Refuse(x, "preconditionFailed")
      BY <1>3, <1>6, <3>1
    <3>2. CASE items' = [items EXCEPT ![Group] = Nil] /\ Target!Reply(x, "none", Nil)
      <4>1. Effect(c, w, k, Nil)
        BY <1>10, <2>2, <3>2 DEF Effect
      <4> QED BY <1>4, <3>2, <4>1
    <3> QED BY <2>1, <2>2, <3>1, <3>2 DEF Target!Delete
  <2> QED BY <1>2, <1>3, <1>6, <2>1, <2>2
<1> QED BY <1>7, <1>8, <1>9, <1>10 DEF Writes

LEMMA DeclineKind ==
  ASSUME NEW c \in Calls, NEW w \in Writes, NEW k \in Attempts,
         NEW err \in Errors, err # "none", Decline(<<c, w, k>>, err)
  PROVE  Answers(c, w, k)
  BY DEF Decline, Pending, Answers

LEMMA NextKinds == IInv /\ Next => StepKinds
<1> SUFFICES ASSUME IInv, Next PROVE StepKinds
  OBVIOUS
<1>1. ASSUME NEW c \in Calls, Begin(c) \/ Receive(c) \/ Fetch(c) \/ Abort(c)
      PROVE  StepKinds
  BY <1>1, BeginKind, ReceiveKind, FetchKind, AbortKind DEF StepKinds, ClientStep
<1>2. ASSUME NEW x \in Exchanges, Serve(x) \/ Throttle(x) \/ NotImplemented(x) \/ NothingToRemove(x)
      PROVE  StepKinds
  <2>1. PICK c \in Calls, w \in Writes, k \in Attempts : x = <<c, w, k>>
    BY DEF Exchanges, Attempts
  <2>2. {"throttled", "notImplemented", "noTarget"} \subseteq Errors \ {"none"}
    BY DEF Errors, Refusals
  <2>3. Serve(x) \/ Decline(x, "throttled") \/ Decline(x, "notImplemented") \/ Decline(x, "noTarget")
    BY <1>2 DEF Throttle, NotImplemented, NothingToRemove
  <2>4. Answers(c, w, k)
    BY <2>1, <2>2, <2>3, ServeKind, DeclineKind
  <2> QED BY <2>4 DEF StepKinds
<1> QED BY <1>1, <1>2 DEF Next

-----------------------------------------------------------------------------
(* What a step leaves as it was.                                           *)

(* The resource, once gone, is gone; and a version names one content.      *)
ItemsGoOn ==
  \/ items'[Group] = items[Group]
  \/ items'[Group] = Nil
  \/ items[Group] # Nil /\ items'[Group] # Nil /\ items'[Group].version = items[Group].version + 1

LEMMA SendsFacts ==
  ASSUME TypeOK, NEW c \in Calls, NEW stage \in Writes, NEW k \in Attempts, NEW r, Sends(c, stage, k, r)
  PROVE  /\ at'[c] = stage /\ attempt'[c] = k
         /\ \A d \in Calls \ {c} : at'[d] = at[d] /\ attempt'[d] = attempt[d]
         /\ DOMAIN call' = Exchanges
         /\ call[<<c, stage, k>>] = Nil /\ call'[<<c, stage, k>>] # Nil
         /\ call'[<<c, stage, k>>] = Request(op'[c], <<c, stage, k>>, r)
         /\ \A d \in Calls, w \in Writes, l \in Attempts :
              <<d, w, l>> # <<c, stage, k>> => call'[<<d, w, l>>] = call[<<d, w, l>>]
         /\ UNCHANGED <<mode, setup, items, answer, result>>
<1>1. <<c, stage, k>> \in Exchanges
  BY DEF Exchanges, Attempts
<1>2. \A d \in Calls, w \in Writes, l \in Attempts : <<d, w, l>> \in Exchanges
  BY DEF Exchanges, Attempts
<1> QED BY <1>1, <1>2 DEF Sends, TypeOK

LEMMA SendsOnce ==
  ASSUME TypeOK, NEW c \in Calls, NEW stage \in Writes, NEW k \in Attempts, NEW r, Sends(c, stage, k, r),
         NEW d \in Calls, NEW w \in Writes, NEW l \in Attempts
  PROVE  call'[<<d, w, l>>] = call[<<d, w, l>>] \/ (d = c /\ w = stage /\ l = k)
<1>1. <<c, stage, k>> \in Exchanges /\ <<d, w, l>> \in Exchanges
  BY DEF Exchanges, Attempts
<1>2. <<d, w, l>> # <<c, stage, k>> => call'[<<d, w, l>>] = call[<<d, w, l>>]
  BY <1>1 DEF Sends, TypeOK
<1> QED BY <1>2

LEMMA AnswersFacts ==
  ASSUME TypeOK, NEW c \in Calls, NEW w \in Writes, NEW k \in Attempts, Answers(c, w, k)
  PROVE  /\ call[<<c, w, k>>] # Nil /\ answer[<<c, w, k>>] = Nil
         /\ answer'[<<c, w, k>>] # Nil
         /\ answer' \in [Exchanges -> [err : Errors, res : Resource \cup {Nil}] \cup {Nil}]
         /\ answer'[<<c, w, k>>].err \in Errors /\ answer'[<<c, w, k>>].res \in Resource \cup {Nil}
         /\ \A x \in Exchanges : x # <<c, w, k>> => answer'[x] = answer[x]
         /\ UNCHANGED <<mode, used, call, setup, op, at, attempt, copy, result>>
         /\ Took1(<<c, w, k>>)' => Effect(c, w, k, answer'[<<c, w, k>>].res)
         /\ ~Took1(<<c, w, k>>)' => UNCHANGED items
<1> DEFINE x == <<c, w, k>>
<1>1. x \in Exchanges
  BY DEF Exchanges, Attempts
<1>2. PICK err \in Errors, res \in Resource \cup {Nil} :
        /\ call[x] # Nil /\ answer[x] = Nil
        /\ answer' = [answer EXCEPT ![x] = [err |-> err, res |-> res]]
        /\ (err # "none" /\ UNCHANGED items) \/ (err = "none" /\ Effect(c, w, k, res))
        /\ UNCHANGED <<mode, used, call, client>>
  BY DEF Answers
<1>3. answer'[x] = [err |-> err, res |-> res] /\ \A y \in Exchanges : y # x => answer'[y] = answer[y]
  BY <1>1, <1>2 DEF TypeOK
<1>4. answer'[x] # Nil
  BY <1>2, <1>3, CallsAssumption
<1>5. answer'[x].err = err /\ answer'[x].res = res
  BY <1>3
<1>6. answer' \in [Exchanges -> [err : Errors, res : Resource \cup {Nil}] \cup {Nil}]
  BY <1>1, <1>2 DEF TypeOK
<1> QED BY <1>1, <1>2, <1>3, <1>4, <1>5, <1>6 DEF client, Took1

LEMMA AnswersApart ==
  ASSUME TypeOK, NEW c \in Calls, NEW w \in Writes, NEW k \in Attempts, Answers(c, w, k),
         NEW d \in Calls, NEW v \in Writes, NEW l \in Attempts
  PROVE  answer'[<<d, v, l>>] = answer[<<d, v, l>>] \/ (d = c /\ v = w /\ l = k)
<1>1. <<d, v, l>> \in Exchanges
  BY DEF Exchanges, Attempts
<1>2. <<d, v, l>> # <<c, w, k>> => answer'[<<d, v, l>>] = answer[<<d, v, l>>]
  BY <1>1, AnswersFacts
<1> QED BY <1>2

(* A POST creates a resource of its own, any other write concerns Group.   *)
LEMMA EffectItems ==
  ASSUME IInv, NEW c \in Calls, NEW w \in Writes, NEW k \in Attempts, NEW res \in Resource \cup {Nil},
         call[<<c, w, k>>] # Nil, Effect(c, w, k, res)
  PROVE  /\ items' \in [Ids -> Resource \cup {Nil}] /\ ItemsGoOn
         /\ w = "post" => items'[Group] = items[Group]
         /\ w \in {"put", "delete"} => items'[Group] = res
         /\ w = "delete" => items'[Group] = Nil
<1> DEFINE x == <<c, w, k>>
<1>1. Group \in Ids /\ items[Group] \in Resource \cup {Nil}
  BY CallsAssumption DEF IInv, TypeOK
<1>2. CASE /\ w = "post" /\ items' = [items EXCEPT ![x] = res]
  <2>1. x \in Ids \ {Group}
    BY <1>2, CallsAssumption DEF Exchanges, Attempts
  <2> QED BY <1>2, <2>1 DEF IInv, TypeOK, ItemsGoOn
<1>3. CASE /\ w \in {"put", "patch"} /\ items[Group] # Nil /\ res # Nil
           /\ res.version = items[Group].version + 1
           /\ items' = [items EXCEPT ![Group] = res]
  BY <1>1, <1>3 DEF IInv, TypeOK, ItemsGoOn
<1>4. CASE w = "patch" /\ UNCHANGED items
  BY <1>4 DEF IInv, TypeOK, ItemsGoOn
<1>5. CASE w = "delete" /\ res = Nil /\ items' = [items EXCEPT ![Group] = Nil]
  BY <1>1, <1>5 DEF IInv, TypeOK, ItemsGoOn
<1>6. \A attrs, v : [attrs |-> attrs, version |-> v].version = v
  OBVIOUS
<1>7. items[Group] # Nil => items[Group].attrs \in Content /\ items[Group].version + 1 \in Nat
  BY <1>1 DEF Resource
<1>8. CASE \E attrs : /\ items[Group] # Nil /\ w \in {"put", "patch"} /\ attrs \in Content
                      /\ res = [attrs |-> attrs, version |-> items[Group].version + 1]
                      /\ items' = [items EXCEPT ![Group] = res]
  <2>1. res \in Resource /\ res # Nil /\ res.version = items[Group].version + 1
    BY <1>7, <1>8, WrittenType, RulesAssumption
  <2> QED BY <1>3, <1>8, <2>1
<1>9. CASE /\ w = "put" /\ items[Group] # Nil
           /\ res = [attrs |-> Merge(call[x].body, items[Group].attrs), version |-> items[Group].version + 1]
           /\ items' = [items EXCEPT ![Group] = res]
  <2>1. call[x].body \in Content
    <3>1. PICK r \in Resource :
            /\ call[x] = [kind |-> "put", id |-> Group, body |-> NewBody(op[c], r), match |-> IfMatch(r)]
            /\ NewBody(op[c], r) \in Content
      BY <1>9, CallShape
    <3> QED BY <3>1
  <2> QED BY <1>7, <1>8, <1>9, <2>1, MergeType
<1>10. CASE /\ w = "patch" /\ items[Group] # Nil
            /\ res = [attrs |-> Patched(op[c].p, items[Group].attrs), version |-> items[Group].version + 1]
            /\ items' = [items EXCEPT ![Group] = res]
  <2>1. op[c].p.attr \in Attrs /\ op[c].p.op \in PatchOp(Values)
    BY <1>10, CallShape, OpFields
  <2> QED BY <1>7, <1>8, <1>10, <2>1, PatchedType
<1> QED BY <1>2, <1>4, <1>5, <1>9, <1>10 DEF Effect

(* Who takes a step of a client's, and what the others see of it.          *)
LEMMA OthersSee ==
  ASSUME TypeOK, NEW c \in Calls, ClientStep(c)
  PROVE  /\ UNCHANGED <<mode, setup, items, answer>>
         /\ DOMAIN call' = Exchanges
         /\ op[c] # Nil => at[c] = "idle" \/ op'[c] = op[c]
         /\ \A d \in Calls \ {c} :
              /\ op'[d] = op[d] /\ at'[d] = at[d] /\ attempt'[d] = attempt[d]
              /\ copy'[d] = copy[d] /\ result'[d] = result[d]
         /\ \A d \in Calls, w \in Writes, k \in Attempts :
              d # c \/ call[<<d, w, k>>] # Nil => call'[<<d, w, k>>] = call[<<d, w, k>>]
<1>1. ASSUME NEW stage \in Writes, NEW k \in Attempts, NEW r, Sends(c, stage, k, r)
      PROVE  /\ UNCHANGED <<mode, setup, items, answer, result>>
             /\ DOMAIN call' = Exchanges
             /\ \A d \in Calls \ {c} : at'[d] = at[d] /\ attempt'[d] = attempt[d]
             /\ \A d \in Calls, w \in Writes, l \in Attempts :
                  d # c \/ call[<<d, w, l>>] # Nil => call'[<<d, w, l>>] = call[<<d, w, l>>]
  <2>1. /\ call[<<c, stage, k>>] = Nil
        /\ \A d \in Calls, w \in Writes, l \in Attempts :
             <<d, w, l>> # <<c, stage, k>> => call'[<<d, w, l>>] = call[<<d, w, l>>]
    BY <1>1, SendsFacts
  <2>2. \A d \in Calls, w \in Writes, l \in Attempts :
          d # c \/ call[<<d, w, l>>] # Nil => <<d, w, l>> # <<c, stage, k>>
    BY <2>1
  <2> QED BY <1>1, <2>1, <2>2, SendsFacts
<1>2. CASE BeginsWriting(c)
  <2>1. PICK o \in Op, stage \in Writes, r \in Resource \cup {Nil} :
          /\ at[c] = "idle"
          /\ op' = [op EXCEPT ![c] = o] /\ copy' = [copy EXCEPT ![c] = r]
          /\ Sends(c, stage, 1, r)
    BY <1>2 DEF BeginsWriting
  <2>2. 1 \in Attempts
    BY CallsAssumption DEF Attempts
  <2> QED BY <1>1, <2>1, <2>2 DEF TypeOK
<1>3. CASE BeginsReading(c)
  BY <1>3 DEF BeginsReading, Visit, target, TypeOK
<1>4. CASE Resends(c)
  <2>1. Sends(c, at[c], attempt[c] + 1, copy[c]) /\ UNCHANGED <<op, copy>> /\ at[c] \in Writes
    BY <1>4 DEF Resends
  <2>2. attempt[c] + 1 \in Attempts
    BY <2>1 DEF Sends
  <2> QED BY <1>1, <2>1, <2>2
<1>5. CASE GoesOn(c)
  BY <1>5 DEF GoesOn, Visit, target, TypeOK
<1>6. CASE PutsBack(c)
  <2>1. Sends(c, "put", 1, items[Group]) /\ copy' = [copy EXCEPT ![c] = items[Group]] /\ UNCHANGED op
    BY <1>6 DEF PutsBack
  <2>2. 1 \in Attempts /\ "put" \in Writes
    BY CallsAssumption DEF Attempts, Writes
  <2> QED BY <1>1, <2>1, <2>2 DEF TypeOK
<1>7. CASE Returns(c)
  BY <1>7 DEF Returns, Return, target, TypeOK
<1> QED BY <1>2, <1>3, <1>4, <1>5, <1>6, <1>7 DEF ClientStep

-----------------------------------------------------------------------------
(* The invariant is kept, part by part.  The types.                        *)

LEMMA InitIInv == Init => IInv
<1> SUFFICES ASSUME Init PROVE IInv
  OBVIOUS
<1>1. /\ \A x \in Exchanges : call[x] = Nil /\ answer[x] = Nil
      /\ \A c \in Calls : op[c] = Nil /\ at[c] = "idle" /\ copy[c] = Nil /\ result[c] = Nil
  BY DEF Init, Target!Init
<1>2. \A c \in Calls, w \in Writes, k \in Attempts : <<c, w, k>> \in Exchanges
  BY DEF Exchanges, Attempts
<1>3. TypeOK
  BY CallsAssumption, <1>1 DEF Init, Target!Init, TypeOK
<1>4. OnCourse
  BY <1>1, <1>2 DEF OnCourse, CourseOf, Writes
<1>5. SentAsAsked
  BY <1>1, <1>2 DEF SentAsAsked
<1>6. PutsOneCopy
  BY <1>1, <1>2, StageTypes DEF PutsOneCopy, OneCopy
<1>7. RepeatsRefused
  BY <1>1, <1>2, StageTypes DEF RepeatsRefused, NoneTwice, NoneAfterPatch, Writes
<1>8. Spent /\ TookOnce /\ PatchesShow
  BY <1>1, <1>2, StageTypes DEF Spent, TookOnce, PatchesShow, Took1, Writes
<1>9. OutcomesBacked
  BY <1>1, <1>2, CallsAssumption DEF OutcomesBacked, Backed, Outcome, Errors
<1> QED BY <1>3, <1>4, <1>5, <1>6, <1>7, <1>8, <1>9 DEF IInv

LEMMA SendsTypes ==
  ASSUME TypeOK, NEW c \in Calls, NEW stage \in Writes, NEW k \in Attempts, NEW r, Sends(c, stage, k, r)
  PROVE  /\ used' \subseteq Ids /\ DOMAIN call' = Exchanges
         /\ mode' \in Modes /\ setup' \in Setups
         /\ items' \in [Ids -> Resource \cup {Nil}]
         /\ answer' \in [Exchanges -> [err : Errors, res : Resource \cup {Nil}] \cup {Nil}]
         /\ at' \in [Calls -> Writes \cup Reads \cup {"idle", "returned"}]
         /\ attempt' \in [Calls -> 1..MaxAttempts]
         /\ result' \in [Calls -> Outcome \cup {Nil}]
<1> DEFINE x == <<c, stage, k>>
<1>1. call'[x] = Request(op'[c], x, r) /\ used' = used \cup {call'[x].id}
  BY SendsFacts DEF Sends
<1>2. stage = "post" => x \in Ids
  BY CallsAssumption DEF Exchanges, Attempts
<1>3. Request(op'[c], x, r).id \in {x, Group} /\ (stage # "post" => Request(op'[c], x, r).id = Group)
  <2>1. stage \in {"post", "put", "patch", "delete"}
    BY DEF Writes
  <2>2. CASE stage = "post"
    BY <2>2 DEF Request
  <2>3. CASE stage = "put"
    BY <2>3 DEF Request
  <2>4. CASE stage = "patch"
    BY <2>4 DEF Request
  <2>5. CASE stage = "delete"
    BY <2>5 DEF Request
  <2> QED BY <2>1, <2>2, <2>3, <2>4, <2>5
<1>4. used' \subseteq Ids
  BY <1>1, <1>2, <1>3, CallsAssumption DEF TypeOK
<1> QED BY <1>4, SendsFacts DEF Sends, TypeOK, Attempts

LEMMA TypeClient ==
  ASSUME IInv, NEW c \in Calls, ClientStep(c)
  PROVE  TypeOK'
<1> TypeOK
  BY DEF IInv
<1>1. ASSUME NEW stage \in Writes, NEW k \in Attempts, NEW r \in Resource \cup {Nil}, Sends(c, stage, k, r),
             op' \in [Calls -> Op \cup {Nil}], copy' = [copy EXCEPT ![c] = r], r # Nil <=> stage = "put",
             at[c] # "returned"
      PROVE  TypeOK'
  <2>1. at'[c] = stage /\ \A d \in Calls \ {c} : at'[d] = at[d]
    BY <1>1, SendsFacts
  <2>2. copy' \in [Calls -> Resource \cup {Nil}] /\ copy'[c] = r /\ \A d \in Calls \ {c} : copy'[d] = copy[d]
    BY <1>1 DEF TypeOK
  <2>3. result' = result /\ result[c] = Nil /\ stage # "returned"
    BY <1>1, StageTypes DEF Sends, TypeOK
  <2>4. \A d \in Calls : /\ (result'[d] # Nil) = (at'[d] = "returned")
                         /\ (copy'[d] # Nil) = (at'[d] = "put")
    BY <1>1, <2>1, <2>2, <2>3 DEF TypeOK
  <2> QED BY <1>1, <2>2, <2>4, SendsTypes DEF TypeOK
<1>2. CASE BeginsWriting(c)
  <2>1. PICK o \in Op, stage \in Writes, r \in Resource \cup {Nil} :
          /\ at[c] = "idle"
          /\ stage = "put" => r # Nil
          /\ stage # "put" => r = Nil
          /\ op' = [op EXCEPT ![c] = o] /\ copy' = [copy EXCEPT ![c] = r]
          /\ Sends(c, stage, 1, r)
    BY <1>2 DEF BeginsWriting
  <2>2. 1 \in Attempts /\ op' \in [Calls -> Op \cup {Nil}]
    BY <2>1, CallsAssumption DEF Attempts, TypeOK
  <2> QED BY <1>1, <2>1, <2>2
<1>3. ASSUME NEW stage \in Reads, at[c] \notin {"returned"}, op' \in [Calls -> Op \cup {Nil}],
             copy' = [copy EXCEPT ![c] = Nil], Visit(c, stage)
      PROVE  TypeOK'
  BY <1>3, StageTypes, CallsAssumption DEF Visit, target, TypeOK
<1>4. CASE BeginsReading(c)
  <2>1. PICK o \in Op, stage \in Reads :
          /\ at[c] = "idle"
          /\ op' = [op EXCEPT ![c] = o] /\ copy' = [copy EXCEPT ![c] = Nil]
          /\ Visit(c, stage)
    BY <1>4 DEF BeginsReading
  <2>2. op' \in [Calls -> Op \cup {Nil}]
    BY <2>1 DEF TypeOK
  <2> QED BY <1>3, <2>1, <2>2
<1>5. CASE Resends(c)
  <2>1. at[c] \in Writes /\ Sends(c, at[c], attempt[c] + 1, copy[c]) /\ UNCHANGED <<op, copy>>
    BY <1>5 DEF Resends
  <2>2. attempt[c] + 1 \in Attempts
    BY <2>1 DEF Sends
  <2>3. copy' = [copy EXCEPT ![c] = copy[c]] /\ op' \in [Calls -> Op \cup {Nil}]
    BY <2>1 DEF TypeOK
  <2>4. copy[c] \in Resource \cup {Nil} /\ (copy[c] # Nil <=> at[c] = "put") /\ at[c] # "returned"
    BY <2>1, StageTypes DEF TypeOK
  <2> QED BY <1>1, <2>1, <2>2, <2>3, <2>4
<1>6. CASE GoesOn(c)
  <2>1. at[c] = "patch" /\ UNCHANGED <<op, copy>> /\ (Visit(c, "read") \/ Visit(c, "get"))
    BY <1>6 DEF GoesOn
  <2>2. copy' = [copy EXCEPT ![c] = Nil] /\ op' \in [Calls -> Op \cup {Nil}]
    BY <2>1 DEF TypeOK
  <2> QED BY <1>3, <2>1, <2>2, StageTypes
<1>7. CASE PutsBack(c)
  <2>1. /\ at[c] = "read" /\ items[Group] # Nil /\ copy' = [copy EXCEPT ![c] = items[Group]]
        /\ Sends(c, "put", 1, items[Group]) /\ UNCHANGED op
    BY <1>7 DEF PutsBack
  <2>2. 1 \in Attempts /\ "put" \in Writes /\ items[Group] \in Resource \cup {Nil}
    BY CallsAssumption DEF Attempts, Writes, TypeOK
  <2>3. op' \in [Calls -> Op \cup {Nil}]
    BY <2>1 DEF TypeOK
  <2> QED BY <1>1, <2>1, <2>2, <2>3
<1>8. CASE Returns(c)
  <2>1. PICK err \in Outcome : Return(c, err)
    BY <1>8 DEF Returns
  <2>2. err # Nil
    BY CallsAssumption
  <2>3. /\ UNCHANGED <<mode, items, used, call, answer, setup, op>>
        /\ copy' \in [Calls -> Resource \cup {Nil}]
        /\ at' \in [Calls -> Writes \cup Reads \cup {"idle", "returned"}]
        /\ attempt' \in [Calls -> 1..MaxAttempts]
        /\ result' \in [Calls -> Outcome \cup {Nil}]
    BY <2>1, CallsAssumption DEF Return, target, TypeOK
  <2>4. \A d \in Calls : /\ (result'[d] # Nil) = (at'[d] = "returned")
                         /\ (copy'[d] # Nil) = (at'[d] = "put")
    BY <2>1, <2>2 DEF Return, TypeOK
  <2> QED BY <2>3, <2>4 DEF TypeOK
<1> QED BY <1>2, <1>4, <1>5, <1>6, <1>7, <1>8 DEF ClientStep

LEMMA TypeTarget ==
  ASSUME IInv, NEW c \in Calls, NEW w \in Writes, NEW k \in Attempts, Answers(c, w, k)
  PROVE  TypeOK'
<1>1. items' \in [Ids -> Resource \cup {Nil}]
  BY AnswersFacts, EffectItems DEF IInv, TypeOK
<1>2. /\ UNCHANGED <<mode, used, call, setup, op, at, attempt, copy, result>>
      /\ answer' \in [Exchanges -> [err : Errors, res : Resource \cup {Nil}] \cup {Nil}]
  BY AnswersFacts DEF IInv
<1>3. TypeOK
  BY DEF IInv
<1> QED BY <1>1, <1>2, <1>3 DEF TypeOK

-----------------------------------------------------------------------------
(* The course of a call, and what it sends.                                *)

(* What is left of a call that follows the course of its kind.             *)
LEMMA CourseFacts ==
  ASSUME IInv, NEW c \in Calls
  PROVE  /\ op[c] \in Op \cup {Nil} /\ at[c] \in Writes \cup Reads \cup {"idle", "returned"}
         /\ attempt[c] \in Attempts /\ CourseOf(c)
         /\ at[c] = "idle" => \A w \in Writes, k \in Attempts : call[<<c, w, k>>] = Nil
         /\ at[c] \in {"patch", "read"} => op[c] \in Op /\ op[c].kind \in Patches
<1>1. /\ op[c] \in Op \cup {Nil} /\ at[c] \in Writes \cup Reads \cup {"idle", "returned"}
      /\ attempt[c] \in Attempts /\ CourseOf(c)
  BY DEF IInv, TypeOK, OnCourse, Attempts
<1>2. at[c] = "idle" => \A w \in Writes, k \in Attempts : call[<<c, w, k>>] = Nil
  BY <1>1 DEF CourseOf
<1>3. ASSUME at[c] \in {"patch", "read"}
      PROVE  op[c] \in Op /\ op[c].kind \in Patches
  <2>1. op[c] \in Op /\ at[c] \in StagesOf(op[c].kind)
    BY <1>1, <1>3 DEF CourseOf
  <2> QED BY <1>3, <2>1, OpFields DEF StagesOf, Patches
<1> QED BY <1>1, <1>2, <1>3

LEMMA CourseSends ==
  ASSUME IInv, NEW c \in Calls, NEW stage \in Writes, NEW k \in Attempts, NEW r, Sends(c, stage, k, r),
         op'[c] \in Op, stage \in StagesOf(op'[c].kind),
         \/ at[c] = "idle"
         \/ at[c] = stage /\ k = attempt[c] + 1 /\ op'[c] = op[c]
         \/ at[c] = "read" /\ stage = "put" /\ op'[c] = op[c]
  PROVE  CourseOf(c)'
<1>1. /\ at'[c] = stage /\ attempt'[c] = k /\ answer' = answer
      /\ call[<<c, stage, k>>] = Nil /\ call'[<<c, stage, k>>] # Nil
      /\ \A w \in Writes, l \in Attempts :
              w # stage \/ l # k => call'[<<c, w, l>>] = call[<<c, w, l>>]
  <2>1. \A w \in Writes, l \in Attempts : w # stage \/ l # k => <<c, w, l>> # <<c, stage, k>>
    OBVIOUS
  <2> QED BY <2>1, SendsFacts DEF IInv
<1>2. op'[c] # Nil /\ stage # "idle" /\ stage # "returned"
  BY CallsAssumption, StageTypes
<1>3. ASSUME NEW w \in Writes, NEW l \in Attempts
      PROVE  answer'[<<c, w, l>>] # Nil => call'[<<c, w, l>>] # Nil
  <2>1. answer[<<c, w, l>>] # Nil => call[<<c, w, l>>] # Nil
    BY CourseFacts DEF CourseOf
  <2>2. CASE w = stage /\ l = k
    BY <1>1, <2>2
  <2>3. CASE w # stage \/ l # k
    BY <1>1, <2>1, <2>3
  <2> QED BY <2>2, <2>3
<1>4. ASSUME NEW w \in Writes, NEW l \in Attempts, call'[<<c, w, l>>] # Nil
      PROVE  w \in StagesOf(op'[c].kind) /\ ((at'[c] = w /\ l <= attempt'[c]) \/ Behind(c, w)')
  <2>1. CASE w = stage /\ l = k
    BY <1>1, <2>1 DEF Attempts
  <2>2. CASE w # stage \/ l # k
    <3>1. call[<<c, w, l>>] # Nil
      BY <1>1, <1>4, <2>2
    <3>2. at[c] # "idle" /\ w \in StagesOf(op[c].kind) /\ ((at[c] = w /\ l <= attempt[c]) \/ Behind(c, w))
      BY <3>1, CourseFacts DEF CourseOf
    <3>3. CASE at[c] = stage /\ k = attempt[c] + 1 /\ op'[c] = op[c]
      BY <1>1, <3>2, <3>3, CourseFacts DEF Behind, Attempts
    <3>4. CASE at[c] = "read" /\ stage = "put" /\ op'[c] = op[c]
      BY <1>1, <3>2, <3>4 DEF Behind, Writes
    <3> QED BY <3>2, <3>3, <3>4
  <2> QED BY <2>1, <2>2
<1> QED BY <1>1, <1>2, <1>3, <1>4 DEF CourseOf

LEMMA CourseMoves ==
  ASSUME IInv, NEW c \in Calls, call' = call, answer' = answer,
         \/ at[c] = "idle" /\ at'[c] \in Reads /\ op'[c] \in Op /\ at'[c] \in StagesOf(op'[c].kind)
         \/ at[c] = "patch" /\ at'[c] \in {"read", "get"} /\ op'[c] = op[c]
         \/ at[c] \in Writes \cup Reads /\ at'[c] = "returned" /\ op'[c] = op[c]
  PROVE  CourseOf(c)'
<1>1. CASE at[c] = "idle" /\ at'[c] \in Reads /\ op'[c] \in Op /\ at'[c] \in StagesOf(op'[c].kind)
  <2>1. \A w \in Writes, k \in Attempts : call'[<<c, w, k>>] = Nil
    BY <1>1, CourseFacts
  <2>2. \A w \in Writes, k \in Attempts : answer'[<<c, w, k>>] = Nil
    BY <1>1, CourseFacts DEF CourseOf
  <2>3. op'[c] # Nil /\ at'[c] # "idle" /\ at'[c] \notin Writes
    BY <1>1, CallsAssumption, StageTypes
  <2> QED BY <1>1, <2>1, <2>2, <2>3 DEF CourseOf
<1>2. CASE at[c] = "patch" /\ at'[c] \in {"read", "get"} /\ op'[c] = op[c]
  <2>1. op[c] # Nil /\ at'[c] \in StagesOf(op[c].kind)
    BY <1>2, CourseFacts, OpFields, CallsAssumption DEF StagesOf, Patches
  <2>2. \A w \in Writes : Behind(c, w)' <=> w = "patch"
    BY <1>2 DEF Behind
  <2>3. \A w \in Writes, k \in Attempts : call[<<c, w, k>>] # Nil => w = "patch"
    BY <1>2, CourseFacts DEF CourseOf, Behind
  <2>4. at'[c] \notin Writes /\ at'[c] # "idle"
    BY <1>2 DEF Writes
  <2> QED BY <1>2, <2>1, <2>2, <2>3, <2>4, CourseFacts DEF CourseOf
<1>3. CASE at[c] \in Writes \cup Reads /\ at'[c] = "returned" /\ op'[c] = op[c]
  <2>1. op'[c] # Nil /\ at'[c] # "idle" /\ at'[c] \notin Writes
    BY <1>3, CourseFacts, StageTypes DEF CourseOf
  <2>2. \A w \in Writes : Behind(c, w)'
    BY <1>3 DEF Behind
  <2> QED BY <1>3, <2>1, <2>2, CourseFacts DEF CourseOf
<1> QED BY <1>1, <1>2, <1>3

LEMMA CourseClient ==
  ASSUME IInv, NEW c \in Calls, ClientStep(c)
  PROVE  OnCourse'
<1>1. ASSUME NEW d \in Calls \ {c} PROVE CourseOf(d)'
  <2>1. /\ op'[d] = op[d] /\ at'[d] = at[d] /\ attempt'[d] = attempt[d] /\ answer' = answer
        /\ \A w \in Writes, k \in Attempts : call'[<<d, w, k>>] = call[<<d, w, k>>]
    BY OthersSee DEF IInv
  <2>2. CourseOf(d) /\ attempt[d] \in Attempts
    BY CourseFacts
  <2> QED BY <2>1, <2>2 DEF CourseOf, Behind
<1>2. CourseOf(c)'
  <2> TypeOK /\ 1 \in Attempts
    BY CallsAssumption DEF IInv, Attempts
  <2>1. CASE BeginsWriting(c)
    <3>1. PICK o \in Op, stage \in Writes, r \in Resource \cup {Nil} :
            /\ at[c] = "idle" /\ stage \in StagesOf(o.kind)
            /\ op' = [op EXCEPT ![c] = o]
            /\ Sends(c, stage, 1, r)
      BY <2>1 DEF BeginsWriting
    <3>2. op'[c] = o
      BY <3>1 DEF TypeOK
    <3> QED BY <3>1, <3>2, CourseSends
  <2>2. CASE BeginsReading(c)
    <3>1. PICK o \in Op, stage \in Reads :
            /\ at[c] = "idle" /\ stage \in StagesOf(o.kind)
            /\ op' = [op EXCEPT ![c] = o] /\ Visit(c, stage)
      BY <2>2 DEF BeginsReading
    <3>2. op'[c] = o /\ at'[c] = stage /\ call' = call /\ answer' = answer
      BY <3>1 DEF TypeOK, Visit, target
    <3> QED BY <3>1, <3>2, CourseMoves
  <2>3. CASE Resends(c)
    <3>1. at[c] \in Writes /\ Sends(c, at[c], attempt[c] + 1, copy[c]) /\ op' = op
      BY <2>3 DEF Resends
    <3>2. op[c] \in Op /\ at[c] \in StagesOf(op[c].kind) /\ attempt[c] + 1 \in Attempts
      BY <3>1, CourseFacts, StageTypes DEF CourseOf, Sends
    <3> QED BY <3>1, <3>2, CourseSends
  <2>4. CASE GoesOn(c)
    BY <2>4, CourseMoves DEF GoesOn, Visit, target, TypeOK
  <2>5. CASE PutsBack(c)
    <3>1. at[c] = "read" /\ Sends(c, "put", 1, items[Group]) /\ op' = op
      BY <2>5 DEF PutsBack
    <3>2. op[c] \in Op /\ "put" \in StagesOf(op[c].kind) /\ "put" \in Writes
      BY <3>1, CourseFacts, OpFields DEF StagesOf, Patches, Writes
    <3> QED BY <3>1, <3>2, CourseSends
  <2>6. CASE Returns(c)
    BY <2>6, CourseMoves DEF Returns, Return, target, TypeOK
  <2> QED BY <2>1, <2>2, <2>3, <2>4, <2>5, <2>6 DEF ClientStep
<1> QED BY <1>1, <1>2 DEF OnCourse

LEMMA CourseTarget ==
  ASSUME IInv, NEW c \in Calls, NEW w \in Writes, NEW k \in Attempts, Answers(c, w, k)
  PROVE  OnCourse'
<1>1. call[<<c, w, k>>] # Nil /\ UNCHANGED <<call, op, at, attempt>>
  BY AnswersFacts DEF IInv
<1>2. ASSUME NEW d \in Calls PROVE CourseOf(d)'
  <2>1. ASSUME NEW v \in Writes, NEW l \in Attempts, answer'[<<d, v, l>>] # Nil
        PROVE  call'[<<d, v, l>>] # Nil
    <3>1. answer'[<<d, v, l>>] = answer[<<d, v, l>>] \/ (d = c /\ v = w /\ l = k)
      BY AnswersApart DEF IInv
    <3>2. answer[<<d, v, l>>] # Nil => call[<<d, v, l>>] # Nil
      BY CourseFacts DEF CourseOf
    <3> QED BY <1>1, <2>1, <3>1, <3>2
  <2> QED BY <1>1, <2>1, CourseFacts DEF CourseOf, Behind
<1> QED BY <1>2 DEF OnCourse

LEMMA SentClient ==
  ASSUME IInv, NEW c \in Calls, ClientStep(c)
  PROVE  SentAsAsked'
<1> TypeOK /\ 1 \in Attempts
  BY CallsAssumption DEF IInv, Attempts
<1> SUFFICES ASSUME NEW d \in Calls, NEW w \in Writes \ {"put"}, NEW k \in Attempts,
                    call'[<<d, w, k>>] # Nil
             PROVE  call'[<<d, w, k>>] = Request(op'[d], <<d, w, k>>, Nil)
  <2>1. setup' = setup
    BY OthersSee
  <2>2. \A o, x : Request(o, x, Nil)' = Request(o, x, Nil)
    BY <2>1 DEF Request, NewBody, IfMatch
  <2> QED BY <2>2 DEF SentAsAsked
<1>1. ASSUME call[<<d, w, k>>] # Nil PROVE call'[<<d, w, k>>] = Request(op'[d], <<d, w, k>>, Nil)
  <2>1. call'[<<d, w, k>>] = call[<<d, w, k>>]
    BY <1>1, OthersSee
  <2>2. op[d] # Nil /\ at[d] # "idle"
    BY <1>1, CourseFacts DEF CourseOf
  <2>3. op'[d] = op[d]
    BY <2>2, OthersSee
  <2> QED BY <1>1, <2>1, <2>3 DEF IInv, SentAsAsked
<1>2. ASSUME NEW stage \in Writes, NEW l \in Attempts, NEW r, Sends(c, stage, l, r), stage = "put" \/ r = Nil,
             call[<<d, w, k>>] = Nil
      PROVE  call'[<<d, w, k>>] = Request(op'[d], <<d, w, k>>, Nil)
  <2>1. call'[<<d, w, k>>] = call[<<d, w, k>>] \/ (d = c /\ w = stage /\ k = l)
    BY <1>2, SendsOnce
  <2>2. d = c /\ w = stage /\ k = l /\ r = Nil
    BY <1>2, <2>1
  <2> QED BY <1>2, <2>2, SendsFacts
<1>3. ASSUME UNCHANGED call PROVE call'[<<d, w, k>>] = Request(op'[d], <<d, w, k>>, Nil)
  BY <1>1, <1>3
<1>4. CASE BeginsWriting(c)
  <2>1. PICK stage \in Writes, r \in Resource \cup {Nil} :
          (stage # "put" => r = Nil) /\ Sends(c, stage, 1, r)
    BY <1>4 DEF BeginsWriting
  <2> QED BY <1>1, <1>2, <2>1
<1>5. CASE Resends(c)
  <2>1. at[c] \in Writes /\ Sends(c, at[c], attempt[c] + 1, copy[c])
    BY <1>5 DEF Resends
  <2>2. attempt[c] + 1 \in Attempts /\ (at[c] = "put" \/ copy[c] = Nil)
    BY <2>1 DEF Sends, TypeOK
  <2> QED BY <1>1, <1>2, <2>1, <2>2
<1>6. CASE PutsBack(c)
  <2>1. Sends(c, "put", 1, items[Group])
    BY <1>6 DEF PutsBack
  <2> QED BY <1>1, <1>2, <2>1, StageTypes
<1>7. CASE BeginsReading(c) \/ GoesOn(c) \/ Returns(c)
  BY <1>3, <1>7 DEF BeginsReading, GoesOn, Returns, Visit, Return, target
<1> QED BY <1>4, <1>5, <1>6, <1>7 DEF ClientStep

LEMMA SentTarget ==
  ASSUME IInv, NEW c \in Calls, NEW w \in Writes, NEW k \in Attempts, Answers(c, w, k)
  PROVE  SentAsAsked'
<1>1. UNCHANGED <<call, op, setup>>
  BY AnswersFacts DEF IInv
<1>2. SentAsAsked
  BY DEF IInv
<1>3. \A o, x : Request(o, x, Nil)' = Request(o, x, Nil)
  BY <1>1 DEF Request, NewBody, IfMatch
<1> QED BY <1>1, <1>2, <1>3 DEF SentAsAsked

LEMMA RequestRigid ==
  ASSUME setup' = setup
  PROVE  \A o, x, r : Request(o, x, r)' = Request(o, x, r)
  BY DEF Request, NewBody, IfMatch

-----------------------------------------------------------------------------
(* The copy a call's PUTs are computed from.                               *)

LEMMA UsableStays ==
  ASSUME TypeOK, NEW c \in Calls, NEW r \in Resource, Usable(c, r), ItemsGoOn,
         setup' = setup, op'[c] = op[c]
  PROVE  Usable(c, r)'
<1>1. items[Group] \in Resource \cup {Nil} /\ r.version \in Nat
  BY CallsAssumption DEF TypeOK, Resource
<1>2. items[Group] # Nil => items[Group].version \in Nat
  BY <1>1 DEF Resource
<1>3. op[c].kind \in Patches => ApplyError(op[c].p, r.attrs) = "none"
  BY DEF Usable
<1>4. ASSUME setup.tags, items'[Group] # Nil
      PROVE  r.version <= items'[Group].version /\ (r.version = items'[Group].version => items'[Group] = r)
  <2>1. items[Group] # Nil
    BY <1>4 DEF ItemsGoOn
  <2>2. r.version <= items[Group].version /\ (r.version = items[Group].version => items[Group] = r)
    BY <1>4, <2>1 DEF Usable
  <2> QED BY <1>1, <1>2, <1>4, <2>1, <2>2 DEF ItemsGoOn
<1> QED BY <1>3, <1>4 DEF Usable

LEMMA OneCopyStays ==
  ASSUME IInv, NEW c \in Calls, ItemsGoOn, setup' = setup, op'[c] = op[c],
         copy'[c] = Nil \/ copy'[c] = copy[c],
         \A k \in Attempts : call'[<<c, "put", k>>] = call[<<c, "put", k>>]
  PROVE  OneCopy(c)'
<1> SUFFICES ASSUME NEW k \in Attempts, call[<<c, "put", k>>] # Nil
             PROVE  \E r \in Resource : Usable(c, r)' /\ PutsFrom(c, r)'
  BY DEF OneCopy
<1>1. PICK r \in Resource : Usable(c, r) /\ PutsFrom(c, r)
  BY DEF IInv, PutsOneCopy, OneCopy
<1>2. Usable(c, r)'
  BY <1>1, UsableStays DEF IInv
<1>3. PutsFrom(c, r)'
  BY <1>1, RequestRigid DEF PutsFrom
<1> QED BY <1>2, <1>3

(* The first PUT is of the resource as it is now.                          *)
LEMMA OneCopyFirst ==
  ASSUME IInv, NEW c \in Calls, NEW r \in Resource, r = items[Group], r # Nil,
         at[c] \in {"idle", "read"}, copy' = [copy EXCEPT ![c] = r], Sends(c, "put", 1, r),
         op'[c].kind \in Patches => ApplyError(op'[c].p, r.attrs) = "none"
  PROVE  OneCopy(c)'
<1>0. 1 \in Attempts /\ "put" \in Writes /\ TypeOK /\ setup' = setup /\ items' = items
  BY CallsAssumption DEF Attempts, Writes, IInv, Sends
<1>1. \A k \in Attempts : call[<<c, "put", k>>] = Nil
  BY <1>0, CourseFacts DEF CourseOf, Behind
<1>2. \A k \in Attempts : k # 1 => call'[<<c, "put", k>>] = Nil
  BY <1>0, <1>1, SendsOnce
<1>3. call'[<<c, "put", 1>>] = Request(op'[c], <<c, "put", 1>>, r)
  BY <1>0, SendsFacts
<1>4. copy'[c] = r
  BY <1>0 DEF TypeOK
<1>5. PutsFrom(c, r)'
  BY <1>0, <1>2, <1>3, <1>4, RequestRigid DEF PutsFrom
<1>6. Usable(c, r)'
  BY <1>0 DEF Usable, Resource
<1> QED BY <1>5, <1>6 DEF OneCopy

LEMMA OneCopyAgain ==
  ASSUME IInv, NEW c \in Calls, at[c] = "put", Sends(c, "put", attempt[c] + 1, copy[c]),
         UNCHANGED <<op, copy>>
  PROVE  OneCopy(c)'
<1>0. "put" \in Writes /\ attempt[c] + 1 \in Attempts /\ TypeOK /\ setup' = setup /\ items' = items
  BY DEF Writes, Sends, IInv
<1>1. call[<<c, "put", attempt[c]>>] # Nil /\ attempt[c] \in Attempts
  BY <1>0, CourseFacts DEF CourseOf
<1>2. PICK r \in Resource : Usable(c, r) /\ PutsFrom(c, r)
  BY <1>1 DEF IInv, PutsOneCopy, OneCopy
<1>3. copy[c] = r
  BY <1>0, <1>2 DEF PutsFrom, TypeOK
<1>4. \A k \in Attempts :
        call'[<<c, "put", k>>] = call[<<c, "put", k>>] \/ k = attempt[c] + 1
  BY <1>0, SendsOnce
<1>5. call'[<<c, "put", attempt[c] + 1>>] = Request(op'[c], <<c, "put", attempt[c] + 1>>, r)
  BY <1>0, <1>3, SendsFacts
<1>6. PutsFrom(c, r)'
  BY <1>0, <1>2, <1>3, <1>4, <1>5, RequestRigid DEF PutsFrom
<1>7. Usable(c, r)'
  BY <1>0, <1>2, UsableStays DEF ItemsGoOn
<1> QED BY <1>6, <1>7 DEF OneCopy

LEMMA PutsClient ==
  ASSUME IInv, NEW c \in Calls, ClientStep(c)
  PROVE  PutsOneCopy'
<1>0. TypeOK /\ 1 \in Attempts /\ "put" \in Writes /\ setup' = setup /\ ItemsGoOn
  BY OthersSee, CallsAssumption DEF IInv, Attempts, Writes, ItemsGoOn
<1>1. ASSUME NEW d \in Calls \ {c} PROVE OneCopy(d)'
  BY <1>0, OthersSee, OneCopyStays
<1> SUFFICES OneCopy(c)'
  BY <1>1 DEF PutsOneCopy
<1>2. ASSUME NEW stage \in Writes \ {"put"}, NEW k \in Attempts, NEW r, Sends(c, stage, k, r)
      PROVE  \A l \in Attempts : call'[<<c, "put", l>>] = call[<<c, "put", l>>]
  BY <1>0, <1>2, SendsOnce
<1>3. CASE BeginsWriting(c)
  <2>1. PICK o \in Op, stage \in Writes, r \in Resource \cup {Nil} :
          /\ at[c] = "idle"
          /\ stage = "put" <=> o.kind = "replace"
          /\ stage = "put" => r = items[Group] /\ r # Nil
          /\ op' = [op EXCEPT ![c] = o] /\ copy' = [copy EXCEPT ![c] = r]
          /\ Sends(c, stage, 1, r)
    BY <1>3 DEF BeginsWriting
  <2>2. CASE stage = "put"
    <3>1. op'[c] = o /\ o.kind = "replace"
      BY <1>0, <2>1, <2>2 DEF TypeOK
    <3>2. op'[c].kind \notin Patches
      BY <3>1 DEF Patches
    <3>3. r \in Resource
      BY <2>1, <2>2
    <3> QED BY <2>1, <2>2, <3>2, <3>3, OneCopyFirst
  <2>3. CASE stage # "put"
    <3>1. \A l \in Attempts : call'[<<c, "put", l>>] = call[<<c, "put", l>>]
      BY <1>0, <1>2, <2>1, <2>3
    <3>2. \A l \in Attempts : call[<<c, "put", l>>] = Nil
      BY <1>0, <2>1, CourseFacts
    <3> QED BY <3>1, <3>2 DEF OneCopy
  <2> QED BY <2>2, <2>3
<1>4. CASE BeginsReading(c)
  <2>1. at[c] = "idle" /\ call' = call
    BY <1>4 DEF BeginsReading, Visit, target
  <2>2. \A l \in Attempts : call[<<c, "put", l>>] = Nil
    BY <1>0, <2>1, CourseFacts
  <2> QED BY <2>1, <2>2 DEF OneCopy
<1>5. CASE Resends(c)
  <2>1. at[c] \in Writes /\ Sends(c, at[c], attempt[c] + 1, copy[c]) /\ UNCHANGED <<op, copy>>
    BY <1>5 DEF Resends
  <2>2. attempt[c] + 1 \in Attempts
    BY <2>1 DEF Sends
  <2>3. CASE at[c] # "put"
    <3>1. \A l \in Attempts : call'[<<c, "put", l>>] = call[<<c, "put", l>>]
      BY <1>2, <2>1, <2>2, <2>3
    <3>2. op'[c] = op[c] /\ copy'[c] = copy[c]
      BY <2>1
    <3> QED BY <1>0, <3>1, <3>2, OneCopyStays
  <2>4. CASE at[c] = "put"
    BY <2>1, <2>4, OneCopyAgain
  <2> QED BY <2>3, <2>4
<1>6. CASE GoesOn(c)
  <2>1. call' = call /\ op' = op /\ copy' = copy
    BY <1>6 DEF GoesOn, Visit, target
  <2>2. /\ op'[c] = op[c] /\ copy'[c] = copy[c]
        /\ \A l \in Attempts : call'[<<c, "put", l>>] = call[<<c, "put", l>>]
    BY <2>1
  <2> QED BY <1>0, <2>2, OneCopyStays
<1>7. CASE PutsBack(c)
  <2>1. /\ at[c] = "read" /\ items[Group] # Nil /\ op' = op
        /\ copy' = [copy EXCEPT ![c] = items[Group]] /\ Sends(c, "put", 1, items[Group])
        /\ ApplyError(op[c].p, items[Group].attrs) = "none"
    BY <1>7 DEF PutsBack
  <2>2. PICK r \in Resource : r = items[Group] /\ r # Nil
    BY <1>0, <2>1, CallsAssumption DEF TypeOK
  <2> QED BY <2>1, <2>2, OneCopyFirst
<1>8. CASE Returns(c)
  <2>1. call' = call /\ op' = op /\ copy'[c] = Nil
    BY <1>0, <1>8 DEF Returns, Return, target, TypeOK
  <2>2. /\ op'[c] = op[c]
        /\ \A l \in Attempts : call'[<<c, "put", l>>] = call[<<c, "put", l>>]
    BY <2>1
  <2> QED BY <1>0, <2>1, <2>2, OneCopyStays
<1> QED BY <1>3, <1>4, <1>5, <1>6, <1>7, <1>8 DEF ClientStep

(* What a request that was carried out did to the resource.                *)
LEMMA AnswersItems ==
  ASSUME IInv, NEW c \in Calls, NEW w \in Writes, NEW k \in Attempts, Answers(c, w, k)
  PROVE  ItemsGoOn
<1>1. CASE UNCHANGED items
  BY <1>1 DEF ItemsGoOn
<1>2. CASE Effect(c, w, k, answer'[<<c, w, k>>].res)
  <2>1. call[<<c, w, k>>] # Nil /\ answer'[<<c, w, k>>].res \in Resource \cup {Nil}
    BY AnswersFacts DEF IInv
  <2> QED BY <1>2, <2>1, EffectItems
<1> QED BY <1>1, <1>2, AnswersFacts DEF IInv

LEMMA PutsTarget ==
  ASSUME IInv, NEW c \in Calls, NEW w \in Writes, NEW k \in Attempts, Answers(c, w, k)
  PROVE  PutsOneCopy'
<1>1. UNCHANGED <<call, op, copy, setup>>
  BY AnswersFacts DEF IInv
<1>2. ASSUME NEW d \in Calls PROVE OneCopy(d)'
  BY <1>1, AnswersItems, OneCopyStays
<1> QED BY <1>2 DEF PutsOneCopy

-----------------------------------------------------------------------------
(* Repetitions.                                                            *)

(* An answer is final.                                                     *)
LEMMA AnswersLast ==
  ASSUME IInv, StepKinds, NEW x \in Exchanges, answer[x] # Nil
  PROVE  answer'[x] = answer[x]
<1>1. ASSUME NEW c \in Calls, ClientStep(c) PROVE answer'[x] = answer[x]
  BY <1>1, OthersSee DEF IInv
<1>2. ASSUME NEW c \in Calls, NEW w \in Writes, NEW k \in Attempts, Answers(c, w, k)
      PROVE  answer'[x] = answer[x]
  <2>1. answer[<<c, w, k>>] = Nil /\ (x # <<c, w, k>> => answer'[x] = answer[x])
    BY <1>2, AnswersFacts DEF IInv
  <2> QED BY <2>1
<1> QED BY <1>1, <1>2 DEF StepKinds

LEMMA RefusedLasts ==
  ASSUME IInv, StepKinds, NEW c \in Calls, NEW w \in Writes, NEW k \in Attempts, Refused(<<c, w, k>>)
  PROVE  Refused(<<c, w, k>>)'
  BY AnswersLast DEF Refused, Exchanges, Attempts

(* A call that sends nothing new repeats nothing.                          *)
LEMMA RepeatsStay ==
  ASSUME IInv, StepKinds, NEW c \in Calls, at'[c] = at[c] \/ at'[c] # "read",
         \A w \in Writes, k \in Attempts : call'[<<c, w, k>>] = call[<<c, w, k>>],
         NoneTwice(c, "post"), NoneTwice(c, "patch"), NoneAfterPatch(c)
  PROVE  NoneTwice(c, "post")' /\ NoneTwice(c, "patch")' /\ NoneAfterPatch(c)'
<1>1. "post" \in Writes /\ "patch" \in Writes /\ "put" \in Writes
  BY DEF Writes
<1>2. ASSUME NEW w \in {"post", "patch"}, NoneTwice(c, w) PROVE NoneTwice(c, w)'
  BY <1>1, <1>2, RefusedLasts DEF NoneTwice
<1>3. NoneAfterPatch(c)'
  BY <1>1, RefusedLasts DEF NoneAfterPatch
<1> QED BY <1>2, <1>3

(* A request that is repeated, and so all before it, was declined.         *)
LEMMA RepeatsAgain ==
  ASSUME IInv, StepKinds, ~setup.replays, NEW c \in Calls, NEW w \in {"post", "patch"},
         at[c] = w, Refused(<<c, w, attempt[c]>>), NoneTwice(c, w)
  PROVE  \A k \in Attempts : call[<<c, w, k>>] # Nil => k <= attempt[c] /\ Refused(<<c, w, k>>)
<1>1. w \in Writes /\ attempt[c] \in Attempts /\ call[<<c, w, attempt[c]>>] # Nil
  BY CourseFacts DEF CourseOf, Writes
<1>2. ASSUME NEW k \in Attempts, call[<<c, w, k>>] # Nil
      PROVE  k <= attempt[c]
  BY <1>1, <1>2, CourseFacts DEF CourseOf, Behind
<1> QED BY <1>1, <1>2 DEF NoneTwice, Attempts

LEMMA RepeatsClient ==
  ASSUME IInv, NEW c \in Calls, ClientStep(c)
  PROVE  RepeatsRefused'
<1>0. /\ TypeOK /\ 1 \in Attempts /\ "put" \in Writes /\ "post" \in Writes /\ "patch" \in Writes
      /\ setup' = setup /\ StepKinds
  BY OthersSee, CallsAssumption DEF IInv, Attempts, Writes, StepKinds
<1> SUFFICES ASSUME ~setup.replays, NEW d \in Calls
             PROVE  NoneTwice(d, "post")' /\ NoneTwice(d, "patch")' /\ NoneAfterPatch(d)'
  BY <1>0 DEF RepeatsRefused
<1>1. NoneTwice(d, "post") /\ NoneTwice(d, "patch") /\ NoneAfterPatch(d)
  BY DEF IInv, RepeatsRefused
<1>2. CASE d # c
  BY <1>0, <1>1, <1>2, OthersSee, RepeatsStay
<1> SUFFICES ASSUME d = c
             PROVE  NoneTwice(c, "post")' /\ NoneTwice(c, "patch")' /\ NoneAfterPatch(c)'
  BY <1>2
<1>3. ASSUME NEW w \in Writes, at[c] = "idle", at'[c] # "read" \/ w # "patch",
             \A v \in Writes, k \in Attempts : v # w \/ k # 1 => call'[<<c, v, k>>] = call[<<c, v, k>>]
      PROVE  NoneTwice(c, "post")' /\ NoneTwice(c, "patch")' /\ NoneAfterPatch(c)'
  <2>1. \A v \in Writes, k \in Attempts : call'[<<c, v, k>>] # Nil => v = w /\ k = 1
    BY <1>3, CourseFacts
  <2>2. NoneTwice(c, "post")' /\ NoneTwice(c, "patch")'
    BY <1>0, <2>1 DEF NoneTwice, Attempts
  <2>3. NoneAfterPatch(c)'
    BY <1>0, <1>3, <2>1 DEF NoneAfterPatch
  <2> QED BY <2>2, <2>3
<1>4. CASE BeginsWriting(c)
  <2>1. PICK stage \in Writes, r \in Resource \cup {Nil} : at[c] = "idle" /\ Sends(c, stage, 1, r)
    BY <1>4 DEF BeginsWriting
  <2>2. \A v \in Writes, k \in Attempts : v # stage \/ k # 1 => call'[<<c, v, k>>] = call[<<c, v, k>>]
    BY <1>0, <2>1, SendsOnce
  <2>3. at'[c] # "read"
    BY <1>0, <2>1, SendsFacts DEF Writes
  <2> QED BY <1>3, <2>1, <2>2, <2>3
<1>5. CASE BeginsReading(c)
  <2>1. at[c] = "idle" /\ call' = call
    BY <1>5 DEF BeginsReading, Visit, target
  <2> QED BY <1>0, <1>3, <2>1
<1>6. CASE Resends(c)
  <2> DEFINE a == at[c]
  <2>1. /\ at[c] \in Writes /\ Sends(c, at[c], attempt[c] + 1, copy[c])
        /\ at[c] \in {"post", "patch"} => Refused(<<c, at[c], attempt[c]>>)
    BY <1>6 DEF Resends
  <2>2. attempt[c] \in Attempts /\ attempt[c] + 1 \in Attempts /\ at'[c] = at[c]
    BY <1>0, <2>1, SendsFacts, CourseFacts DEF Sends
  <2>3. \A v \in Writes, k \in Attempts :
          v # at[c] \/ k # attempt[c] + 1 => call'[<<c, v, k>>] = call[<<c, v, k>>]
    BY <1>0, <2>1, <2>2, SendsOnce
  <2>4. ASSUME NEW w \in {"post", "patch"} PROVE NoneTwice(c, w)'
    <3>1. CASE w = at[c]
      <4>1. \A k \in Attempts : call[<<c, w, k>>] # Nil => k <= attempt[c] /\ Refused(<<c, w, k>>)
        BY <1>0, <1>1, <2>1, <3>1, RepeatsAgain
      <4>2. ASSUME NEW k \in Attempts, NEW l \in Attempts, k < l,
                   call'[<<c, w, l>>] # Nil, call'[<<c, w, k>>] # Nil
            PROVE  Refused(<<c, w, k>>)'
        <5>1. l <= attempt[c] + 1
          BY <1>0, <2>2, <2>3, <3>1, <4>1, <4>2 DEF Attempts
        <5>2. call[<<c, w, k>>] # Nil
          BY <1>0, <2>2, <2>3, <4>2, <5>1 DEF Attempts
        <5> QED BY <1>0, <4>1, <5>2, RefusedLasts
      <4> QED BY <4>2 DEF NoneTwice
    <3>2. CASE w # at[c]
      <4>1. \A k \in Attempts : call'[<<c, w, k>>] = call[<<c, w, k>>]
        BY <1>0, <2>3, <3>2
      <4>2. NoneTwice(c, w)
        BY <1>1
      <4> QED BY <1>0, <4>1, <4>2, RefusedLasts DEF NoneTwice
    <3> QED BY <3>1, <3>2
  <2>5. NoneAfterPatch(c)'
    <3>1. CASE at[c] = "put"
      <4>1. call[<<c, "put", attempt[c]>>] # Nil
        BY <1>0, <3>1, CourseFacts DEF CourseOf
      <4>2. \A k \in Attempts : call[<<c, "patch", k>>] # Nil => Refused(<<c, "patch", k>>)
        BY <1>1, <2>2, <4>1 DEF NoneAfterPatch
      <4>3. \A k \in Attempts : call'[<<c, "patch", k>>] = call[<<c, "patch", k>>]
        BY <1>0, <2>3, <3>1
      <4> QED BY <1>0, <4>2, <4>3, RefusedLasts DEF NoneAfterPatch
    <3>2. CASE at[c] # "put"
      <4>1. \A k \in Attempts : call[<<c, "put", k>>] = Nil
        BY <1>0, <2>1, <3>2, CourseFacts, StageTypes DEF CourseOf, Behind, Writes
      <4>2. \A k \in Attempts : call'[<<c, "put", k>>] = Nil
        BY <1>0, <2>3, <3>2, <4>1
      <4>3. at'[c] # "read"
        BY <2>1, <2>2, StageTypes DEF Writes
      <4> QED BY <4>2, <4>3 DEF NoneAfterPatch
    <3> QED BY <3>1, <3>2
  <2> QED BY <2>4, <2>5
<1>7. CASE GoesOn(c)
  <2>1. /\ at[c] = "patch" /\ call' = call
        /\ at'[c] = "get" \/ (at'[c] = "read" /\ Refused(<<c, "patch", attempt[c]>>))
    BY <1>0, <1>7 DEF GoesOn, Visit, target, TypeOK
  <2>2. CASE at'[c] = "get"
    BY <1>0, <1>1, <2>1, <2>2, RepeatsStay
  <2>3. CASE at'[c] = "read" /\ Refused(<<c, "patch", attempt[c]>>)
    <3>1. \A k \in Attempts : call[<<c, "patch", k>>] # Nil => Refused(<<c, "patch", k>>)
      BY <1>0, <1>1, <2>1, <2>3, RepeatsAgain
    <3>2. NoneAfterPatch(c)'
      BY <1>0, <2>1, <3>1, RefusedLasts DEF NoneAfterPatch
    <3>3. NoneTwice(c, "post")' /\ NoneTwice(c, "patch")'
      BY <1>0, <1>1, <2>1, RefusedLasts DEF NoneTwice
    <3> QED BY <3>2, <3>3
  <2> QED BY <2>1, <2>2, <2>3
<1>8. CASE PutsBack(c)
  <2>1. at[c] = "read" /\ Sends(c, "put", 1, items[Group])
    BY <1>8 DEF PutsBack
  <2>2. \A w \in {"post", "patch"}, k \in Attempts : call'[<<c, w, k>>] = call[<<c, w, k>>]
    BY <1>0, <2>1, SendsOnce
  <2>3. \A k \in Attempts : call[<<c, "patch", k>>] # Nil => Refused(<<c, "patch", k>>)
    BY <1>1, <2>1 DEF NoneAfterPatch
  <2>4. NoneAfterPatch(c)'
    BY <1>0, <2>2, <2>3, RefusedLasts DEF NoneAfterPatch
  <2>5. NoneTwice(c, "post")' /\ NoneTwice(c, "patch")'
    BY <1>0, <1>1, <2>2, RefusedLasts DEF NoneTwice
  <2> QED BY <2>4, <2>5
<1>9. CASE Returns(c)
  <2>1. at'[c] = "returned" /\ call' = call
    BY <1>0, <1>9 DEF Returns, Return, target, TypeOK
  <2> QED BY <1>0, <1>1, <2>1, RepeatsStay
<1> QED BY <1>4, <1>5, <1>6, <1>7, <1>8, <1>9 DEF ClientStep

LEMMA RepeatsTarget ==
  ASSUME IInv, NEW c \in Calls, NEW w \in Writes, NEW k \in Attempts, Answers(c, w, k)
  PROVE  RepeatsRefused'
<1>1. UNCHANGED <<call, at, setup>> /\ StepKinds
  BY AnswersFacts DEF IInv, StepKinds
<1> SUFFICES ASSUME ~setup.replays, NEW d \in Calls
             PROVE  NoneTwice(d, "post")' /\ NoneTwice(d, "patch")' /\ NoneAfterPatch(d)'
  BY <1>1 DEF RepeatsRefused
<1>2. NoneTwice(d, "post") /\ NoneTwice(d, "patch") /\ NoneAfterPatch(d)
  BY DEF IInv, RepeatsRefused
<1> QED BY <1>1, <1>2, RepeatsStay

-----------------------------------------------------------------------------
(* Writes that took effect.                                                *)

(* Only a step of the target's makes anything of a request.                *)
LEMMA TookBefore ==
  ASSUME IInv, NEW c \in Calls, ClientStep(c)
  PROVE  \A d \in Calls, w \in Writes, k \in Attempts :
            Took1(<<d, w, k>>)' =>
              /\ Took1(<<d, w, k>>) /\ answer'[<<d, w, k>>] = answer[<<d, w, k>>]
              /\ call[<<d, w, k>>] # Nil /\ call'[<<d, w, k>>] = call[<<d, w, k>>]
              /\ op'[d] = op[d]
<1> SUFFICES ASSUME NEW d \in Calls, NEW w \in Writes, NEW k \in Attempts, Took1(<<d, w, k>>)'
             PROVE  /\ Took1(<<d, w, k>>) /\ answer' = answer
                    /\ call[<<d, w, k>>] # Nil /\ call'[<<d, w, k>>] = call[<<d, w, k>>]
                    /\ op'[d] = op[d]
  OBVIOUS
<1>1. answer' = answer
  BY OthersSee DEF IInv
<1>2. Took1(<<d, w, k>>)
  BY <1>1 DEF Took1
<1>3. call[<<d, w, k>>] # Nil /\ op[d] # Nil /\ at[d] # "idle"
  BY <1>2, CourseFacts DEF Took1, CourseOf
<1> QED BY <1>1, <1>2, <1>3, OthersSee DEF IInv

LEMMA TookNow ==
  ASSUME IInv, NEW d \in Calls, NEW u \in Writes, NEW j \in Attempts, Answers(d, u, j)
  PROVE  /\ call[<<d, u, j>>] # Nil /\ answer[<<d, u, j>>] = Nil
         /\ Took1(<<d, u, j>>)' => Effect(d, u, j, answer'[<<d, u, j>>].res)
  BY AnswersFacts DEF IInv

LEMMA TookKept ==
  ASSUME IInv, NEW d \in Calls, NEW u \in Writes, NEW j \in Attempts, Answers(d, u, j),
         NEW c \in Calls, NEW w \in Writes, NEW k \in Attempts, Took1(<<c, w, k>>)'
  PROVE  \/ c = d /\ w = u /\ k = j
         \/ Took1(<<c, w, k>>) /\ answer'[<<c, w, k>>] = answer[<<c, w, k>>]
  BY AnswersApart DEF Took1, IInv

LEMMA TookCalled ==
  ASSUME IInv, NEW c \in Calls, NEW w \in Writes, NEW k \in Attempts, Took1(<<c, w, k>>)
  PROVE  call[<<c, w, k>>] # Nil
  BY CourseFacts DEF CourseOf, Took1

(* A PUT is of one copy, and under the version of it where there are any.  *)
LEMMA PutShape ==
  ASSUME IInv, NEW c \in Calls, NEW k \in Attempts, call[<<c, "put", k>>] # Nil
  PROVE  \E r \in Resource :
            /\ Usable(c, r) /\ PutsFrom(c, r)
            /\ call[<<c, "put", k>>].body = NewBody(op[c], r)
            /\ call[<<c, "put", k>>].match = IfMatch(r)
            /\ NewBody(op[c], r) \in Content
            /\ setup.tags => /\ call[<<c, "put", k>>].match.version = r.version
                             /\ call[<<c, "put", k>>].match.form = "tag"
<1>1. "put" \in Writes
  BY DEF Writes
<1>2. PICK r \in Resource :
        /\ Usable(c, r) /\ PutsFrom(c, r)
        /\ call[<<c, "put", k>>] = [kind |-> "put", id |-> Group, body |-> NewBody(op[c], r), match |-> IfMatch(r)]
        /\ NewBody(op[c], r) \in Content
  BY <1>1, CallShape
<1>3. call[<<c, "put", k>>].body = NewBody(op[c], r) /\ call[<<c, "put", k>>].match = IfMatch(r)
  BY <1>2
<1>4. setup.tags => IfMatch(r) = [form |-> "tag", version |-> r.version]
  BY DEF IfMatch, TagOf
<1> QED BY <1>2, <1>3, <1>4

LEMMA SpentClient ==
  ASSUME IInv, NEW c \in Calls, ClientStep(c)
  PROVE  Spent'
<1>1. items' = items /\ setup' = setup
  BY OthersSee DEF IInv
<1>2. "delete" \in Writes /\ "put" \in Writes /\ Spent
  BY DEF Writes, IInv
<1>3. ASSUME NEW d \in Calls, NEW k \in Attempts
      PROVE  /\ Took1(<<d, "delete", k>>)' => items'[Group] = Nil
             /\ setup'.tags /\ Took1(<<d, "put", k>>)' /\ items'[Group] # Nil =>
                  call'[<<d, "put", k>>].match.version < items'[Group].version
  <2>1. Took1(<<d, "delete", k>>)' => items'[Group] = Nil
    BY <1>1, <1>2, TookBefore DEF Spent
  <2>2. Took1(<<d, "put", k>>)' => Took1(<<d, "put", k>>) /\ call'[<<d, "put", k>>] = call[<<d, "put", k>>]
    BY <1>2, TookBefore
  <2> QED BY <1>1, <1>2, <2>1, <2>2 DEF Spent
<1> QED BY <1>3 DEF Spent

LEMMA SpentTarget ==
  ASSUME IInv, NEW c \in Calls, NEW w \in Writes, NEW k \in Attempts, Answers(c, w, k)
  PROVE  Spent'
<1> DEFINE x == <<c, w, k>>
<1> "delete" \in Writes /\ "put" \in Writes
  BY DEF Writes
<1>0. /\ UNCHANGED <<call, setup>> /\ Spent
      /\ call[x] # Nil /\ answer[x] = Nil
      /\ answer'[x].res \in Resource \cup {Nil}
      /\ Took1(x)' => Effect(c, w, k, answer'[x].res)
  BY AnswersFacts DEF IInv
<1>1. ItemsGoOn /\ items[Group] \in Resource \cup {Nil}
  BY AnswersItems, CallsAssumption DEF IInv, TypeOK
<1>2. items[Group] # Nil => items[Group].version \in Nat
  BY <1>1 DEF Resource
<1>3. ASSUME NEW d \in Calls, NEW l \in Attempts, Took1(<<d, "delete", l>>)'
      PROVE  items'[Group] = Nil
  <2>1. CASE <<d, "delete", l>> = x
    <3>1. w = "delete" /\ Effect(c, w, k, answer'[x].res)
      BY <1>0, <1>3, <2>1
    <3> QED BY <1>0, <3>1, EffectItems
  <2>2. CASE <<d, "delete", l>> # x
    <3>1. Took1(<<d, "delete", l>>)
      BY <1>3, <2>2, TookKept
    <3>2. items[Group] = Nil
      BY <1>0, <3>1 DEF Spent
    <3> QED BY <1>1, <3>2 DEF ItemsGoOn
  <2> QED BY <2>1, <2>2
<1>4. ASSUME setup.tags, NEW d \in Calls, NEW l \in Attempts, Took1(<<d, "put", l>>)', items'[Group] # Nil
      PROVE  call[<<d, "put", l>>].match.version < items'[Group].version
  <2>0. items[Group] # Nil
    BY <1>1, <1>4 DEF ItemsGoOn
  <2>1. CASE <<d, "put", l>> = x
    <3>1. w = "put" /\ d = c /\ l = k
      BY <2>1
    <3>2. Effect(c, "put", k, answer'[x].res) /\ items'[Group] = answer'[x].res
      BY <1>0, <1>4, <3>1, EffectItems
    <3>3. Matches(call[x].match, items[Group])
          /\ answer'[x].res = [attrs |-> Merge(call[x].body, items[Group].attrs), version |-> items[Group].version + 1]
      BY <3>1, <3>2 DEF Effect
    <3>4. items'[Group].version = items[Group].version + 1
      BY <3>2, <3>3
    <3>5. call[x].match.version = items[Group].version
      BY <1>0, <1>4, <3>1, <3>3, PutShape DEF Matches
    <3> QED BY <1>2, <2>0, <2>1, <3>4, <3>5
  <2>2. CASE <<d, "put", l>> # x
    <3>1. Took1(<<d, "put", l>>)
      BY <1>4, <2>2, TookKept
    <3>2. call[<<d, "put", l>>].match.version < items[Group].version
      BY <1>0, <1>4, <2>0, <3>1 DEF Spent
    <3>3. call[<<d, "put", l>>].match.version \in Nat
      BY <1>4, <3>1, TookCalled, PutShape DEF Resource
    <3> QED BY <1>1, <1>2, <1>4, <2>0, <3>2, <3>3 DEF ItemsGoOn
  <2> QED BY <2>1, <2>2
<1> QED BY <1>0, <1>3, <1>4 DEF Spent

(* What could take effect a second time does not.                          *)
LEMMA SecondEffect ==
  ASSUME IInv, setup.tags, ~setup.replays, NEW c \in Calls,
         NEW w \in Writes, NEW k \in Attempts, NEW res,
         call[<<c, w, k>>] # Nil, answer[<<c, w, k>>] = Nil, Effect(c, w, k, res),
         NEW v \in Writes, NEW l \in Attempts, Took1(<<c, v, l>>)
  PROVE  FALSE
<1>1. call[<<c, v, l>>] # Nil /\ ~Refused(<<c, v, l>>) /\ ~Refused(<<c, w, k>>)
  BY TookCalled DEF Refused, Took1
<1>2. op[c] \in Op /\ w \in StagesOf(op[c].kind) /\ v \in StagesOf(op[c].kind)
  BY <1>1, CallShape
<1>3. w = v \/ (w = "patch" /\ v = "put") \/ (w = "put" /\ v = "patch")
  BY <1>2, OpFields DEF StagesOf, Writes
<1>4. NoneTwice(c, "post") /\ NoneTwice(c, "patch") /\ NoneAfterPatch(c)
  BY DEF IInv, RepeatsRefused
<1>5. CASE w = v /\ w \in {"post", "patch"}
  <2>1. k # l
    BY <1>5 DEF Took1
  <2>2. k < l \/ l < k
    BY <2>1 DEF Attempts
  <2> QED BY <1>1, <1>4, <1>5, <2>2 DEF NoneTwice
<1>6. CASE w = "delete" /\ v = "delete"
  <2>1. items[Group] = Nil
    BY <1>6 DEF IInv, Spent
  <2> QED BY <1>6, <2>1 DEF Effect
<1>7. CASE w = "put" /\ v = "put"
  <2>1. items[Group] # Nil /\ Matches(call[<<c, "put", k>>].match, items[Group])
    BY <1>7 DEF Effect
  <2>2. PICK r \in Resource :
          /\ PutsFrom(c, r)
          /\ call[<<c, "put", k>>].match = IfMatch(r)
          /\ call[<<c, "put", k>>].match.version = r.version /\ call[<<c, "put", k>>].match.form = "tag"
    BY <1>7, PutShape
  <2>3. call[<<c, "put", l>>].match = IfMatch(r)
    <3>1. call[<<c, "put", l>>] = Request(op[c], <<c, "put", l>>, r)
      BY <1>1, <1>7, <2>2 DEF PutsFrom
    <3>2. call[<<c, "put", l>>] = [kind |-> "put", id |-> Group, body |-> NewBody(op[c], r), match |-> IfMatch(r)]
      BY <3>1 DEF Request
    <3> QED BY <3>2
  <2>4. call[<<c, "put", l>>].match.version < items[Group].version
    BY <1>7, <2>1 DEF IInv, Spent
  <2>5. r.version < items[Group].version /\ r.version = items[Group].version
    BY <2>1, <2>2, <2>3, <2>4 DEF Matches
  <2>6. items[Group] \in Resource
    BY <2>1, CallsAssumption DEF IInv, TypeOK
  <2> QED BY <2>5, <2>6 DEF Resource
<1>8. CASE w = "patch" /\ v = "put"
  BY <1>1, <1>4, <1>8 DEF NoneAfterPatch
<1>9. CASE w = "put" /\ v = "patch"
  BY <1>1, <1>4, <1>9 DEF NoneAfterPatch
<1> QED BY <1>3, <1>5, <1>6, <1>7, <1>8, <1>9 DEF Writes

LEMMA TookOnceStep ==
  ASSUME IInv, StepKinds
  PROVE  TookOnce'
<1>0. setup' = setup
  <2>1. ASSUME NEW c \in Calls, ClientStep(c) PROVE setup' = setup
    BY <2>1, OthersSee DEF IInv
  <2>2. ASSUME NEW c \in Calls, NEW w \in Writes, NEW k \in Attempts, Answers(c, w, k)
        PROVE  setup' = setup
    BY <2>2, AnswersFacts DEF IInv
  <2> QED BY <2>1, <2>2 DEF StepKinds
<1> SUFFICES ASSUME setup.tags, ~setup.replays, NEW c \in Calls,
                    NEW w \in Writes, NEW k \in Attempts, Took1(<<c, w, k>>)',
                    NEW v \in Writes, NEW l \in Attempts, Took1(<<c, v, l>>)'
             PROVE  <<c, w, k>> = <<c, v, l>>
  <2>1. \A x \in Exchanges : x = <<x[1], x[2], x[3]>> /\ x[1] \in Calls /\ x[2] \in Writes /\ x[3] \in Attempts
    BY DEF Exchanges, Attempts
  <2>2. ASSUME NEW x \in Exchanges, NEW y \in Exchanges, x[1] = y[1], Took1(x)', Took1(y)',
               setup.tags, ~setup.replays
        PROVE  x = y
    <3>1. /\ x = <<x[1], x[2], x[3]>> /\ y = <<x[1], y[2], y[3]>> /\ x[1] \in Calls
          /\ x[2] \in Writes /\ x[3] \in Attempts /\ y[2] \in Writes /\ y[3] \in Attempts
      BY <2>1, <2>2
    <3> QED BY <2>2, <3>1
  <2> QED BY <1>0, <2>2 DEF TookOnce
<1>1. ASSUME Took1(<<c, w, k>>), Took1(<<c, v, l>>) PROVE <<c, w, k>> = <<c, v, l>>
  <2>1. <<c, w, k>> \in Exchanges /\ <<c, v, l>> \in Exchanges /\ <<c, w, k>>[1] = <<c, v, l>>[1]
    BY DEF Exchanges, Attempts
  <2> QED BY <1>1, <2>1 DEF IInv, TookOnce
<1>2. CASE \E d \in Calls : ClientStep(d)
  BY <1>1, <1>2, TookBefore
<1>3. ASSUME NEW d \in Calls, NEW u \in Writes, NEW j \in Attempts, Answers(d, u, j)
      PROVE  <<c, w, k>> = <<c, v, l>>
  <2>1. call[<<d, u, j>>] # Nil /\ answer[<<d, u, j>>] = Nil
    BY <1>3, TookNow
  <2>2. (c = d /\ w = u /\ k = j) \/ Took1(<<c, w, k>>)
    BY <1>3, TookKept
  <2>3. (c = d /\ v = u /\ l = j) \/ Took1(<<c, v, l>>)
    BY <1>3, TookKept
  <2>4. CASE c = d /\ w = u /\ k = j /\ Took1(<<c, v, l>>)
    <3>1. Effect(c, w, k, answer'[<<c, w, k>>].res)
      BY <1>3, <2>4, TookNow
    <3> QED BY <2>1, <2>4, <3>1, SecondEffect
  <2>5. CASE Took1(<<c, w, k>>) /\ c = d /\ v = u /\ l = j
    <3>1. Effect(c, v, l, answer'[<<c, v, l>>].res)
      BY <1>3, <2>5, TookNow
    <3> QED BY <2>1, <2>5, <3>1, SecondEffect
  <2> QED BY <1>1, <2>2, <2>3, <2>4, <2>5
<1> QED BY <1>2, <1>3 DEF StepKinds

(* The resource a call's write left.                                       *)
LEMMA EffectShows ==
  ASSUME IInv, NEW c \in Calls, NEW w \in {"patch", "put"}, NEW k \in Attempts, NEW res \in Resource \cup {Nil},
         call[<<c, w, k>>] # Nil, Effect(c, w, k, res), op[c].kind \in Patches
  PROVE  /\ setup.tags \/ op[c].p.attr \notin Immutable => Shows(c, res)
         /\ setup.tags /\ w = "put" =>
              items'[Group] = res /\ res.attrs = Patched(op[c].p, items[Group].attrs)
<1> DEFINE x == <<c, w, k>>
           r == items[Group]
           p == op[c].p
<1>1. /\ w \in Writes /\ r # Nil /\ r \in Resource /\ r.attrs \in Content
      /\ p.attr \in Attrs /\ p.op \in PatchOp(Values)
  <2>1. w \in Writes /\ op[c] \in Op
    BY CallShape, StageTypes DEF Writes
  <2>2. r # Nil
    BY DEF Effect
  <2> QED BY <2>1, <2>2, OpFields, CallsAssumption DEF IInv, TypeOK, Resource
<1>2. Patched(p, r.attrs) \in Content
  BY <1>1, PatchedType
<1>3. CASE w = "patch"
  <2>1. res.attrs = Patched(p, r.attrs)
    BY <1>3 DEF Effect
  <2>2. Patched(p, r.attrs) = Patched(p, Patched(p, r.attrs))
    BY <1>1, <1>2, PatchedTwice
  <2> QED BY <1>3, <2>1, <2>2 DEF Shows
<1>4. CASE w = "put"
  <2>1. /\ Matches(call[x].match, r)
        /\ res = [attrs |-> Merge(call[x].body, r.attrs), version |-> r.version + 1]
        /\ items' = [items EXCEPT ![Group] = res]
    BY <1>4 DEF Effect
  <2>2. items'[Group] = res /\ res.attrs = Merge(call[x].body, r.attrs)
    BY <2>1, CallsAssumption DEF IInv, TypeOK
  <2>3. PICK s \in Resource :
          /\ Usable(c, s) /\ call[x].body = NewBody(op[c], s)
          /\ setup.tags => call[x].match.version = s.version /\ call[x].match.form = "tag"
    BY <1>4, PutShape
  <2>4. call[x].body = Patched(p, s.attrs) /\ s.attrs \in Content /\ ApplyError(p, s.attrs) = "none"
    BY <2>3 DEF NewBody, Patches, Resource, Usable
  <2>5. CASE setup.tags
    <3>1. r.version = s.version
      BY <2>1, <2>3, <2>5 DEF Matches
    <3>2. r = s
      BY <1>1, <2>3, <2>5, <3>1 DEF Usable
    <3>3. res.attrs = Patched(p, r.attrs)
      BY <1>1, <2>2, <2>4, <3>2, MergePatched
    <3>4. Patched(p, r.attrs) = Patched(p, Patched(p, r.attrs))
      BY <1>1, <1>2, PatchedTwice
    <3> QED BY <2>2, <3>3, <3>4 DEF Shows
  <2>6. CASE ~setup.tags /\ p.attr \notin Immutable
    <3>1. Patched(p, s.attrs) \in Content /\ ~PatchRefused(p, s.attrs)
      BY <1>1, <2>4, PatchedType DEF ApplyError
    <3>2. p.attr \notin ReadOnly
      BY <3>1 DEF PatchRefused
    <3>3. Merge(Patched(p, s.attrs), r.attrs) \in Content
      BY <1>1, <3>1, MergeType
    <3>4. Merge(Patched(p, s.attrs), r.attrs)[p.attr] = Patched(p, s.attrs)[p.attr]
      BY <1>1, <2>6, <3>1, <3>2, MergeWrites
    <3>5. res.attrs = Patched(p, res.attrs)
      BY <1>1, <2>2, <2>4, <3>3, <3>4, PatchedTwice
    <3> QED BY <2>6, <3>5 DEF Shows
  <2> QED BY <2>5, <2>6
<1> QED BY <1>3, <1>4

LEMMA SetupStays ==
  ASSUME IInv, StepKinds
  PROVE  setup' = setup
<1>1. ASSUME NEW c \in Calls, ClientStep(c) PROVE setup' = setup
  BY <1>1, OthersSee DEF IInv
<1>2. ASSUME NEW c \in Calls, NEW w \in Writes, NEW k \in Attempts, Answers(c, w, k)
      PROVE  setup' = setup
  BY <1>2, AnswersFacts DEF IInv
<1> QED BY <1>1, <1>2 DEF StepKinds

LEMMA PatchesShowStep ==
  ASSUME IInv, StepKinds
  PROVE  PatchesShow'
<1> SUFFICES ASSUME NEW c \in Calls, NEW w \in {"patch", "put"}, NEW k \in Attempts, Took1(<<c, w, k>>)',
                    op'[c].kind \in Patches, setup.tags \/ op'[c].p.attr \notin Immutable
             PROVE  Shows(c, answer[<<c, w, k>>].res)'
  BY SetupStays DEF PatchesShow
<1>0. w \in Writes
  BY DEF Writes
<1>1. ASSUME Took1(<<c, w, k>>), answer'[<<c, w, k>>] = answer[<<c, w, k>>], op'[c] = op[c]
      PROVE  Shows(c, answer[<<c, w, k>>].res)'
  <2>1. Shows(c, answer[<<c, w, k>>].res)
    BY <1>1 DEF IInv, PatchesShow
  <2> QED BY <1>1, <2>1 DEF Shows
<1>2. ASSUME NEW d \in Calls, ClientStep(d)
      PROVE  Shows(c, answer[<<c, w, k>>].res)'
  BY <1>0, <1>1, <1>2, TookBefore
<1>3. ASSUME NEW d \in Calls, NEW v \in Writes, NEW l \in Attempts, Answers(d, v, l)
      PROVE  Shows(c, answer[<<c, w, k>>].res)'
  <2>0. op' = op
    BY <1>3, AnswersFacts DEF IInv
  <2>1. CASE c = d /\ w = v /\ k = l
    <3>1. /\ call[<<c, w, k>>] # Nil /\ Effect(c, w, k, answer'[<<c, w, k>>].res)
          /\ answer'[<<c, w, k>>].res \in Resource \cup {Nil}
      BY <1>3, <2>1, AnswersFacts DEF IInv
    <3>2. Shows(c, answer'[<<c, w, k>>].res)
      BY <2>0, <3>1, EffectShows
    <3> QED BY <2>0, <3>2 DEF Shows
  <2> QED BY <1>0, <1>1, <1>3, <2>0, <2>1, TookKept
<1> QED BY <1>2, <1>3 DEF StepKinds

-----------------------------------------------------------------------------
(* What a call reports.                                                    *)

LEMMA EvidenceLasts ==
  ASSUME IInv, StepKinds, NEW c \in Calls, Evidence(c), op'[c] = op[c]
  PROVE  Evidence(c)'
<1>1. setup' = setup
  BY SetupStays
<1>2. CASE \E x \in Took(c) :
              op[c].kind \in Patches /\ (setup.tags \/ op[c].p.attr \notin Immutable) => Shows(c, answer[x].res)
  <2>1. PICK x \in Took(c) :
          op[c].kind \in Patches /\ (setup.tags \/ op[c].p.attr \notin Immutable) => Shows(c, answer[x].res)
    BY <1>2
  <2>2. x \in Exchanges /\ x[1] = c /\ answer[x] # Nil /\ answer[x].err = "none"
    BY DEF Took
  <2>3. answer'[x] = answer[x]
    BY <2>2, AnswersLast
  <2>4. x \in Took(c)'
    BY <2>2, <2>3 DEF Took
  <2>5. op'[c].kind \in Patches /\ (setup'.tags \/ op'[c].p.attr \notin Immutable) => Shows(c, answer[x].res)'
    BY <1>1, <2>1, <2>3 DEF Shows
  <2> QED BY <2>4, <2>5 DEF Evidence
<1>3. CASE /\ op[c].kind = "removeMember"
           /\ \E x \in Exchanges : x[1] = c /\ x[2] = "patch" /\ answer[x] # Nil /\ answer[x].err = "noTarget"
  <2>1. PICK x \in Exchanges : x[1] = c /\ x[2] = "patch" /\ answer[x] # Nil /\ answer[x].err = "noTarget"
    BY <1>3
  <2>2. answer'[x] = answer[x]
    BY <2>1, AnswersLast
  <2> QED BY <1>3, <2>1, <2>2 DEF Evidence
<1> QED BY <1>2, <1>3 DEF Evidence

(* What was reported stays true; before the end nothing is.                *)
LEMMA BackedStays ==
  ASSUME IInv, StepKinds, NEW c \in Calls, op'[c] = op[c], at'[c] = at[c], result'[c] = result[c],
         \A k \in Attempts : call'[<<c, "post", k>>] = call[<<c, "post", k>>]
  PROVE  Backed(c)'
<1>1. "post" \in Writes /\ setup' = setup /\ Backed(c)
  BY SetupStays DEF Writes, IInv, OutcomesBacked
<1>2. \A k \in Attempts : Refused(<<c, "post", k>>) => Refused(<<c, "post", k>>)'
  BY <1>1, RefusedLasts
<1>3. Evidence(c) => Evidence(c)'
  BY EvidenceLasts
<1> QED BY <1>1, <1>2, <1>3 DEF Backed

LEMMA BackedUnderway ==
  ASSUME IInv, StepKinds, NEW c \in Calls, at[c] # "returned", result' = result, at'[c] \notin {"returned"},
         at'[c] = "get" /\ op'[c].kind # "get" => Evidence(c)'
  PROVE  Backed(c)'
<1>1. result'[c] = Nil
  BY DEF IInv, TypeOK
<1>2. Nil \notin {"none", "exhausted"} \cup Refusals
  BY CallsAssumption DEF Outcome, Errors
<1> QED BY <1>1, <1>2 DEF Backed

LEMMA BackedClient ==
  ASSUME IInv, NEW c \in Calls, ClientStep(c)
  PROVE  OutcomesBacked'
<1>0. TypeOK /\ 1 \in Attempts /\ "post" \in Writes /\ "put" \in Writes /\ StepKinds
  BY CallsAssumption DEF IInv, Attempts, Writes, StepKinds
<1>1. ASSUME NEW d \in Calls \ {c} PROVE Backed(d)'
  BY <1>0, OthersSee, BackedStays
<1> SUFFICES Backed(c)'
  BY <1>1 DEF OutcomesBacked
<1>2. ASSUME NEW stage \in Writes, NEW k \in Attempts, NEW r, Sends(c, stage, k, r), at[c] # "returned"
      PROVE  Backed(c)'
  <2>1. at'[c] = stage /\ result' = result
    BY <1>0, <1>2, SendsFacts
  <2> QED BY <1>0, <1>2, <2>1, BackedUnderway, StageTypes DEF Writes
<1>3. CASE BeginsWriting(c)
  <2>1. PICK stage \in Writes, r \in Resource \cup {Nil} : at[c] = "idle" /\ Sends(c, stage, 1, r)
    BY <1>3 DEF BeginsWriting
  <2> QED BY <1>0, <1>2, <2>1
<1>4. CASE BeginsReading(c)
  <2>1. PICK o \in Op, stage \in Reads :
          /\ at[c] = "idle" /\ (stage = "get" => o.kind = "get")
          /\ op' = [op EXCEPT ![c] = o] /\ Visit(c, stage)
    BY <1>4 DEF BeginsReading
  <2>2. op'[c] = o /\ at'[c] = stage /\ result' = result
    BY <1>0, <2>1 DEF TypeOK, Visit
  <2> QED BY <1>0, <2>1, <2>2, BackedUnderway, StageTypes
<1>5. CASE Resends(c)
  <2>1. at[c] \in Writes /\ Sends(c, at[c], attempt[c] + 1, copy[c])
    BY <1>5 DEF Resends
  <2>2. attempt[c] + 1 \in Attempts /\ at[c] # "returned"
    BY <2>1, StageTypes DEF Sends
  <2> QED BY <1>2, <2>1, <2>2
<1>6. CASE GoesOn(c)
  <2>1. /\ at[c] = "patch" /\ op' = op /\ result' = result
        /\ at'[c] = "read" \/ (at'[c] = "get" /\ Evidence(c))
    BY <1>0, <1>6 DEF GoesOn, Visit, TypeOK
  <2>2. Evidence(c) => Evidence(c)'
    BY <1>0, <2>1, EvidenceLasts
  <2> QED BY <1>0, <2>1, <2>2, BackedUnderway
<1>7. CASE PutsBack(c)
  <2>1. at[c] = "read" /\ Sends(c, "put", 1, items[Group])
    BY <1>7 DEF PutsBack
  <2> QED BY <1>0, <1>2, <2>1
<1>8. CASE Returns(c)
  <2>1. PICK err \in Outcome :
          /\ at[c] \in Writes \cup Reads
          /\ Return(c, err)
          /\ err = "none" /\ op[c].kind # "get" => Evidence(c)
          /\ at[c] = "post" /\ ~setup.replays /\ err \in Refusals \cup {"exhausted"} =>
               Refused(<<c, "post", attempt[c]>>)
    BY <1>8 DEF Returns
  <2>2. at'[c] = "returned" /\ result'[c] = err /\ op' = op /\ call' = call /\ setup' = setup
    BY <1>0, <2>1 DEF Return, target, TypeOK
  <2>3. Evidence(c) => Evidence(c)'
    BY <1>0, <2>2, EvidenceLasts
  <2>4. ASSUME op[c] # Nil, op[c].kind = "create", ~setup.replays, err \in Refusals \cup {"exhausted"},
               NEW k \in Attempts, call[<<c, "post", k>>] # Nil
        PROVE  Refused(<<c, "post", k>>)'
    <3>1. at[c] = "post"
      BY <2>1, <2>4, CourseFacts, StageTypes DEF CourseOf, StagesOf
    <3>2. Refused(<<c, "post", attempt[c]>>) /\ NoneTwice(c, "post")
      BY <2>1, <2>4, <3>1 DEF IInv, RepeatsRefused
    <3>3. Refused(<<c, "post", k>>)
      BY <1>0, <2>4, <3>1, <3>2, RepeatsAgain
    <3> QED BY <1>0, <3>3, RefusedLasts
  <2> QED BY <2>1, <2>2, <2>3, <2>4 DEF Backed
<1> QED BY <1>3, <1>4, <1>5, <1>6, <1>7, <1>8 DEF ClientStep

LEMMA BackedTarget ==
  ASSUME IInv, NEW c \in Calls, NEW w \in Writes, NEW k \in Attempts, Answers(c, w, k)
  PROVE  OutcomesBacked'
<1>1. UNCHANGED <<call, op, at, result>> /\ StepKinds
  BY AnswersFacts DEF IInv, StepKinds
<1>2. ASSUME NEW d \in Calls PROVE Backed(d)'
  BY <1>1, BackedStays
<1> QED BY <1>2 DEF OutcomesBacked

-----------------------------------------------------------------------------
(* The theorems.                                                           *)

LEMMA NextIInv ==
  ASSUME IInv, [Next]_vars
  PROVE  IInv'
<1>1. CASE UNCHANGED vars
  <2> USE <1>1 DEF vars, target, client
  <2>1. TypeOK'
    BY DEF IInv, TypeOK
  <2>2. OnCourse'
    BY DEF IInv, OnCourse, CourseOf, Behind
  <2>3. SentAsAsked'
    BY RequestRigid DEF IInv, SentAsAsked
  <2>4. PutsOneCopy'
    BY OneCopyStays DEF PutsOneCopy, ItemsGoOn
  <2>5. RepeatsRefused'
    BY DEF IInv, RepeatsRefused, NoneTwice, NoneAfterPatch, Refused
  <2>6. Spent'
    BY DEF IInv, Spent, Took1
  <2>7. TookOnce'
    BY DEF IInv, TookOnce, Took1
  <2>8. PatchesShow'
    BY DEF IInv, PatchesShow, Took1, Shows
  <2>9. OutcomesBacked'
    BY DEF IInv, OutcomesBacked, Backed, Evidence, Took, Shows, Refused
  <2> QED BY <2>1, <2>2, <2>3, <2>4, <2>5, <2>6, <2>7, <2>8, <2>9 DEF IInv
<1>2. CASE Next
  <2>1. StepKinds
    BY <1>2, NextKinds
  <2>2. TookOnce' /\ PatchesShow'
    BY <2>1, TookOnceStep, PatchesShowStep
  <2>3. ASSUME NEW c \in Calls, ClientStep(c) PROVE IInv'
    BY <2>2, <2>3, TypeClient, CourseClient, SentClient, PutsClient, RepeatsClient, SpentClient,
       BackedClient DEF IInv
  <2>4. ASSUME NEW c \in Calls, NEW w \in Writes, NEW k \in Attempts, Answers(c, w, k) PROVE IInv'
    BY <2>2, <2>4, TypeTarget, CourseTarget, SentTarget, PutsTarget, RepeatsTarget, SpentTarget,
       BackedTarget DEF IInv
  <2> QED BY <2>1, <2>3, <2>4 DEF StepKinds
<1> QED BY <1>1, <1>2

LEMMA InvariantHolds == Spec => []IInv
  BY InitIInv, NextIInv, PTL DEF Spec

(* Every variable of the client and of the target keeps its type: attempts *)
(* within the retry policy, and an outcome when, and only when, the call   *)
(* has returned.                                                           *)
THEOREM TypeCorrect == Spec => []TypeOK
<1>1. IInv => TypeOK
  BY DEF IInv
<1> QED BY <1>1, InvariantHolds, PTL

(* However a call is retried and however late its requests are served, at  *)
(* most one of them takes effect, where the target hands out versions and  *)
(* the program does not ask for replays (do, RetryConfig.retryable).       *)
THEOREM EffectsAtMostOnce == Spec => []AtMostOnce
<1>1. IInv => AtMostOnce
  <2> SUFFICES ASSUME IInv, setup.tags, ~setup.replays, NEW c \in Calls
               PROVE  Cardinality(Took(c)) <= 1
    BY DEF AtMostOnce
  <2>1. CASE Took(c) = {}
    BY <2>1, FS_EmptySet
  <2>2. CASE Took(c) # {}
    <3>1. PICK x \in Took(c) : TRUE
      BY <2>2
    <3>2. ASSUME NEW y \in Took(c) PROVE y = x
      <4>1. x \in Exchanges /\ y \in Exchanges /\ x[1] = y[1] /\ Took1(x) /\ Took1(y)
        BY <3>1, <3>2 DEF Took, Took1
      <4> QED BY <4>1 DEF IInv, TookOnce
    <3>3. Took(c) = {x}
      BY <3>1, <3>2
    <3>4. Cardinality({x}) = 1
      BY FS_Singleton
    <3> QED BY <3>3, <3>4
  <2> QED BY <2>1, <2>2
<1> QED BY <1>1, InvariantHolds, PTL

(* A call that reports success has done, or found done, what it was asked; *)
(* a Create that reports a refusal or spent retries has not created and    *)
(* never will (do, Patch, replaceViaPatch, RemoveMember).                  *)
THEOREM OutcomesCorrect == Spec => []OutcomesAreTrue
<1>1. IInv => OutcomesAreTrue
  <2> SUFFICES ASSUME IInv, NEW c \in Calls, result[c] # Nil
               PROVE  FailedCreateIsFinal(c) /\ SuccessIsReal(c)
    BY DEF OutcomesAreTrue
  <2>0. Backed(c) /\ CourseOf(c) /\ op[c] # Nil
    <3>1. Backed(c) /\ CourseOf(c) /\ at[c] = "returned"
      BY DEF IInv, OutcomesBacked, OnCourse, TypeOK
    <3> QED BY <3>1 DEF CourseOf
  <2>1. ASSUME op[c].kind = "create", ~setup.replays, result[c] \in Refusals \cup {"exhausted"}
        PROVE  Took(c) = {}
    <3> SUFFICES ASSUME NEW x \in Took(c) PROVE FALSE
      OBVIOUS
    <3>1. x \in Exchanges /\ x[1] = c /\ answer[x] # Nil /\ answer[x].err = "none"
      BY DEF Took
    <3>2. PICK w \in Writes, k \in Attempts : x = <<c, w, k>>
      BY <3>1 DEF Exchanges, Attempts
    <3>3. call[<<c, w, k>>] # Nil /\ w \in StagesOf(op[c].kind)
      BY <2>0, <3>1, <3>2 DEF CourseOf
    <3>4. w = "post"
      BY <2>1, <3>3 DEF StagesOf
    <3>5. Refused(<<c, "post", k>>)
      BY <2>0, <2>1, <3>3, <3>4 DEF Backed
    <3> QED BY <3>1, <3>2, <3>4, <3>5 DEF Refused
  <2>2. result[c] = "none" /\ op[c].kind # "get" => Evidence(c)
    BY <2>0 DEF Backed
  <2> QED BY <2>1, <2>2 DEF FailedCreateIsFinal, SuccessIsReal, Evidence, Patches, Shows
<1> QED BY <1>1, InvariantHolds, PTL

(* The fallback of a PATCH, whenever its PUT is served, does to the        *)
(* resource as it then is what the PATCH would have: no change between its *)
(* read and its write is undone (replaceViaPatch, ifMatch).                *)
THEOREM FallbackCorrect == Spec => FallbackIsPatch
<1> DEFINE Faithful ==
      \A x \in Exchanges :
         /\ setup.tags /\ x[2] = "put" /\ op[x[1]] # Nil /\ op[x[1]].kind # "replace"
         /\ answer[x] = Nil /\ answer'[x] # Nil /\ answer'[x].err = "none"
         => items'[Group].attrs = Patched(op[x[1]].p, items[Group].attrs)
<1>1. ASSUME IInv, [Next]_vars PROVE [Faithful]_vars
  <2> SUFFICES ASSUME IInv, Next, NEW x \in Exchanges,
                      setup.tags, x[2] = "put", op[x[1]].kind # "replace",
                      answer[x] = Nil, answer'[x] # Nil, answer'[x].err = "none"
               PROVE  items'[Group].attrs = Patched(op[x[1]].p, items[Group].attrs)
    BY <1>1
  <2>1. PICK c \in Calls, k \in Attempts : x = <<c, "put", k>>
    BY DEF Exchanges, Attempts
  <2>2. Took1(<<c, "put", k>>)' /\ ~Took1(<<c, "put", k>>) /\ "put" \in Writes
    BY <2>1, StageTypes DEF Took1
  <2>3. StepKinds
    BY NextKinds
  <2>4. ~\E d \in Calls : ClientStep(d)
    BY <2>2, TookBefore
  <2>5. PICK d \in Calls, w \in Writes, l \in Attempts : Answers(d, w, l)
    BY <2>3, <2>4 DEF StepKinds
  <2>6. d = c /\ w = "put" /\ l = k
    BY <2>2, <2>5, TookKept
  <2>7. /\ call[<<c, "put", k>>] # Nil /\ Effect(c, "put", k, answer'[<<c, "put", k>>].res)
        /\ answer'[<<c, "put", k>>].res \in Resource \cup {Nil}
    BY <2>2, <2>5, <2>6, AnswersFacts DEF IInv
  <2>8. op[c].kind \in Patches
    <3>1. op[c] \in Op /\ "put" \in StagesOf(op[c].kind) /\ op[c].kind # "replace"
      BY <2>1, <2>2, <2>7, CallShape
    <3> QED BY <3>1, OpFields DEF StagesOf, Patches
  <2> QED BY <2>1, <2>7, <2>8, EffectShows
<1> QED BY <1>1, InvariantHolds, PTL DEF FallbackIsPatch, Spec

==============================================================================
