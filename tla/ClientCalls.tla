------------------------------ MODULE ClientCalls ------------------------------
(***************************************************************************)
(* Calls of a resource service (client/resources.go, groups.go) against a  *)
(* SCIM target, over a network that may lose, or delay without bound, each *)
(* request and its answer.  The target serves every request at one instant *)
(* (AtomicServer); a request that was sent may be served at any later      *)
(* time, or never, whether or not its call still waits for it.             *)
(*                                                                         *)
(* A call goes through stages, one HTTP request each, and do() repeats the *)
(* request of a stage under the retry policy: an exchange is a call, its   *)
(* stage and the attempt.  Waiting between attempts is left to the         *)
(* interleaving.  A GET, its retries included, is one step: it changes     *)
(* nothing, so that only the instant at which it is served matters.        *)
(***************************************************************************)
EXTENDS ResourceRules, FiniteSets

CONSTANTS
  Calls,         \* calls on the service, each by a goroutine of its own
  MaxAttempts,   \* RetryConfig.MaxAttempts
  Group,         \* the id of a resource that exists from the start
  Start,         \* that resource
  Modes,         \* how the target may be built, see AtomicServer
  Setups,        \* the client's options and what else the target does
  Bodies, PatchOps   \* what the program creates, writes and patches

(* fallback  WithPatchFallback                                             *)
(* replays   RetryConfig.RetryNonIdempotent                                *)
(* patches   the target implements PATCH                                   *)
(* bare      it answers PATCH without a body                               *)
(* picky     it refuses to remove what is not there with noTarget          *)
(* tags      it hands out versions                                         *)
Setup == [fallback : BOOLEAN, replays : BOOLEAN, patches : BOOLEAN,
          bare : BOOLEAN, picky : BOOLEAN, tags : BOOLEAN]

Writes == {"post", "put", "delete", "patch"}
Reads  == {"get", "read"}

Exchanges == Calls \X Writes \X (1..MaxAttempts)

(* What the program asks.  RemoveMember is a PATCH with an answer of its   *)
(* own to tolerate; EnsureMember is a plain one that adds.                 *)
Op == [kind : {"create", "replace"}, body : Bodies]
      \cup [kind : {"patch"}, p : PatchOps]
      \cup [kind : {"removeMember"}, p : {p \in PatchOps : p.op.kind = "remove"}]
      \cup [kind : {"get", "delete"}]

Refusals == {"notFound", "notModified", "preconditionFailed", "uniqueness", "mutability",
             "invalidValue", "noTarget", "notImplemented"}

(* A 429 says the target did not process the request.  A 5xx, of a proxy   *)
(* or of the target, an error of the network and the HTTP client's timeout *)
(* say nothing of the request's fate: they are all "unavailable".          *)
Errors == Refusals \cup {"none", "throttled", "unavailable"}

Outcome == Errors \cup {"exhausted", "aborted"}

(* A resource a POST creates is named after the exchange that created it.  *)
ASSUME CallsAssumption ==
  /\ MaxAttempts \in Nat \ {0}
  /\ Setups \subseteq Setup
  /\ Group \in Ids /\ Start \in Resource
  /\ {x \in Exchanges : x[2] = "post"} \subseteq Ids \ {Group}
  /\ Bodies \subseteq Content /\ PatchOps \subseteq [attr : Attrs, op : PatchOp(Values)]
  /\ Nil \notin Op \cup Outcome \cup [err : Errors, res : Resource \cup {Nil}]

VARIABLES
  mode, items, used,   \* the target, as in AtomicServer
  call,       \* exchange -> the request, once sent
  answer,     \* exchange -> what the target made of it, Nil before
  setup,
  op,         \* call -> what was asked, Nil before
  at,         \* call -> its stage, "idle" before and "returned" after
  attempt,    \* call -> attempt of its stage
  copy,       \* call -> the resource its write is computed from
  result      \* call -> the error it returned, or "none"; Nil before

target == <<mode, items, used, call, answer>>
client == <<setup, op, at, attempt, copy, result>>
vars   == <<target, client>>

Target == INSTANCE AtomicServer WITH Requests <- Exchanges

Init ==
  /\ mode \in Modes /\ setup \in Setups
  /\ items = [id \in Ids |-> IF id = Group THEN Start ELSE Nil]
  /\ used = {Group}
  /\ Target!Init
  /\ op = [c \in Calls |-> Nil] /\ at = [c \in Calls |-> "idle"]
  /\ attempt = [c \in Calls |-> 1]
  /\ copy = [c \in Calls |-> Nil] /\ result = [c \in Calls |-> Nil]

-----------------------------------------------------------------------------
(* Requests.                                                               *)

IfMatch_None(r) == NoMatch

(* ifMatch: the version of the copy, if the target gave it one.            *)
IfMatch(r) == IF setup.tags THEN TagOf(r) ELSE NoMatch

(* Replace writes the program's resource, the fallback its own patch.Apply. *)
NewBody(o, r) == IF o.kind = "replace" THEN o.body ELSE Patched(o.p, r.attrs)

Request(o, x, r) ==
  CASE x[2] = "post"   -> [kind |-> "create", id |-> x, body |-> o.body]
    [] x[2] = "put"    -> [kind |-> "put", id |-> Group, body |-> NewBody(o, r), match |-> IfMatch(r)]
    [] x[2] = "patch"  -> [kind |-> "patch", id |-> Group, p |-> o.p, match |-> NoMatch]
    [] x[2] = "delete" -> [kind |-> "delete", id |-> Group, match |-> NoMatch]

(* Client.attempt: the request of call c's stage, for what it was asked and *)
(* the copy it works from, is on its way to the target.                    *)
Send(c, stage, k, o, r) ==
  LET x == <<c, stage, k>>
  IN  /\ call' = [call EXCEPT ![x] = Request(o, x, r)]
      /\ Target!Arrive(x)
      /\ at' = [at EXCEPT ![c] = stage]
      /\ attempt' = [attempt EXCEPT ![c] = k]
      /\ UNCHANGED <<mode, setup, result>>

(* A GET of the resource comes next.                                       *)
Visit(c, stage) ==
  /\ at' = [at EXCEPT ![c] = stage]
  /\ attempt' = [attempt EXCEPT ![c] = 1]
  /\ UNCHANGED <<target, setup, result>>

Return_SilentWhenSpent(c, err) ==
  /\ at' = [at EXCEPT ![c] = "returned"]
  /\ attempt' = [attempt EXCEPT ![c] = 1]
  /\ copy' = [copy EXCEPT ![c] = Nil]
  /\ result' = [result EXCEPT ![c] = IF err = "exhausted" THEN Nil ELSE err]
  /\ UNCHANGED <<target, setup, op>>

Return(c, err) ==
  /\ at' = [at EXCEPT ![c] = "returned"]
  /\ attempt' = [attempt EXCEPT ![c] = 1]
  /\ copy' = [copy EXCEPT ![c] = Nil]
  /\ result' = [result EXCEPT ![c] = err]
  /\ UNCHANGED <<target, setup, op>>

-----------------------------------------------------------------------------
(* The call begins.  A PATCH is skipped when the capabilities, which may   *)
(* be stale or unavailable, say the target has none; a Replace is given a  *)
(* resource the program read some time before.                             *)

FirstStages(o) ==
  CASE o.kind = "create"  -> {"post"}
    [] o.kind = "replace" -> {"put"}
    [] o.kind \in {"get", "delete"} -> {o.kind}
    [] OTHER -> IF setup.fallback THEN {"patch", "read"} ELSE {"patch"}

Begin(c) ==
  /\ at[c] = "idle"
  /\ \E o \in Op : \E stage \in FirstStages(o) :
        /\ o.kind = "replace" => items[Group] # Nil
        /\ op' = [op EXCEPT ![c] = o]
        /\ copy' = [copy EXCEPT ![c] = IF o.kind = "replace" THEN items[Group] ELSE Nil]
        /\ IF stage \in Reads THEN Visit(c, stage) ELSE Send(c, stage, 1, o, copy'[c])

-----------------------------------------------------------------------------
(* do(): the retry policy.                                                 *)

Idempotent_Post(stage) == stage # "patch"

Idempotent(stage) == stage \in {"put", "delete"}

(* RetryConfig.retryable, with the default statuses.                       *)
Retryable(stage, err) ==
  \/ err = "throttled"
  \/ err = "unavailable" /\ (setup.replays \/ Idempotent(stage))

Exhausted(c) == attempt[c] >= MaxAttempts

NoReply == [err |-> "unavailable", res |-> Nil]

(* What an attempt ends with: the target's answer, or none.                *)
Replies(x) == {NoReply} \cup IF answer[x] # Nil THEN {answer[x]} ELSE {}

Retry(c) == Send(c, at[c], attempt[c] + 1, op[c], copy[c]) /\ UNCHANGED <<op, copy>>

-----------------------------------------------------------------------------
(* What a stage makes of the reply do() ends with.                         *)

Tolerated_AnyRefusal(c, reply) == op[c].kind = "removeMember" /\ reply.err \in Refusals

(* RemoveMember: a target that answers noTarget has nothing to remove.     *)
Tolerated(c, reply) == op[c].kind = "removeMember" /\ reply.err = "noTarget"

(* Patch: a target without it, found out only now.                         *)
FallsBack(reply) == setup.fallback /\ reply.err = "notImplemented"

(* patchRequest fills an empty answer with a Get.                          *)
AfterPatch(c, reply) ==
  \/ FallsBack(reply) /\ Visit(c, "read") /\ UNCHANGED <<op, copy>>
  \/ /\ Tolerated(c, reply) \/ (reply.err = "none" /\ setup.bare)
     /\ Visit(c, "get") /\ UNCHANGED <<op, copy>>
  \/ /\ ~FallsBack(reply) /\ ~Tolerated(c, reply) /\ ~(reply.err = "none" /\ setup.bare)
     /\ Return(c, reply.err)

Receive(c) ==
  /\ at[c] \in Writes
  /\ \E reply \in Replies(<<c, at[c], attempt[c]>>) :
        \/ Retryable(at[c], reply.err) /\ ~Exhausted(c) /\ Retry(c)
        \/ Retryable(at[c], reply.err) /\ Exhausted(c) /\ Return(c, "exhausted")
        \/ ~Retryable(at[c], reply.err) /\ at[c] = "patch" /\ AfterPatch(c, reply)
        \/ ~Retryable(at[c], reply.err) /\ at[c] # "patch" /\ Return(c, reply.err)

(* replaceViaPatch: apply strictly to what was read, write it back under   *)
(* its version, whether or not anything changed.                           *)
PutBack(c, r) ==
  LET err == ApplyError(op[c].p, r.attrs)
  IN  \/ err # "none" /\ Return(c, err)
      \/ /\ err = "none"
         /\ copy' = [copy EXCEPT ![c] = r]
         /\ Send(c, "put", 1, op[c], r)
         /\ UNCHANGED op

Fetch(c) ==
  /\ at[c] \in Reads
  /\ \/ Return(c, "exhausted")
     \/ items[Group] = Nil /\ Return(c, "notFound")
     \/ items[Group] # Nil /\ at[c] = "get" /\ Return(c, "none")
     \/ items[Group] # Nil /\ at[c] = "read" /\ PutBack(c, items[Group])

(* The caller's context is done, or its token source fails.                *)
Abort(c) == at[c] \in Writes \cup Reads /\ Return(c, "aborted")

-----------------------------------------------------------------------------
(* The target.  An answer nobody waits for is lost, so that a late request  *)
(* matters only if it takes effect; and one that fails with a 500 of the    *)
(* target is one that is never served.                                      *)

Awaited(x) == at[x[1]] = x[2] /\ attempt[x[1]] = x[3]

Pending(x) == call[x] # Nil /\ answer[x] = Nil

Serve(x) ==
  /\ Pending(x)
  /\ call[x].kind = "patch" => setup.patches
  /\ Target!Serve(x)
  /\ answer'[x].err # "internal"
  /\ Awaited(x) \/ answer'[x].err = "none"
  /\ UNCHANGED <<mode, client>>

(* It declines a request without processing it.                            *)
Decline(x, err) ==
  /\ Pending(x) /\ Awaited(x)
  /\ answer' = [answer EXCEPT ![x] = [err |-> err, res |-> Nil]]
  /\ UNCHANGED <<mode, items, used, call, client>>

Throttle(x) == Decline(x, "throttled")

NotImplemented(x) == x[2] = "patch" /\ ~setup.patches /\ Decline(x, "notImplemented")

NothingToRemove(x) ==
  /\ Pending(x) /\ x[2] = "patch" /\ setup.picky /\ items[Group] # Nil
  /\ LET p == call[x].p
     IN  p.op.kind = "remove" /\ p.op.value \notin items[Group].attrs[p.attr]
  /\ Decline(x, "noTarget")

Next ==
  \/ \E c \in Calls : Begin(c) \/ Receive(c) \/ Fetch(c) \/ Abort(c)
  \/ \E x \in Exchanges : Serve(x) \/ Throttle(x) \/ NotImplemented(x) \/ NothingToRemove(x)

Spec == Init /\ [][Next]_vars

-----------------------------------------------------------------------------
(* Properties.                                                             *)

(* Every variable has its type, attempts are within MaxAttempts, a call    *)
(* has an outcome once it returned and not before, and holds a resource    *)
(* only while it writes one.                                               *)
TypeOK ==
  /\ mode \in Modes /\ setup \in Setups
  /\ items \in [Ids -> Resource \cup {Nil}] /\ used \subseteq Ids
  /\ DOMAIN call = Exchanges
  /\ answer \in [Exchanges -> [err : Errors, res : Resource \cup {Nil}] \cup {Nil}]
  /\ op \in [Calls -> Op \cup {Nil}]
  /\ at \in [Calls -> Writes \cup Reads \cup {"idle", "returned"}]
  /\ attempt \in [Calls -> 1..MaxAttempts]
  /\ copy \in [Calls -> Resource \cup {Nil}]
  /\ result \in [Calls -> Outcome \cup {Nil}]
  /\ \A c \in Calls : /\ (result[c] # Nil) = (at[c] = "returned")
                      /\ (copy[c] # Nil) = (at[c] = "put")

(* The writes of a call the target carried out, those whose answer the     *)
(* call never saw included.                                                *)
Took(c) ==
  {x \in Exchanges : x[1] = c /\ answer[x] # Nil /\ answer[x].err = "none"}

(* However often a call is retried, and however late its requests arrive,  *)
(* it takes effect at most once: writes that are not idempotent are not    *)
(* replayed unless the program asks, and a PUT carries the version it      *)
(* replaces.                                                               *)
AtMostOnce ==
  setup.tags /\ ~setup.replays => \A c \in Calls : Cardinality(Took(c)) <= 1

(* What a call reports of its write is so.  A Create that reports a        *)
(* refusal, or that its retries are spent, has not created anything and    *)
(* never will.                                                             *)
FailedCreateIsFinal(c) ==
  /\ op[c].kind = "create" /\ ~setup.replays
  /\ result[c] \in Refusals \cup {"exhausted"}
  => Took(c) = {}

(* A call that writes succeeds only by a write the target carried out, and *)
(* a membership helper only when the member was then in, or out: except of *)
(* an attribute the target takes as immutable and hands out no versions    *)
(* for, which a PUT that leaves it out does not clear.                     *)
SuccessIsReal(c) ==
  result[c] = "none" /\ op[c].kind # "get" =>
    \/ \E x \in Took(c) :
          op[c].kind \in {"patch", "removeMember"} /\ (setup.tags \/ op[c].p.attr \notin Immutable) =>
            answer[x].res.attrs = Patched(op[c].p, answer[x].res.attrs)
    \/ /\ op[c].kind = "removeMember"
       /\ \E x \in Exchanges : /\ x[1] = c /\ x[2] = "patch"
                               /\ answer[x] # Nil /\ answer[x].err = "noTarget"

(* Neither retries, nor late requests, nor the fallback and the helpers    *)
(* that turn errors into successes make a call's outcome untrue (do,       *)
(* Patch, RemoveMember).                                                   *)
OutcomesAreTrue ==
  \A c \in Calls : result[c] # Nil => FailedCreateIsFinal(c) /\ SuccessIsReal(c)

(* A PATCH that falls back to reading and writing the whole resource does  *)
(* what the PATCH would have done to the resource as it is when the PUT is *)
(* served: no concurrent change is undone.                                 *)
FallbackIsPatch ==
  [][\A x \in Exchanges :
       /\ setup.tags /\ x[2] = "put" /\ op[x[1]] # Nil /\ op[x[1]].kind # "replace"
       /\ answer[x] = Nil /\ answer'[x] # Nil /\ answer'[x].err = "none"
       => items'[Group].attrs = Patched(op[x[1]].p, items[Group].attrs)]_vars

==============================================================================
