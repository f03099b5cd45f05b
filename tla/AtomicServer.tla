----------------------------- MODULE AtomicServer -----------------------------
(***************************************************************************)
(* What the SCIM endpoints of one resource type promise: every request     *)
(* takes effect at one instant between its arrival and its answer, on the  *)
(* resource as it then is, and its answer reports that effect.  A request  *)
(* that fails has none.                                                    *)
(*                                                                         *)
(* mode says what the server was built over: a store with a native PATCH   *)
(* or without, one that tracks versions or not, strict validation or not,  *)
(* and whether the embedding program also writes to the store itself.      *)
(***************************************************************************)
EXTENDS ResourceRules

CONSTANTS Requests

VARIABLES mode, items, used, call, answer

atomicVars == <<mode, items, used, call, answer>>

(* Writers that do not take the server's locks: the embedding program, and *)
(* a native PATCH.                                                         *)
LocksBypassed == mode.outside \/ mode.native

Reply(q, err, res) ==
  answer' = [answer EXCEPT ![q] = [err |-> err, res |-> res]]

Refuse(q, err) == Reply(q, err, Nil) /\ UNCHANGED items

Commit(q, id, attrs) ==
  /\ ~Clash(items, id, attrs)
  /\ items' = [items EXCEPT ![id] = [attrs |-> attrs, version |-> @.version + 1]]
  /\ Reply(q, "none", items'[id])

Create(q, c) ==
  \/ ~Valid(c.body, mode.strict) /\ Refuse(q, "invalidValue")
  \/ Clash(items, c.id, c.body) /\ Refuse(q, "uniqueness")
  \/ /\ Valid(c.body, mode.strict) /\ ~Clash(items, c.id, c.body)
     /\ items[c.id] = Nil
     /\ items' = [items EXCEPT ![c.id] = [attrs |-> c.body, version |-> 1]]
     /\ Reply(q, "none", items'[c.id])

Get(q, c) ==
  LET r == items[c.id]
  IN  IF c.match.form # "none" /\ Matches(c.match, r)
      THEN Refuse(q, "notModified")
      ELSE Reply(q, "none", r) /\ UNCHANGED items

(* A conditional PUT replaces the version it names and no other.  The only *)
(* PUT that fails for a reason not of its own making met a bypassing write. *)
Put(q, c) ==
  LET r   == items[c.id]
      new == Merge(c.body, r.attrs)
      err == PutError(c.body, r.attrs, mode.strict)
  IN  \/ ~Matches(c.match, r) /\ Refuse(q, "preconditionFailed")
      \/ Matches(c.match, r) /\ err # "none" /\ Refuse(q, err)
      \/ Clash(items, c.id, new) /\ Refuse(q, "uniqueness")
      \/ Matches(c.match, r) /\ err = "none" /\ Commit(q, c.id, new)
      \/ mode.versioned /\ LocksBypassed /\ Refuse(q, "preconditionFailed")

(* An If-Match on PATCH is best effort against bypassing writers, and so   *)
(* is the validation of a native PATCH.  A PATCH that changes nothing      *)
(* leaves the version alone.                                               *)
Patch(q, c) ==
  LET r   == items[c.id]
      new == Patched(c.p, r.attrs)
      err == PatchError(c.p, r.attrs, mode.strict)
      mayPass == Matches(c.match, r) \/ LocksBypassed
      applies == IF mode.native THEN ApplyError(c.p, r.attrs) = "none" ELSE err = "none"
  IN  \/ ~Matches(c.match, r) /\ Refuse(q, "preconditionFailed")
      \/ mayPass /\ err # "none" /\ Refuse(q, err)
      \/ mayPass /\ applies /\ Clash(items, c.id, new) /\ Refuse(q, "uniqueness")
      \/ /\ mayPass /\ applies /\ new = r.attrs
         /\ Reply(q, "none", r) /\ UNCHANGED items
      \/ mayPass /\ applies /\ new # r.attrs /\ Commit(q, c.id, new)
      \/ ~mode.native /\ mode.versioned /\ mode.outside /\ Refuse(q, "preconditionFailed")

Delete(q, c) ==
  \/ ~Matches(c.match, items[c.id]) /\ Refuse(q, "preconditionFailed")
  \/ /\ Matches(c.match, items[c.id]) \/ LocksBypassed
     /\ items' = [items EXCEPT ![c.id] = Nil]
        /\ Reply(q, "none", Nil)

Init ==
  /\ call = [q \in Requests |-> Nil]
  /\ answer = [q \in Requests |-> Nil]

(* A request names a resource; a create is given an id never used before.  *)
Arrive(q) ==
  LET c == call'[q]
  IN  /\ call[q] = Nil /\ c # Nil
      /\ call' = [call EXCEPT ![q] = c]
      /\ (c.kind = "create") = (c.id \notin used)
      /\ used' = used \cup {c.id}
      /\ UNCHANGED <<items, answer>>

(* Any store call may fail with an error of its own (a generic 500).       *)
Serve(q) ==
  LET c == call[q]
  IN  /\ c # Nil /\ answer[q] = Nil
      /\ UNCHANGED <<used, call>>
      /\ \/ Refuse(q, "internal")
         \/ c.kind = "create" /\ Create(q, c)
         \/ c.kind # "create" /\ items[c.id] = Nil /\ Refuse(q, "notFound")
         \/ /\ c.kind # "create" /\ items[c.id] # Nil
            /\ \/ c.kind = "get" /\ Get(q, c)
               \/ c.kind = "put" /\ Put(q, c)
               \/ c.kind = "patch" /\ Patch(q, c)
               \/ c.kind = "delete" /\ Delete(q, c)

(* The embedding program writes or deletes a resource.                     *)
Outside ==
  /\ mode.outside
  /\ \E id \in used :
        /\ items[id] # Nil
        /\ items' = [items EXCEPT ![id] = items'[id]]
        /\ items'[id] # Nil => items'[id].version = items[id].version + 1
  /\ UNCHANGED <<used, call, answer>>

Next == UNCHANGED mode /\ (Outside \/ \E q \in Requests : Arrive(q) \/ Serve(q))

Spec == Init /\ [][Next]_atomicVars

==============================================================================
