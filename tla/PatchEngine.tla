------------------------------ MODULE PatchEngine -----------------------------
(***************************************************************************)
(* One PatchOp against a resource: decoded whole, then applied operation   *)
(* by operation to a copy that shares values with the caller's resource,   *)
(* up to the first error.                                                  *)
(***************************************************************************)
EXTENDS PatchDecode, MemberPatch

CONSTANTS
  Cases,       \* [bases, ops, longest]: stored resources, the raw operations
               \* tried on them, bound on the operations of a message
  Profiles

VARIABLES
  profile, msg,
  given,       \* the caller's resource when Apply was called
  caller,      \* the caller's resource as it is
  ops,         \* decoded, Nil before
  done,        \* operations applied
  work, shared, \* the working copy; attributes whose value is the caller's own
  changed, err

vars == <<profile, msg, given, caller, ops, done, work, shared, changed, err>>

Resources == {res \in [Attrs -> Seq([Subs -> Scalars \cup {Nil}])] : \A a \in Attrs : Canonical(a, res[a])}

ASSUME PatchAssumption ==
  /\ \A c \in Cases : c.bases \subseteq Resources /\ c.ops \subseteq RawOps /\ c.longest \in Nat
  /\ Profiles \subseteq [Knobs -> BOOLEAN]

Shared_Shallow == Attrs

(* CloneShared copies the containers and the single complex values, whose  *)
(* entries Set writes; every other value it shares.                        *)
Shared == {a \in Attrs : Multi(a) \/ ~Schema[a].complex}

Init ==
  /\ profile \in Profiles
  /\ \E c \in Cases : given \in c.bases /\ msg \in UNION {[1..n -> c.ops] : n \in 0..c.longest}
  /\ caller = given /\ work = given /\ shared = Shared
  /\ ops = Nil /\ done = 0 /\ changed = FALSE /\ err = Nil

DecodeMessage ==
  /\ ops = Nil /\ err = Nil
  /\ \E decoded \in {Decode(msg, profile)} :
       IF decoded.ok THEN ops' = decoded.val /\ err' = Nil ELSE err' = decoded.val /\ ops' = Nil
  /\ UNCHANGED <<profile, msg, given, caller, done, work, shared, changed>>

(* setSub edits the stored value; every other write puts a new one.        *)
EditsInPlace(op, a) ==
  op.path # Nil /\ op.path.attr = a /\ op.path.sub # Nil /\ op.path.filter = Nil /\ work[a] # <<>>

Step(kind) ==
  /\ ops # Nil /\ err = Nil /\ done < Len(ops) /\ ops[done + 1].kind = kind
  /\ \E result \in {Perform(ops[done + 1], work, profile)} :
       LET written == {a \in Attrs : result.val[a] # work[a]}
           edited  == {a \in written : EditsInPlace(ops[done + 1], a)}
       IN  IF result.ok
           THEN /\ work' = result.val
                /\ changed' = (changed \/ written # {})
                /\ caller' = [a \in Attrs |-> IF a \in edited \cap shared THEN result.val[a] ELSE caller[a]]
                /\ shared' = shared \ (written \ edited)
                /\ done' = done + 1 /\ err' = err
           ELSE err' = result.val /\ UNCHANGED <<caller, done, work, shared, changed>>
  /\ UNCHANGED <<profile, msg, given, ops>>

ApplyAdd == Step("add")
ApplyRemove == Step("remove")
ApplyReplace == Step("replace")

Answered == err # Nil \/ (ops # Nil /\ done = Len(ops))

Next == DecodeMessage \/ ApplyAdd \/ ApplyRemove \/ ApplyReplace

Spec == Init /\ [][Next]_vars

-----------------------------------------------------------------------------
(* Every stored value keeps its canonical form, with at most one primary,  *)
(* whatever mixture of stored and received values an operation puts        *)
(* together (Resource.Set is the one place that enforces it).              *)
TypeOK ==
  /\ profile \in Profiles
  /\ done \in 0..(IF ops = Nil THEN 0 ELSE Len(ops))
  /\ shared \subseteq Attrs /\ changed \in BOOLEAN
  /\ err \in Errors \cup {Nil}
  /\ \A a \in Attrs : Canonical(a, work[a])

LastOp == ops[done]

(* What an operation with a value filter sends for each sub-attribute.     *)
Sent(op) ==
  IF op.path.sub # Nil THEN [NoSubs EXCEPT ![op.path.sub] = ScalarOf(op.value)]
  ELSE IF op.kind = "remove" \/ ElementIn(op.value) = Bad THEN NoSubs ELSE ElementIn(op.value)

Writes(op) ==
  IF op.path.sub # Nil THEN {op.path.sub} ELSE {s \in Subs : Sent(op)[s] # Nil}

(* An operation that takes away the values its own filter looks at, or     *)
(* what may be all of an element its filter found by what it lacks.        *)
SelfDefeating(op) ==
  op.path # Nil /\ op.path.filter # Nil
  /\ \/ op.path.filter.negated
     \/ op.kind = "replace" /\ op.path.sub = Nil
     \/ \E s \in Writes(op) : op.path.filter.eqs[s] # Nil
     \/ /\ op.kind # "remove" /\ \E s \in Subs : Sent(op)[s] = Null
        /\ \A s \in Subs : op.path.filter.eqs[s] \in {Nil, Null}

(* A filter on a sub-attribute the attribute does not define: an element   *)
(* made up for it loses the seed, and every retry makes up another         *)
(* (synthesizeElement, coerceComplex).                                     *)
Unfindable(op) ==
  /\ op.path # Nil /\ op.path.filter # Nil /\ op.kind # "remove"
  /\ \E s \in Subs \ SubsOf(op.path.attr) : op.path.filter.eqs[s] \in Scalars

(* A write below an immutable attribute is refused once it is assigned,    *)
(* even of the value it has (checkImmutablePathed).                        *)
BelowImmutable(op) ==
  /\ op.path # Nil /\ op.kind # "remove" /\ Schema[op.path.attr].mutability = "immutable"
  /\ op.path.sub # Nil \/ op.path.filter # Nil

(* Immutable attributes take a bare element only while they are unassigned *)
(* (checkImmutableAttr does not wrap it), so its retry is refused.         *)
Bare(a, v) == Multi(a) /\ Schema[a].mutability = "immutable" /\ ~v.list

BareImmutable(op) ==
  IF op.path = Nil THEN \E a \in Attrs : op.object[a] # Nil /\ Bare(a, op.object[a])
  ELSE op.kind # "remove" /\ Bare(op.path.attr, op.value)

(* Clients send an operation again when the answer is lost: what has just  *)
(* succeeded succeeds again and changes nothing, primaries, duplicates and *)
(* assigned immutable attributes included (the doc of Result).             *)
RetrySafe ==
  done > 0 /\ err = Nil
  /\ ~(SelfDefeating(LastOp) \/ Unfindable(LastOp) \/ BareImmutable(LastOp) \/ BelowImmutable(LastOp))
    => Perform(LastOp, work, profile) = Done(work)

(* The caller's resource is as it was, though Apply edits sub-attributes   *)
(* in place and copies as little as it can.                                *)
InputUntouched == caller = given

ValuesIn(list, s) == {list[i][s] : i \in DOMAIN list} \ {Nil}

(* wouldChange holds an add of null for one that contributes nothing; of a *)
(* simple attribute it unassigns the value (ImmutableStays).               *)
NullAdd(op, a) ==
  /\ op.kind = "add" /\ ~Multi(a) /\ ~Schema[a].complex
  /\ IF op.path = Nil THEN op.object[a] # Nil /\ IsNull(op.object[a])
     ELSE op.path.attr = a /\ IsNull(op.value)

(* readOnly attributes never change, immutable ones only from unassigned;  *)
(* and what is written through a value filter leaves the immutable         *)
(* sub-attributes of the elements it finds as they are (every write site   *)
(* has a check of its own).                                                *)
MutabilityKept ==
  [][done' > done =>
       LET op == ops[done']
           written == op.path # Nil /\ op.path.filter # Nil /\ (op.kind # "remove" \/ op.path.sub # Nil)
       IN  \A a \in Attrs :
             /\ Schema[a].mutability = "readOnly" => work'[a] = work[a]
             /\ Schema[a].mutability = "immutable" => work[a] \in {<<>>, work'[a]} \/ NullAdd(op, a)
             /\ \A s \in SubsOf(a) :
                  written /\ Immutable(a, s) => ValuesIn(work[a], s) \subseteq ValuesIn(work'[a], s)]_vars

(* "immutable targets only while unassigned (or with their current value)" *)
(* (checkMutable): an assigned immutable attribute stays what it is.       *)
ImmutableStays ==
  [][\A a \in Attrs : Schema[a].mutability = "immutable" => work[a] \in {<<>>, work'[a]}]_vars

(* A remove with a value takes out what one of the value's elements        *)
(* selects and nothing else: an empty selector, or one that finds nothing, *)
(* never removes the attribute (rewriteRemoveSelectors).                   *)
SelectedOnly ==
  LET raw == msg[1]
      Filters == {[eqs |-> SelectorOf(raw.value.elems[i]), negated |-> FALSE] : i \in DOMAIN raw.value.elems}
      kept == {i \in DOMAIN given[raw.path.attr] : \A f \in Filters : ~Holds(f, given[raw.path.attr][i])}
  IN  Len(msg) = 1 /\ raw.kind = "remove" /\ raw.value # Nil /\ ~IsNull(raw.value) /\ Answered /\ err = Nil
        => work = [given EXCEPT ![raw.path.attr] = Selected(@, kept)]

-----------------------------------------------------------------------------
(* The members of an attribute as MemberPatch sees them.                   *)
MemberSet(list) == {Fold[x] : x \in ValuesIn(list, "value")}

NamesOnly(s) == {t \in Subs : s[t] # Nil} = {"value"}

(* The MemberPatch operation a decoded operation is, Nil for the others.   *)
AsMember(op) ==
  LET M(kind, v, w) == [kind |-> kind, value |-> Fold[v], with |-> Fold[w]]
      f == op.path.filter
      sent == IF op.value # Nil /\ Len(op.value.elems) = 1 THEN op.value.elems[1].at ELSE NoSubs
      named == sent["value"] \in Scalars
      x == IF named THEN sent["value"] ELSE "x"
  IN  IF op.path = Nil \/ op.path.sub \notin {Nil, "value"} THEN Nil
      ELSE IF f = Nil /\ op.path.sub = Nil
      THEN CASE op.kind = "remove" -> M("clear", "x", "x")
             [] op.kind = "add" /\ named -> M("add", x, x)
             [] op.kind = "replace" /\ named -> M("set", x, x)
             [] OTHER -> Nil
      ELSE IF f = Nil \/ f.negated \/ ~NamesOnly(f.eqs) \/ f.eqs["value"] = Null THEN Nil
      ELSE CASE op.kind = "remove" -> M(IF op.path.sub = Nil THEN "remove" ELSE "strip", f.eqs["value"], "x")
             [] op.kind = "replace" /\ op.path.sub = "value" /\ named -> M("replace", f.eqs["value"], x)
             [] OTHER -> Nil

(* Elements told apart by their value.                                     *)
HasMembers(a) == Multi(a) /\ Schema[a].complex /\ "value" \in SubsOf(a)

(* The operations that name members do to the set of members what          *)
(* MemberPatch, the model the stores and the server use, says they do.     *)
MembersRefined ==
  [][\A a \in Attrs :
       LET op == ops[done']
       IN  done' > done /\ op.path # Nil /\ op.path.attr = a /\ HasMembers(a) /\ AsMember(op) # Nil
             => MemberSet(work'[a]) = Applied(MemberSet(work[a]), AsMember(op))]_vars

-----------------------------------------------------------------------------
(* What a message does under a profile, from the caller's resource.        *)
Outcome(p) == LET d == Decode(msg, p) IN IF d.ok THEN ApplyAll(d.val, given, p) ELSE d

Flattened == \E i \in DOMAIN msg : msg[i].kind = "replace" /\ (msg[i].flat # <<>> \/ ContainerKey(msg[i]) # <<>>)

(* A tolerant profile takes what the strict one takes and makes the same   *)
(* of it: rewriting shapes and types changes no message that was right.    *)
(* Keys the expansion takes for paths are left out (see TolerantKeeps).    *)
ToleranceConservative ==
  profile # Strict /\ Answered /\ ~Flattened =>
    \A strict \in {Outcome(Strict)} : strict.ok => err = Nil /\ work = strict.val

(* "Default accepts shape deviations that carry unambiguous intent but     *)
(* never remaps RFC error semantics": a replace the strict profile applies *)
(* is not refused for the extension container's key it carries.            *)
TolerantKeeps ==
  profile = Default /\ Answered /\ Outcome(Strict).ok
    /\ (\A i \in DOMAIN msg : msg[i].flat = <<>>) => err = Nil

===============================================================================
