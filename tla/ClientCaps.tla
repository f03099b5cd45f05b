------------------------------ MODULE ClientCaps ------------------------------
(***************************************************************************)
(* The client's cache of the target's ServiceProviderConfig                *)
(* (client/capabilities.go): goroutines call Capabilities, which answers   *)
(* from the cache or waits for the one fetch in flight, starting it if     *)
(* there is none; InvalidateCapabilities clears the cache.  A step is one  *)
(* critical section of capsMu, one exchange with the target, the closing   *)
(* of a fetch's done channel, or one caller's wake-up.                     *)
(***************************************************************************)
EXTENDS Naturals, FiniteSets

CONSTANTS
  Callers,    \* goroutines sharing the client
  Nil,        \* no configuration, no fetch
  Failed,     \* the error of an exchange that failed for good (retries spent)
  Aborted,    \* the error of a context that is done
  MaxCalls,         \* bound: calls of Capabilities each goroutine makes
  MaxChanges,       \* bound: times the target is reconfigured
  MaxInvalidates    \* bound: calls of InvalidateCapabilities

(* A configuration: which of the target's it is, and for the properties,   *)
(* how many invalidations had happened when the target sent it.            *)
Config == [gen : 0..MaxChanges, read : 0..MaxInvalidates]

(* A fetch is named after the call that starts it.                         *)
FetchId == Callers \X (1..MaxCalls)

ASSUME CapsAssumption ==
  /\ MaxCalls \in Nat /\ MaxChanges \in Nat /\ MaxInvalidates \in Nat
  /\ Nil \notin FetchId \cup Config \cup {Failed, Aborted}
  /\ Failed \notin Config /\ Aborted \notin Config \cup {Failed}

VARIABLES
  actual,        \* the target's configuration
  invalidated,   \* calls of InvalidateCapabilities so far
  caps,          \* Client.caps
  inflight,      \* Client.capsInflight
  fetch,         \* fetch -> where runCapsFetch is, and what it got
  waits,         \* caller -> the fetch it waits for, or Nil
  calls,         \* caller -> calls made
  cancelled,     \* caller -> its call's context is done
  began,         \* caller -> invalidations when its last call began
  result         \* caller -> what its last call returned, Nil before

vars == <<actual, invalidated, caps, inflight, fetch, waits, calls, cancelled, began, result>>

target == <<actual, invalidated>>
callers == <<waits, calls, cancelled, began, result>>

Init ==
  /\ actual = 0 /\ invalidated = 0
  /\ caps = Nil /\ inflight = Nil
  /\ fetch = [f \in FetchId |-> [at |-> "none", got |-> Nil]]
  /\ waits = [c \in Callers |-> Nil]
  /\ calls = [c \in Callers |-> 0]
  /\ cancelled = [c \in Callers |-> FALSE]
  /\ began = [c \in Callers |-> 0]
  /\ result = [c \in Callers |-> Nil]

-----------------------------------------------------------------------------
(* Capabilities, up to its select: the cache, the fetch in flight, or a    *)
(* fetch of its own.                                                       *)
Capabilities(c) ==
  /\ waits[c] = Nil /\ calls[c] < MaxCalls
  /\ calls' = [calls EXCEPT ![c] = @ + 1]
  /\ began' = [began EXCEPT ![c] = invalidated]
  /\ cancelled' = [cancelled EXCEPT ![c] = FALSE]
  /\ \/ /\ caps # Nil
        /\ result' = [result EXCEPT ![c] = caps]
        /\ UNCHANGED <<inflight, fetch, waits>>
     \/ /\ caps = Nil /\ inflight # Nil
        /\ waits' = [waits EXCEPT ![c] = inflight]
        /\ UNCHANGED <<inflight, fetch, result>>
     \/ /\ caps = Nil /\ inflight = Nil
        /\ LET f == <<c, calls'[c]>>
           IN  /\ inflight' = f
               /\ waits' = [waits EXCEPT ![c] = f]
               /\ fetch' = [fetch EXCEPT ![f].at = "sent"]
        /\ UNCHANGED result
  /\ UNCHANGED <<target, caps>>

(* Its context is done: a deadline, or the caller lost interest.           *)
Cancel(c) ==
  /\ waits[c] # Nil /\ ~cancelled[c]
  /\ cancelled' = [cancelled EXCEPT ![c] = TRUE]
  /\ UNCHANGED <<target, caps, inflight, fetch, waits, calls, began, result>>

Leave(c, r) ==
  /\ waits' = [waits EXCEPT ![c] = Nil]
  /\ result' = [result EXCEPT ![c] = r]
  /\ UNCHANGED <<target, caps, inflight, fetch, calls, cancelled, began>>

(* The select takes either branch when both are ready.                     *)
WakeUp(c) ==
  /\ waits[c] # Nil
  /\ \/ fetch[waits[c]].at = "closed" /\ Leave(c, fetch[waits[c]].got)
     \/ cancelled[c] /\ Leave(c, Aborted)

-----------------------------------------------------------------------------
(* runCapsFetch.  The context it got is never done (WithoutCancel).        *)

Exchange_CallersContext(f) ==
  /\ fetch[f].at = "sent"
  /\ \E got \in IF cancelled[f[1]] THEN {Aborted}
                ELSE {[gen |-> actual, read |-> invalidated], Failed} :
        fetch' = [fetch EXCEPT ![f] = [at |-> "answered", got |-> got]]
  /\ UNCHANGED <<target, caps, inflight, callers>>

(* The target answers with its configuration, or never usefully.           *)
Exchange(f) ==
  /\ fetch[f].at = "sent"
  /\ \E got \in {[gen |-> actual, read |-> invalidated], Failed} :
        fetch' = [fetch EXCEPT ![f] = [at |-> "answered", got |-> got]]
  /\ UNCHANGED <<target, caps, inflight, callers>>

Publish_CachesFailure(f) ==
  /\ fetch[f].at = "answered"
  /\ fetch' = [fetch EXCEPT ![f].at = "published"]
  /\ caps' = fetch[f].got
  /\ inflight' = IF inflight = f THEN Nil ELSE inflight
  /\ UNCHANGED <<target, callers>>

(* A success is cached; the slot is released either way.                   *)
Publish(f) ==
  /\ fetch[f].at = "answered"
  /\ fetch' = [fetch EXCEPT ![f].at = "published"]
  /\ caps' = IF fetch[f].got \in Config THEN fetch[f].got ELSE caps
  /\ inflight' = IF inflight = f THEN Nil ELSE inflight
  /\ UNCHANGED <<target, callers>>

CloseDone_OnSuccess(f) ==
  /\ fetch[f].at = "published" /\ fetch[f].got \in Config
  /\ fetch' = [fetch EXCEPT ![f].at = "closed"]
  /\ UNCHANGED <<target, caps, inflight, callers>>

CloseDone(f) ==
  /\ fetch[f].at = "published"
  /\ fetch' = [fetch EXCEPT ![f].at = "closed"]
  /\ UNCHANGED <<target, caps, inflight, callers>>

-----------------------------------------------------------------------------
Invalidate_AbandonsFetch ==
  /\ invalidated < MaxInvalidates
  /\ invalidated' = invalidated + 1
  /\ caps' = Nil /\ inflight' = Nil
  /\ UNCHANGED <<actual, fetch, callers>>

(* InvalidateCapabilities: a fetch in flight is left alone.                *)
Invalidate ==
  /\ invalidated < MaxInvalidates
  /\ invalidated' = invalidated + 1
  /\ caps' = Nil
  /\ UNCHANGED <<actual, inflight, fetch, callers>>

(* The target's operator changes what it supports.                         *)
Reconfigure ==
  /\ actual < MaxChanges
  /\ actual' = actual + 1
  /\ UNCHANGED <<invalidated, caps, inflight, fetch, callers>>

Next ==
  \/ Invalidate \/ Reconfigure
  \/ \E c \in Callers : Capabilities(c) \/ Cancel(c) \/ WakeUp(c)
  \/ \E f \in FetchId : Exchange(f) \/ Publish(f) \/ CloseDone(f)

Spec == Init /\ [][Next]_vars

(* Goroutines that can run do; the target need never answer.               *)
FairSpec ==
  /\ Spec
  /\ \A c \in Callers : WF_vars(WakeUp(c))
  /\ \A f \in FetchId : WF_vars(Publish(f)) /\ WF_vars(CloseDone(f))

-----------------------------------------------------------------------------
Running == {f \in FetchId : fetch[f].at \in {"sent", "answered"}}

(* However callers, failures and invalidations interleave, one exchange    *)
(* with the target is under way at a time, and none once a result is       *)
(* cached; and what is cached is a configuration the target sent, never a  *)
(* failure.                                                                *)
SingleFlight ==
  /\ \A f, g \in Running : f = g
  /\ caps # Nil => Running = {} /\ caps \in Config

(* A caller fails with a context error only for its own context: the       *)
(* cancellation of the call that started the fetch does not spread.        *)
OwnCancellationOnly ==
  \A c \in Callers : waits[c] = Nil /\ result[c] = Aborted => cancelled[c]

(* The configurations a caller is handed never go back in time: a fetch    *)
(* that answered before another was sent is not published after it.        *)
MonotonicReads ==
  [][\A c \in Callers :
       result[c] \in Config /\ result'[c] \in Config => result[c].gen <= result'[c].gen]_vars

(* A call returns once its context is done, whatever the target does, and  *)
(* once the fetch it waits for has come back, failed or not.               *)
CallsReturn ==
  \A c \in Callers :
     waits[c] # Nil /\ (cancelled[c] \/ fetch[waits[c]].at = "answered") ~> waits[c] = Nil

(* "InvalidateCapabilities clears the cached ServiceProviderConfig so the  *)
(* next Capabilities call refetches it": a call that begins after an       *)
(* invalidation returns a configuration the target sent after it.          *)
InvalidateRefetches ==
  \A c \in Callers :
     waits[c] = Nil /\ result[c] \in Config => result[c].read >= began[c]

==============================================================================
