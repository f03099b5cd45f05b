--------------------------- MODULE ClientCapsProofs ---------------------------
(***************************************************************************)
(* Theorems about ClientCaps, for any callers and bounds.                  *)
(***************************************************************************)
EXTENDS ClientCaps, TLAPS

-----------------------------------------------------------------------------
(* The inductive invariant.                                                *)

Labels == {"none", "sent", "answered", "published", "closed"}

Fetches == [FetchId -> [at : Labels, got : Config \cup {Nil, Failed}]]

TypeOK ==
  /\ actual \in 0..MaxChanges /\ invalidated \in 0..MaxInvalidates
  /\ caps \in Config \cup {Nil} /\ inflight \in FetchId \cup {Nil}
  /\ fetch \in Fetches
  /\ waits \in [Callers -> FetchId \cup {Nil}]
  /\ calls \in [Callers -> 0..MaxCalls]
  /\ cancelled \in [Callers -> BOOLEAN]
  /\ began \in [Callers -> 0..MaxInvalidates]
  /\ result \in [Callers -> Config \cup {Nil, Failed, Aborted}]

(* The slot names the one fetch that has not published, and the cache is   *)
(* empty while there is one.                                               *)
SlotHeld ==
  /\ \A f \in FetchId : fetch[f].at \in {"sent", "answered"} <=> inflight = f
  /\ caps # Nil => inflight = Nil

(* A fetch begins with the call it is named after, and is waited for only  *)
(* from then on.                                                           *)
FetchesFresh ==
  /\ \A f \in FetchId : fetch[f].at # "none" => f[2] <= calls[f[1]]
  /\ \A c \in Callers : waits[c] # Nil => fetch[waits[c]].at # "none"

(* What callers were handed, or can still be handed without an exchange.   *)
Handed(r) ==
  \/ r = caps
  \/ \E c \in Callers : r = result[c]
  \/ \E f \in FetchId : fetch[f].at \in {"published", "closed"} /\ r = fetch[f].got

(* No configuration is newer than the target's, than the cached one, or    *)
(* than one a fetch is about to publish; and the one a caller waits for is *)
(* no older than the one it has.                                           *)
NoneNewer ==
  \A r \in Config : Handed(r) =>
     /\ r.gen <= actual
     /\ caps \in Config => r.gen <= caps.gen
     /\ \A f \in FetchId : fetch[f].at = "answered" /\ fetch[f].got \in Config =>
          r.gen <= fetch[f].got.gen

AnswersInTime ==
  \A f \in FetchId : fetch[f].at # "sent" /\ fetch[f].got \in Config => fetch[f].got.gen <= actual

WaitsForNewer ==
  \A c \in Callers, f \in FetchId :
     waits[c] = f /\ result[c] \in Config /\ fetch[f].at # "sent" /\ fetch[f].got \in Config =>
       result[c].gen <= fetch[f].got.gen

NewerLater == NoneNewer /\ AnswersInTime /\ WaitsForNewer

IInv == TypeOK /\ SlotHeld /\ FetchesFresh /\ NewerLater /\ OwnCancellationOnly

-----------------------------------------------------------------------------
(* The invariant is inductive.                                             *)

LEMMA InitIInv == Init => IInv
<1> SUFFICES ASSUME Init PROVE IInv
  OBVIOUS
<1>1. TypeOK
  BY CapsAssumption DEF Init, TypeOK, Fetches, Labels
<1>2. SlotHeld
  BY CapsAssumption DEF Init, SlotHeld
<1>3. FetchesFresh
  BY DEF Init, FetchesFresh
<1>4. NewerLater
  BY CapsAssumption DEF Init, NewerLater, NoneNewer, AnswersInTime, WaitsForNewer, Handed
<1>5. OwnCancellationOnly
  BY CapsAssumption DEF Init, OwnCancellationOnly
<1> QED BY <1>1, <1>2, <1>3, <1>4, <1>5 DEF IInv

LEMMA MovedType ==
  ASSUME NEW f \in FetchId, NEW label \in Labels, fetch \in Fetches
  PROVE  [fetch EXCEPT ![f].at = label] \in Fetches
  BY DEF Fetches

LEMMA TypeStep == IInv /\ [Next]_vars => TypeOK'
<1> SUFFICES ASSUME IInv, [Next]_vars PROVE TypeOK'
  OBVIOUS
<1> USE CapsAssumption DEF IInv, TypeOK
<1>1. CASE Invalidate
  BY <1>1 DEF Invalidate, callers
<1>2. CASE Reconfigure
  BY <1>2 DEF Reconfigure, callers
<1>3. ASSUME NEW c \in Callers, Capabilities(c) PROVE TypeOK'
  <2>1. calls[c] + 1 \in 1..MaxCalls
    BY <1>3 DEF Capabilities
  <2>2. <<c, calls'[c]>> \in FetchId
    BY <1>3, <2>1 DEF Capabilities, FetchId
  <2>3. /\ calls' \in [Callers -> 0..MaxCalls]
        /\ began' \in [Callers -> 0..MaxInvalidates]
        /\ cancelled' \in [Callers -> BOOLEAN]
        /\ actual' = actual /\ invalidated' = invalidated /\ caps' = caps
    BY <1>3, <2>1 DEF Capabilities, target
  <2>4. CASE caps # Nil
    BY <1>3, <2>3, <2>4 DEF Capabilities
  <2>5. CASE caps = Nil /\ inflight # Nil
    BY <1>3, <2>3, <2>5 DEF Capabilities
  <2>6. CASE caps = Nil /\ inflight = Nil
    <3>1. fetch' = [fetch EXCEPT ![<<c, calls'[c]>>].at = "sent"]
      BY <1>3, <2>6 DEF Capabilities
    <3>2. fetch' \in Fetches
      BY <2>2, <3>1, MovedType DEF Labels, Fetches
    <3> QED BY <1>3, <2>2, <2>3, <2>6, <3>2 DEF Capabilities, Fetches
  <2> QED BY <2>4, <2>5, <2>6
<1>4. ASSUME NEW c \in Callers, Cancel(c) PROVE TypeOK'
  BY <1>4 DEF Cancel, target
<1>5. ASSUME NEW c \in Callers, WakeUp(c) PROVE TypeOK'
  BY <1>5 DEF WakeUp, Leave, Fetches, target
<1>6. ASSUME NEW f \in FetchId, Exchange(f) PROVE TypeOK'
  BY <1>6 DEF Exchange, Config, Fetches, Labels, target, callers
<1>7. ASSUME NEW f \in FetchId, Publish(f) PROVE TypeOK'
  BY <1>7, MovedType DEF Publish, Labels, Fetches, target, callers
<1>8. ASSUME NEW f \in FetchId, CloseDone(f) PROVE TypeOK'
  BY <1>8, MovedType DEF CloseDone, Labels, Fetches, target, callers
<1>9. CASE UNCHANGED vars
  BY <1>9 DEF vars
<1> QED BY <1>1, <1>2, <1>3, <1>4, <1>5, <1>6, <1>7, <1>8, <1>9 DEF Next

(* A call that starts a fetch: the fetch is new, and is sent.              *)
Starts(c, f) ==
  /\ f = <<c, calls[c] + 1>>
  /\ caps = Nil /\ inflight = Nil /\ fetch[f].at = "none"
  /\ inflight' = f /\ waits' = [waits EXCEPT ![c] = f]
  /\ fetch' = [fetch EXCEPT ![f].at = "sent"]
  /\ UNCHANGED result

Joins(c) ==
  /\ caps = Nil /\ inflight # Nil
  /\ waits' = [waits EXCEPT ![c] = inflight]
  /\ UNCHANGED <<inflight, fetch, result>>

Hits(c) ==
  /\ caps # Nil
  /\ result' = [result EXCEPT ![c] = caps]
  /\ UNCHANGED <<inflight, fetch, waits>>

LEMMA CallSteps ==
  ASSUME TypeOK, FetchesFresh, NEW c \in Callers, Capabilities(c)
  PROVE  /\ waits[c] = Nil
         /\ calls' = [calls EXCEPT ![c] = @ + 1] /\ calls[c] \in Nat
         /\ cancelled' = [cancelled EXCEPT ![c] = FALSE]
         /\ actual' = actual /\ caps' = caps
         /\ Hits(c) \/ Joins(c) \/ \E f \in FetchId : Starts(c, f)
<1>1. calls[c] \in Nat /\ calls[c] + 1 \in 1..MaxCalls /\ calls'[c] = calls[c] + 1
  BY CapsAssumption DEF Capabilities, TypeOK
<1>2. <<c, calls[c] + 1>> \in FetchId
  BY <1>1 DEF FetchId
<1>3. fetch[<<c, calls[c] + 1>>].at = "none"
  BY <1>1, <1>2 DEF FetchesFresh
<1> QED BY <1>1, <1>2, <1>3 DEF Capabilities, Hits, Joins, Starts, target

LEMMA SlotStep == IInv /\ [Next]_vars => SlotHeld'
<1> SUFFICES ASSUME IInv, [Next]_vars PROVE SlotHeld'
  OBVIOUS
<1> USE DEF IInv, SlotHeld, TypeOK, Fetches
<1>1. CASE Invalidate
  BY <1>1 DEF Invalidate
<1>2. CASE Reconfigure
  BY <1>2 DEF Reconfigure
<1>3. ASSUME NEW c \in Callers, Capabilities(c) PROVE SlotHeld'
  <2>1. CASE Hits(c) \/ Joins(c)
    BY <1>3, <2>1, CallSteps DEF Hits, Joins
  <2>2. ASSUME NEW f \in FetchId, Starts(c, f) PROVE SlotHeld'
    BY <1>3, <2>2, CallSteps, CapsAssumption DEF Starts
  <2> QED BY <1>3, <2>1, <2>2, CallSteps
<1>4. ASSUME NEW c \in Callers, Cancel(c) \/ WakeUp(c) PROVE SlotHeld'
  BY <1>4 DEF Cancel, WakeUp, Leave
<1>5. ASSUME NEW f \in FetchId, Exchange(f) PROVE SlotHeld'
  BY <1>5 DEF Exchange
<1>6. ASSUME NEW f \in FetchId, Publish(f) PROVE SlotHeld'
  BY <1>6, CapsAssumption DEF Publish
<1>7. ASSUME NEW f \in FetchId, CloseDone(f) PROVE SlotHeld'
  BY <1>7 DEF CloseDone
<1>8. CASE UNCHANGED vars
  BY <1>8 DEF vars
<1> QED BY <1>1, <1>2, <1>3, <1>4, <1>5, <1>6, <1>7, <1>8 DEF Next

LEMMA FreshStep == IInv /\ [Next]_vars => FetchesFresh'
<1> SUFFICES ASSUME IInv, [Next]_vars PROVE FetchesFresh'
  OBVIOUS
<1> USE DEF IInv, FetchesFresh, TypeOK, Fetches
<1>1. CASE Invalidate \/ Reconfigure
  BY <1>1 DEF Invalidate, Reconfigure, callers
<1>2. ASSUME NEW c \in Callers, Capabilities(c) PROVE FetchesFresh'
  <2>1. \A f \in FetchId : f[1] \in Callers /\ f[2] \in Nat /\ calls[f[1]] \in Nat
    BY CapsAssumption DEF FetchId
  <2>2. CASE Hits(c)
    BY <1>2, <2>1, <2>2, CallSteps DEF Hits
  <2>3. CASE Joins(c)
    BY <1>2, <2>1, <2>3, CallSteps DEF Joins, SlotHeld
  <2>4. ASSUME NEW f \in FetchId, Starts(c, f) PROVE FetchesFresh'
    BY <1>2, <2>1, <2>4, CallSteps DEF Starts
  <2> QED BY <1>2, <2>2, <2>3, <2>4, CallSteps
<1>3. ASSUME NEW c \in Callers, Cancel(c) \/ WakeUp(c) PROVE FetchesFresh'
  BY <1>3 DEF Cancel, WakeUp, Leave
<1>4. ASSUME NEW f \in FetchId, Exchange(f) PROVE FetchesFresh'
  BY <1>4 DEF Exchange, callers
<1>5. ASSUME NEW f \in FetchId, Publish(f) PROVE FetchesFresh'
  BY <1>5 DEF Publish, callers
<1>6. ASSUME NEW f \in FetchId, CloseDone(f) PROVE FetchesFresh'
  BY <1>6 DEF CloseDone, callers
<1>7. CASE UNCHANGED vars
  BY <1>7 DEF vars
<1> QED BY <1>1, <1>2, <1>3, <1>4, <1>5, <1>6, <1>7 DEF Next

LEMMA CancellationStep == IInv /\ [Next]_vars => OwnCancellationOnly'
<1> SUFFICES ASSUME IInv, [Next]_vars PROVE OwnCancellationOnly'
  OBVIOUS
<1> USE DEF IInv, OwnCancellationOnly, TypeOK, Fetches
<1>1. CASE Invalidate \/ Reconfigure \/ \E f \in FetchId : Exchange(f) \/ Publish(f) \/ CloseDone(f)
  BY <1>1 DEF Invalidate, Reconfigure, Exchange, Publish, CloseDone, callers
<1>2. ASSUME NEW c \in Callers, Capabilities(c) PROVE OwnCancellationOnly'
  <2>1. CASE Hits(c)
    BY <1>2, <2>1, CallSteps, CapsAssumption DEF Hits
  <2>2. CASE Joins(c)
    BY <1>2, <2>2, CallSteps, CapsAssumption DEF Joins
  <2>3. ASSUME NEW f \in FetchId, Starts(c, f) PROVE OwnCancellationOnly'
    <3>1. f # Nil
      BY CapsAssumption
    <3>2. waits' = [waits EXCEPT ![c] = f] /\ result' = result
      BY <2>3 DEF Starts
    <3>3. \A d \in Callers : d # c => cancelled'[d] = cancelled[d]
      BY <1>2, CallSteps
    <3> QED BY <3>1, <3>2, <3>3
  <2> QED BY <1>2, <2>1, <2>2, <2>3, CallSteps
<1>3. ASSUME NEW c \in Callers, Cancel(c) PROVE OwnCancellationOnly'
  BY <1>3 DEF Cancel
<1>4. ASSUME NEW c \in Callers, WakeUp(c) PROVE OwnCancellationOnly'
  BY <1>4, CapsAssumption DEF WakeUp, Leave
<1>5. CASE UNCHANGED vars
  BY <1>5 DEF vars
<1> QED BY <1>1, <1>2, <1>3, <1>4, <1>5 DEF Next

(* What a step makes obtainable, and how old it can be.                    *)
LEMMA HandedStep ==
  ASSUME IInv, [Next]_vars, NEW r \in Config, Handed(r)'
  PROVE  Handed(r) \/ \E f \in FetchId : fetch[f].at = "answered" /\ fetch[f].got = r
<1> USE DEF IInv, TypeOK, Fetches, Handed
<1>1. CASE Invalidate
  BY <1>1, CapsAssumption DEF Invalidate, callers
<1>2. CASE Reconfigure
  BY <1>2 DEF Reconfigure, callers
<1>3. ASSUME NEW c \in Callers, Capabilities(c) PROVE Handed(r)
  <2>1. CASE Hits(c)
    BY <1>3, <2>1, CallSteps DEF Hits
  <2>2. CASE Joins(c)
    BY <1>3, <2>2, CallSteps DEF Joins
  <2>3. ASSUME NEW f \in FetchId, Starts(c, f) PROVE Handed(r)
    <3>1. caps' = caps /\ result' = result
      BY <1>3, <2>3, CallSteps DEF Starts
    <3>2. ASSUME NEW g \in FetchId, fetch'[g].at \in {"published", "closed"}
          PROVE  fetch[g] = fetch'[g]
      BY <2>3, <3>2 DEF Starts
    <3> QED BY <3>1, <3>2
  <2> QED BY <1>3, <2>1, <2>2, <2>3, CallSteps
<1>4. ASSUME NEW c \in Callers, Cancel(c) PROVE Handed(r)
  BY <1>4 DEF Cancel
<1>5. ASSUME NEW c \in Callers, WakeUp(c) PROVE Handed(r)
  BY <1>5, CapsAssumption DEF WakeUp, Leave
<1>6. ASSUME NEW f \in FetchId, Exchange(f) PROVE Handed(r)
  BY <1>6 DEF Exchange, callers
<1>7. ASSUME NEW f \in FetchId, Publish(f)
      PROVE  Handed(r) \/ \E g \in FetchId : fetch[g].at = "answered" /\ fetch[g].got = r
  BY <1>7 DEF Publish, callers
<1>8. ASSUME NEW f \in FetchId, CloseDone(f) PROVE Handed(r)
  BY <1>8 DEF CloseDone, callers
<1>9. CASE UNCHANGED vars
  BY <1>9 DEF vars
<1> QED BY <1>1, <1>2, <1>3, <1>4, <1>5, <1>6, <1>7, <1>8, <1>9 DEF Next

(* What a fetch got, it got while it was sent or before the step.          *)
LEMMA AnswerStep ==
  ASSUME IInv, [Next]_vars, NEW f \in FetchId, fetch'[f].at # "sent", fetch'[f].got \in Config
  PROVE  \/ /\ fetch[f].at # "sent" /\ fetch'[f].got = fetch[f].got
            /\ fetch'[f].at = "answered" => fetch[f].at = "answered"
         \/ /\ fetch'[f].got.gen = actual /\ fetch'[f].at = "answered"
            /\ UNCHANGED <<actual, caps, waits, result>>
<1> USE DEF IInv, TypeOK, Fetches
<1>1. CASE Invalidate \/ Reconfigure \/ UNCHANGED vars
  BY <1>1 DEF Invalidate, Reconfigure, vars
<1>2. ASSUME NEW c \in Callers, Capabilities(c)
      PROVE  fetch'[f] = fetch[f]
  <2>1. CASE Hits(c) \/ Joins(c)
    BY <2>1 DEF Hits, Joins
  <2>2. ASSUME NEW g \in FetchId, Starts(c, g) PROVE fetch'[f] = fetch[f]
    BY <2>2 DEF Starts
  <2> QED BY <1>2, <2>1, <2>2, CallSteps
<1>3. ASSUME NEW c \in Callers, Cancel(c) \/ WakeUp(c) PROVE fetch'[f] = fetch[f]
  BY <1>3 DEF Cancel, WakeUp, Leave
<1>4. ASSUME NEW g \in FetchId, Exchange(g)
      PROVE  \/ fetch'[f] = fetch[f]
             \/ /\ fetch'[f].got.gen = actual /\ fetch'[f].at = "answered"
                /\ UNCHANGED <<actual, caps, waits, result>>
  BY <1>4, CapsAssumption DEF Exchange, target, callers
<1>5. ASSUME NEW g \in FetchId, Publish(g) \/ CloseDone(g)
      PROVE  /\ fetch[f].at # "sent" /\ fetch'[f].got = fetch[f].got
             /\ fetch'[f].at = "answered" => fetch[f].at = "answered"
  BY <1>5 DEF Publish, CloseDone
<1> QED BY <1>1, <1>2, <1>3, <1>4, <1>5 DEF Next

LEMMA ActualGrows ==
  ASSUME IInv, [Next]_vars
  PROVE  actual \in Nat /\ actual' \in Nat /\ actual <= actual'
<1> USE CapsAssumption DEF IInv, TypeOK
<1>1. CASE Reconfigure
  BY <1>1 DEF Reconfigure
<1>2. CASE ~Reconfigure
  <2>1. actual' = actual
    BY <1>2 DEF Next, vars, Invalidate, Capabilities, Cancel, WakeUp, Leave, Exchange, Publish, CloseDone, target
  <2> QED BY <2>1
<1> QED BY <1>1, <1>2

LEMMA CapsStep ==
  ASSUME IInv, [Next]_vars, caps' \in Config
  PROVE  \/ caps' = caps
         \/ \E f \in FetchId : fetch[f].at = "answered" /\ caps' = fetch[f].got
  BY CapsAssumption DEF IInv, TypeOK, Next, vars, Invalidate, Reconfigure, Capabilities, Cancel, WakeUp,
     Leave, Exchange, Publish, CloseDone, target, callers

LEMMA NoneNewerStep == IInv /\ [Next]_vars => NoneNewer'
<1> SUFFICES ASSUME IInv, [Next]_vars, NEW r \in Config, Handed(r)'
             PROVE  /\ r.gen <= actual'
                    /\ caps' \in Config => r.gen <= caps'.gen
                    /\ \A f \in FetchId : fetch'[f].at = "answered" /\ fetch'[f].got \in Config =>
                         r.gen <= fetch'[f].got.gen
  BY DEF NoneNewer, Handed
<1>1. r.gen \in Nat /\ \A q \in Config : q.gen \in Nat
  BY CapsAssumption DEF Config
<1>2. PICK old : old \in Config /\ r.gen <= old.gen
      /\ \/ old = r /\ Handed(r)
         \/ \E f \in FetchId : fetch[f].at = "answered" /\ fetch[f].got = old
  BY <1>1, HandedStep
<1>3. r.gen <= actual
  BY <1>1, <1>2, ActualGrows DEF IInv, NewerLater, NoneNewer, AnswersInTime
<1>4. \A f, g \in FetchId : fetch[f].at = "answered" /\ fetch[g].at = "answered" => f = g /\ caps = Nil
  BY CapsAssumption DEF IInv, SlotHeld
<1>5. \A f \in FetchId : fetch[f].at = "answered" /\ fetch[f].got \in Config => r.gen <= fetch[f].got.gen
  BY <1>1, <1>2, <1>4 DEF IInv, NewerLater, NoneNewer
<1>6. caps \in Config => r.gen <= caps.gen
  BY <1>1, <1>2, <1>4, CapsAssumption DEF IInv, NewerLater, NoneNewer
<1>7. r.gen <= actual'
  BY <1>1, <1>3, ActualGrows
<1>8. ASSUME caps' \in Config PROVE r.gen <= caps'.gen
  BY <1>5, <1>6, <1>8, CapsStep
<1>9. ASSUME NEW f \in FetchId, fetch'[f].at = "answered", fetch'[f].got \in Config
      PROVE  r.gen <= fetch'[f].got.gen
  BY <1>3, <1>5, <1>9, AnswerStep
<1> QED BY <1>7, <1>8, <1>9

LEMMA AnswersStep == IInv /\ [Next]_vars => AnswersInTime'
<1> SUFFICES ASSUME IInv, [Next]_vars,
                    NEW f \in FetchId, fetch'[f].at # "sent", fetch'[f].got \in Config
             PROVE  fetch'[f].got.gen <= actual'
  BY DEF AnswersInTime
<1>1. fetch'[f].got.gen \in Nat
  BY CapsAssumption DEF Config
<1> QED BY <1>1, AnswerStep, ActualGrows DEF IInv, NewerLater, AnswersInTime

(* A caller that begins to wait, or that was waiting.                      *)
LEMMA WaitStep ==
  ASSUME IInv, [Next]_vars, NEW c \in Callers, NEW f \in FetchId, waits'[c] = f
  PROVE  \/ waits[c] = f /\ result'[c] = result[c]
         \/ /\ inflight = f /\ fetch' = fetch /\ result' = result
         \/ fetch'[f].at = "sent"
<1> USE CapsAssumption DEF IInv, TypeOK, Fetches
<1>1. ASSUME NEW d \in Callers, Capabilities(d)
      PROVE  \/ waits[c] = f /\ result'[c] = result[c]
             \/ /\ inflight = f /\ fetch' = fetch /\ result' = result
             \/ fetch'[f].at = "sent"
  <2>1. CASE Hits(d)
    BY <1>1, <2>1, CallSteps DEF Hits
  <2>2. CASE Joins(d)
    BY <1>1, <2>2, CallSteps DEF Joins
  <2>3. ASSUME NEW g \in FetchId, Starts(d, g)
        PROVE  (waits[c] = f /\ result'[c] = result[c]) \/ fetch'[f].at = "sent"
    BY <2>3 DEF Starts
  <2> QED BY <1>1, <2>1, <2>2, <2>3, CallSteps
<1>2. ASSUME NEW d \in Callers, WakeUp(d) PROVE waits[c] = f /\ result'[c] = result[c]
  BY <1>2 DEF WakeUp, Leave
<1>3. CASE ~\E d \in Callers : Capabilities(d) \/ WakeUp(d)
  BY <1>3 DEF Next, vars, Invalidate, Reconfigure, Cancel, Exchange, Publish, CloseDone, callers
<1> QED BY <1>1, <1>2, <1>3

LEMMA WaitsStep == IInv /\ [Next]_vars => WaitsForNewer'
<1> SUFFICES ASSUME IInv, [Next]_vars, NEW c \in Callers, NEW f \in FetchId,
                    waits'[c] = f, result'[c] \in Config, fetch'[f].at # "sent", fetch'[f].got \in Config
             PROVE  result'[c].gen <= fetch'[f].got.gen
  BY DEF WaitsForNewer
<1>1. CASE fetch'[f].got.gen = actual /\ result' = result
  BY <1>1 DEF IInv, NewerLater, NoneNewer, Handed
<1>2. CASE waits[c] = f /\ result'[c] = result[c] /\ fetch[f].at # "sent" /\ fetch'[f].got = fetch[f].got
  BY <1>2 DEF IInv, NewerLater, WaitsForNewer
<1>3. CASE inflight = f /\ fetch' = fetch /\ result' = result
  <2>1. fetch[f].at = "answered"
    BY <1>3 DEF IInv, SlotHeld
  <2> QED BY <1>3, <2>1 DEF IInv, NewerLater, NoneNewer, Handed
<1> QED BY <1>1, <1>2, <1>3, AnswerStep, WaitStep

LEMMA NextIInv == IInv /\ [Next]_vars => IInv'
  BY TypeStep, SlotStep, FreshStep, NoneNewerStep, AnswersStep, WaitsStep, CancellationStep DEF IInv, NewerLater

LEMMA InvariantHolds == Spec => []IInv
  BY InitIInv, NextIInv, PTL DEF Spec

-----------------------------------------------------------------------------
(* However callers, failures and invalidations interleave, one exchange is *)
(* under way at a time, none once a result is cached, and no failure is    *)
(* cached (Capabilities, runCapsFetch).                                    *)
THEOREM OneFlight == Spec => []SingleFlight
<1>1. IInv => SingleFlight
  BY CapsAssumption DEF IInv, TypeOK, SlotHeld, SingleFlight, Running
<1> QED BY <1>1, InvariantHolds, PTL

(* A caller is handed a context error only when its own context is done:   *)
(* the fetch it shares has none (runCapsFetch).                            *)
THEOREM CancellationIsOwn == Spec => []OwnCancellationOnly
<1>1. IInv => OwnCancellationOnly
  BY DEF IInv
<1> QED BY <1>1, InvariantHolds, PTL

(* The configurations a caller is handed never go back in time.            *)
THEOREM ReadsAreMonotonic == Spec => MonotonicReads
<1> DEFINE Monotonic ==
      \A c \in Callers : result[c] \in Config /\ result'[c] \in Config => result[c].gen <= result'[c].gen
<1>1. ASSUME IInv, [Next]_vars PROVE [Monotonic]_vars
  <2> SUFFICES ASSUME IInv, [Next]_vars, Next, NEW c \in Callers, result[c] \in Config, result'[c] \in Config
               PROVE  result[c].gen <= result'[c].gen
    BY <1>1
  <2> USE DEF IInv, TypeOK
  <2>1. result[c].gen \in Nat
    BY CapsAssumption DEF Config
  <2>2. CASE result'[c] = result[c]
    BY <2>1, <2>2
  <2>3. CASE result'[c] = caps
    BY <2>3 DEF NewerLater, NoneNewer, Handed
  <2>4. ASSUME waits[c] \in FetchId, fetch[waits[c]].at = "closed", result'[c] = fetch[waits[c]].got
        PROVE  result[c].gen <= result'[c].gen
    BY <2>4 DEF NewerLater, WaitsForNewer
  <2>5. ASSUME NEW d \in Callers, Capabilities(d) PROVE result'[c] = result[c] \/ result'[c] = caps
    BY <2>5, CallSteps DEF Hits, Joins, Starts
  <2>6. ASSUME NEW d \in Callers, WakeUp(d)
        PROVE  \/ result'[c] = result[c]
               \/ /\ waits[c] \in FetchId /\ fetch[waits[c]].at = "closed"
                  /\ result'[c] = fetch[waits[c]].got
    BY <2>6, CapsAssumption DEF WakeUp, Leave
  <2>7. CASE ~\E d \in Callers : Capabilities(d) \/ WakeUp(d)
    BY <2>2, <2>7 DEF Next, Invalidate, Reconfigure, Cancel, Exchange, Publish, CloseDone, callers
  <2> QED BY <2>2, <2>3, <2>4, <2>5, <2>6, <2>7
<1> QED BY <1>1, InvariantHolds, PTL DEF MonotonicReads, Spec

==============================================================================
