------------------------- MODULE OutboxRelayProofs -------------------------
(***************************************************************************)
(* Proofs about OutboxRelay, for any number of events and instances and    *)
(* any timing constants that satisfy the two assumptions, and that         *)
(* BrokerLink inherits them.                                               *)
(*                                                                         *)
(* The argument: an event the stream has acked is in the stream until its  *)
(* mark (AckIsStored), so a row leaves the pending state only when it is   *)
(* stored.  A live run's claims stay leased because available_at and the   *)
(* run's deadline approach at the same pace and the lease is longer than   *)
(* the run by at least the clock skew (LeaseOutlivesRun); with that, no    *)
(* other instance can claim them, which in turn is why no other instance's *)
(* unfenced update can disturb the lease.                                  *)
(***************************************************************************)
EXTENDS BrokerLink, TLAPS

\* A publication that was acked is in the stream.
AckIsStored == \A r \in Relays : pc[r] = "accepted" => cur[r] \in stored

\* The event being marked is one the run holds; an idle relay has no context.
RunShape ==
    \A r \in Relays :
        /\ pc[r] \in {"accepted", "refused"} => cur[r] \in Held(r)
        /\ pc[r] = "idle" => ~Live(r)

\* The lease of a claimed row outlives the run that claimed it.
LeaseOutlivesRun ==
    \A r \in Relays, e \in Events :
        Live(r) /\ e \in Held(r) =>
            /\ row[e] = "pending"
            /\ attempt[e] = held[r][e]
            /\ availableIn[e] >= left[r] + (Lease - RunTimeout)

\* Only enqueued events are ever on their way to the stream.
DelayedEnqueued == \A e \in delayed : row[e] # "absent"

IInv ==
    /\ TypeOK
    /\ NoEventLost
    /\ DelayedEnqueued
    /\ AckIsStored
    /\ RunShape
    /\ LeaseOutlivesRun
    /\ LeaseExclusive

USE ConstantsAssumption, LeaseAssumption

\* outboxRetryDelay always returns a positive delay within the maximum
\* (outboxRetryDelay's cap).
LEMMA DelayBounds ==
    ASSUME NEW n
    PROVE  outboxRetryDelay(n) \in 1..RetryMaximum
  BY DEF outboxRetryDelay

\* A row a live run holds is not eligible for any instance.
LEMMA HeldNotEligible ==
    ASSUME TypeOK, LeaseOutlivesRun, NEW r \in Relays, NEW e \in Events,
           Live(r), e \in Held(r), NEW s \in Relays
    PROVE  e \notin Eligible(s)
<1>1. availableIn[e] >= left[r] + (Lease - RunTimeout)
  BY DEF LeaseOutlivesRun
<1>2. availableIn[e] > skew[s]
  BY <1>1 DEF TypeOK, Live
<1> QED
  BY <1>2 DEF Eligible, TypeOK

\* The initial state satisfies the inductive invariant.
LEMMA InitIInv == Init => IInv
  BY DEF Init, IInv, TypeOK, NoEventLost, DelayedEnqueued, AckIsStored, RunShape,
         LeaseOutlivesRun, LeaseExclusive, Held, Live, NotHeld, NothingHeld

\* Ending a run, for whatever reason, keeps the inductive invariant.
LEMMA EndRunIInv ==
    ASSUME IInv, NEW r \in Relays, EndRun(r)
    PROVE  IInv'
<1> USE DEF IInv, EndRun, tableVars, streamVars, TypeOK
<1>1. TypeOK'
  BY DEF NothingHeld, NotHeld
<1>2. NoEventLost' /\ DelayedEnqueued'
  BY DEF NoEventLost, DelayedEnqueued
<1>3. AckIsStored'
  BY DEF AckIsStored
<1>4. RunShape'
  BY DEF RunShape, Held, Live, NothingHeld
<1>5. LeaseOutlivesRun'
  BY DEF LeaseOutlivesRun, Held, Live, NothingHeld
<1>6. LeaseExclusive'
  BY DEF LeaseExclusive, Held, Live, NothingHeld
<1> QED
  BY <1>1, <1>2, <1>3, <1>4, <1>5, <1>6

\* A claim keeps the inductive invariant: what it takes was held by nobody.
LEMMA ClaimIInv ==
    ASSUME IInv, NEW r \in Relays, Claim(r)
    PROVE  IInv'
<1> USE DEF IInv, Claim, LeaseRows, streamVars
<1>1. PICK B \in Batches(r) \ {{}} :
        /\ LeaseRows(r, B)
        /\ held' = [held EXCEPT ![r] = [e \in Events |->
                      IF e \in B THEN attempt[e] ELSE NotHeld]]
  BY DEF Claim
<1>2. B \subseteq Eligible(r) /\ B \subseteq Events
  BY DEF Batches, Eligible
<1>3. \A s \in Relays, e \in B : ~(Live(s) /\ e \in Held(s))
  BY <1>2, HeldNotEligible
<1>4. TypeOK'
  BY <1>1 DEF TypeOK, NotHeld
<1>5. NoEventLost' /\ DelayedEnqueued' /\ AckIsStored'
  BY DEF NoEventLost, DelayedEnqueued, AckIsStored, TypeOK
<1>6. RunShape'
  BY <1>1 DEF RunShape, Held, Live, TypeOK
<1>7. LeaseOutlivesRun'
  <2> SUFFICES ASSUME NEW s \in Relays, NEW e \in Events, Live(s)', (e \in Held(s))'
               PROVE  /\ row'[e] = "pending"
                      /\ attempt'[e] = held'[s][e]
                      /\ availableIn'[e] >= left'[s] + (Lease - RunTimeout)
    BY DEF LeaseOutlivesRun
  <2>1. CASE s = r
    <3>1. e \in B
      BY <1>1, <2>1 DEF Held, TypeOK
    <3> QED
      BY <1>1, <1>2, <2>1, <3>1 DEF TypeOK, Eligible
  <2>2. CASE s # r
    <3>1. Live(s) /\ e \in Held(s)
      BY <1>1, <2>2 DEF Live, Held, TypeOK
    <3>2. e \notin B
      BY <1>3, <3>1
    <3> QED
      BY <1>1, <2>2, <3>1, <3>2 DEF LeaseOutlivesRun, TypeOK
  <2> QED
    BY <2>1, <2>2
<1>8. LeaseExclusive'
  <2> SUFFICES ASSUME NEW s \in Relays, NEW t \in Relays, s # t,
                      Live(s)', Live(t)', NEW e \in Events,
                      (e \in Held(s))', (e \in Held(t))'
               PROVE  FALSE
    BY DEF LeaseExclusive, Held
  <2>1. CASE s = r
    BY <1>1, <1>3, <2>1 DEF Held, Live, TypeOK
  <2>2. CASE t = r
    BY <1>1, <1>3, <2>2 DEF Held, Live, TypeOK
  <2>3. CASE s # r /\ t # r
    BY <1>1, <2>3 DEF Held, Live, TypeOK, LeaseExclusive
  <2> QED
    BY <2>1, <2>2, <2>3
<1> QED
  BY <1>4, <1>5, <1>6, <1>7, <1>8

\* A publication attempt keeps the inductive invariant, whatever its fate.
LEMMA PublishIInv ==
    ASSUME IInv, NEW r \in Relays, NEW e \in Events,
           Publish(r, e) \/ PublishError(r, e)
    PROVE  IInv'
<1> USE DEF IInv, Publish, PublishError, tableVars, streamVars
<1>1. TypeOK'
  <2>1. stored' \subseteq Events /\ delayed' \subseteq Events
    BY DEF TypeOK
  <2>2. /\ pc' = [pc EXCEPT ![r] = "accepted"] \/ pc' = [pc EXCEPT ![r] = "refused"]
        /\ cur' = [cur EXCEPT ![r] = e]
    OBVIOUS
  <2>3. pc' \in [Relays -> {"idle", "publish", "accepted", "refused"}]
    BY <2>2 DEF TypeOK
  <2>4. cur' \in [Relays -> Events \union {NoEvent}]
    BY <2>2 DEF TypeOK
  <2> QED
    BY <2>1, <2>3, <2>4 DEF TypeOK
<1>2. NoEventLost' /\ DelayedEnqueued'
  BY DEF NoEventLost, DelayedEnqueued, LeaseOutlivesRun
<1>3. AckIsStored'
  BY DEF AckIsStored, TypeOK
<1>4. RunShape'
  BY DEF RunShape, Held, Live, TypeOK
<1>5. LeaseOutlivesRun' /\ LeaseExclusive'
  BY DEF LeaseOutlivesRun, LeaseExclusive, Held, Live
<1> QED
  BY <1>1, <1>2, <1>3, <1>4, <1>5

\* Going on with the batch: what r still holds and may act on only shrinks.
LEMMA NextEventShrinks ==
    ASSUME IInv, NEW r \in Relays, NextEvent(r), UNCHANGED <<left, stored>>,
           pc[r] \in {"accepted", "refused"}
    PROVE  /\ cur[r] \in Events
           /\ \A s \in Relays : Held(s)' \subseteq Held(s)
           /\ cur[r] \notin Held(r)'
           /\ \A s \in Relays : \A e \in Held(s)' : held'[s][e] = held[s][e]
           /\ held' \in [Relays -> [Events -> NotHeld..AttemptCap]]
           /\ RunShape' /\ AckIsStored' /\ LeaseExclusive'
<1> USE DEF IInv, NextEvent, TypeOK
<1>1. cur[r] \in Held(r) /\ cur[r] \in Events
  BY DEF RunShape, Held
<1>2. held' \in [Relays -> [Events -> NotHeld..AttemptCap]]
  BY <1>1 DEF NotHeld
<1>3. /\ \A s \in Relays : Held(s)' \subseteq Held(s)
      /\ cur[r] \notin Held(r)'
      /\ \A s \in Relays : \A e \in Held(s)' : held'[s][e] = held[s][e]
  BY <1>1 DEF Held
<1>4. RunShape'
  BY <1>1 DEF RunShape, Held, Live
<1>5. AckIsStored' /\ LeaseExclusive'
  <2>1. LeaseExclusive'
    BY <1>3 DEF LeaseExclusive, Live
  <2> QED
    BY <2>1 DEF AckIsStored
<1> QED
  BY <1>1, <1>2, <1>3, <1>4, <1>5

\* Marking an event, or failing to, keeps the inductive invariant: the row
\* changed is one that no other live run holds.
LEMMA MarkIInv ==
    ASSUME IInv, NEW r \in Relays,
           MarkPublished(r) \/ MarkFailed(r) \/ MarkError(r)
    PROVE  IInv'
<1> USE DEF IInv
<1>1. /\ NextEvent(r) /\ Live(r)
      /\ pc[r] \in {"accepted", "refused"}
      /\ UNCHANGED <<left, stored, delayed, skew>>
  BY DEF MarkPublished, MarkFailed, MarkError, streamVars
<1>2. /\ cur[r] \in Held(r)
      /\ cur[r] \in Events
      /\ \A s \in Relays : Held(s)' \subseteq Held(s)
      /\ cur[r] \notin Held(r)'
      /\ \A s \in Relays : \A e \in Held(s)' : held'[s][e] = held[s][e]
      /\ held' \in [Relays -> [Events -> NotHeld..AttemptCap]]
      /\ RunShape' /\ AckIsStored' /\ LeaseExclusive'
  BY <1>1, NextEventShrinks DEF RunShape
<1>3. \A e \in Events \ {cur[r]} :
        row'[e] = row[e] /\ attempt'[e] = attempt[e] /\ availableIn'[e] = availableIn[e]
  BY DEF MarkPublished, MarkFailed, MarkError, TypeOK, tableVars
<1>4. TypeOK'
  <2>1. /\ row' \in [Events -> {"absent", "pending", "published", "deleted"}]
        /\ availableIn' \in [Events -> Nat]
        /\ retainIn' \in [Events -> Nat]
    <3>1. CASE MarkPublished(r)
      <4> DEFINE kept == Until(Retention - (RunTimeout - left[r]))
      <4>1. kept \in Nat
        BY DEF TypeOK, Until
      <4> HIDE DEF kept
      <4>2. \/ UNCHANGED <<row, retainIn>>
            \/ /\ row' = [row EXCEPT ![cur[r]] = "published"]
               /\ retainIn' = [retainIn EXCEPT ![cur[r]] = kept]
        BY <3>1 DEF MarkPublished, kept
      <4> QED
        <5>1. availableIn' = availableIn
          BY <3>1 DEF MarkPublished
        <5>2. /\ row \in [Events -> {"absent", "pending", "published", "deleted"}]
              /\ availableIn \in [Events -> Nat] /\ retainIn \in [Events -> Nat]
          BY DEF TypeOK
        <5> HIDE DEF IInv
        <5> QED
          BY <4>1, <4>2, <5>1, <5>2
    <3>2. CASE MarkFailed(r)
      <4> DEFINE delay == outboxRetryDelay(held[r][cur[r]])
                 due == Until(skew[r] + delay - (RunTimeout - left[r]))
      <4>1. delay \in Nat
        BY DelayBounds
      <4> HIDE DEF delay
      <4>2. due \in Nat
        BY <4>1 DEF TypeOK, Until
      <4> HIDE DEF due
      <4>3. \/ availableIn' = availableIn
            \/ availableIn' = [availableIn EXCEPT ![cur[r]] = due]
        BY <3>2 DEF MarkFailed, due, delay
      <4> QED
        BY <1>2, <3>2, <4>2, <4>3 DEF MarkFailed, TypeOK
    <3>3. CASE MarkError(r)
      BY <3>3 DEF MarkError, TypeOK, tableVars
    <3> QED
      BY <3>1, <3>2, <3>3
  <2>2. attempt' \in [Events -> 0..AttemptCap]
    BY <1>2 DEF MarkPublished, MarkFailed, MarkError, TypeOK, tableVars, Minimum
  <2> QED
    BY <1>1, <1>2, <2>1, <2>2 DEF TypeOK, NextEvent
<1>5. NoEventLost' /\ DelayedEnqueued'
  <2>1. CASE MarkPublished(r)
    BY <1>1, <1>2, <2>1 DEF MarkPublished, NoEventLost, DelayedEnqueued, AckIsStored, TypeOK
  <2>2. CASE MarkFailed(r) \/ MarkError(r)
    BY <1>1, <2>2 DEF MarkFailed, MarkError, NoEventLost, DelayedEnqueued, tableVars
  <2> QED
    BY <2>1, <2>2
<1>6. LeaseOutlivesRun'
  <2> SUFFICES ASSUME NEW s \in Relays, NEW e \in Events, Live(s)', e \in Held(s)'
               PROVE  /\ row'[e] = "pending"
                      /\ attempt'[e] = held'[s][e]
                      /\ availableIn'[e] >= left'[s] + (Lease - RunTimeout)
    BY DEF LeaseOutlivesRun
  <2>1. Live(s) /\ e \in Held(s)
    BY <1>1, <1>2 DEF Live
  <2>2. e # cur[r]
    BY <1>1, <1>2, <2>1 DEF LeaseExclusive
  <2> QED
    BY <1>1, <1>2, <1>3, <2>1, <2>2 DEF LeaseOutlivesRun
<1> QED
  BY <1>2, <1>4, <1>5, <1>6

\* A new row, the cleanup and a late publication keep the inductive invariant.
LEMMA TableIInv ==
    ASSUME IInv,
           \/ \E e \in Events : Enqueue(e) \/ StreamReceives(e)
           \/ Cleanup
    PROVE  IInv'
<1> USE DEF IInv
<1>1. ASSUME NEW e \in Events, Enqueue(e)
      PROVE  IInv'
  <2>1. TypeOK'
    BY <1>1 DEF Enqueue, TypeOK, relayVars, streamVars
  <2>2. NoEventLost' /\ DelayedEnqueued' /\ AckIsStored' /\ RunShape' /\ LeaseExclusive'
    BY <1>1 DEF Enqueue, TypeOK, NoEventLost, DelayedEnqueued, AckIsStored, RunShape,
                LeaseExclusive, Held, Live, relayVars, streamVars
  <2>3. LeaseOutlivesRun'
    BY <1>1 DEF Enqueue, TypeOK, LeaseOutlivesRun, Held, Live, relayVars
  <2> QED
    BY <2>1, <2>2, <2>3
<1>2. ASSUME NEW e \in Events, StreamReceives(e)
      PROVE  IInv'
  BY <1>2 DEF StreamReceives, TypeOK, NoEventLost, DelayedEnqueued, AckIsStored, RunShape,
              LeaseOutlivesRun, LeaseExclusive, Held, Live, tableVars, relayVars
<1>3. ASSUME Cleanup
      PROVE  IInv'
  <2>1. TypeOK' /\ NoEventLost' /\ DelayedEnqueued'
    BY <1>3 DEF Cleanup, PastRetention, TypeOK, NoEventLost, DelayedEnqueued, relayVars, streamVars
  <2>2. AckIsStored' /\ RunShape' /\ LeaseExclusive'
    BY <1>3 DEF Cleanup, PastRetention, AckIsStored, RunShape, LeaseExclusive, Held, Live,
                relayVars, streamVars
  <2>3. LeaseOutlivesRun'
    BY <1>3 DEF Cleanup, PastRetention, TypeOK, LeaseOutlivesRun, Held, Live, relayVars
  <2> QED
    BY <2>1, <2>2, <2>3
<1> QED
  BY <1>1, <1>2, <1>3

\* Time passing keeps the inductive invariant: leases and deadlines shrink
\* together.
LEMMA TickIInv ==
    ASSUME IInv, Tick
    PROVE  IInv'
<1> USE DEF IInv, Tick, streamVars
<1>1. TypeOK'
  BY DEF TypeOK, Until
<1>2. \A r \in Relays : Live(r)' => Live(r) /\ left'[r] = left[r] - 1
  BY DEF Live, TypeOK, Until
<1>3. NoEventLost' /\ DelayedEnqueued' /\ AckIsStored'
  BY DEF NoEventLost, DelayedEnqueued, AckIsStored
<1>4. RunShape' /\ LeaseExclusive'
  BY <1>2 DEF RunShape, LeaseExclusive, Held
<1>5. LeaseOutlivesRun'
  <2> SUFFICES ASSUME NEW r \in Relays, NEW e \in Events, Live(r)', (e \in Held(r))'
               PROVE  /\ row'[e] = "pending"
                      /\ attempt'[e] = held'[r][e]
                      /\ availableIn'[e] >= left'[r] + (Lease - RunTimeout)
    BY DEF LeaseOutlivesRun
  <2>1. Live(r) /\ e \in Held(r) /\ left'[r] = left[r] - 1
    BY <1>2 DEF Held
  <2> QED
    BY <2>1 DEF LeaseOutlivesRun, TypeOK, Until, Live
<1> QED
  BY <1>1, <1>3, <1>4, <1>5

\* The inductive invariant is preserved by every step.
LEMMA StepIInv == IInv /\ [Next]_vars => IInv'
<1> SUFFICES ASSUME IInv, [Next]_vars
             PROVE  IInv'
  OBVIOUS
<1>1. ASSUME NEW r \in Relays, RelayStep(r)
      PROVE  IInv'
  <2>1. CASE Claim(r)
    BY <2>1, ClaimIInv
  <2>2. CASE ClaimUnanswered(r)
    <3>1. PICK B \in Batches(r) : LeaseRows(r, B)
      BY <2>2 DEF ClaimUnanswered
    <3>2. B \subseteq Eligible(r)
      BY DEF Batches
    <3>3. \A s \in Relays, e \in B : ~(Live(s) /\ e \in Held(s))
      BY <3>2, HeldNotEligible DEF IInv, Eligible
    <3>4. TypeOK'
      BY <2>2, <3>1 DEF ClaimUnanswered, LeaseRows, IInv, TypeOK, relayVars, streamVars
    <3>5. LeaseOutlivesRun'
      BY <2>2, <3>1, <3>3 DEF ClaimUnanswered, LeaseRows, IInv, LeaseOutlivesRun,
                               Held, Live, relayVars
    <3> QED
      BY <2>2, <3>4, <3>5 DEF ClaimUnanswered, IInv, NoEventLost, DelayedEnqueued, AckIsStored,
                              RunShape, LeaseExclusive, Held, Live, relayVars, streamVars
  <2>3. CASE \E e \in Events : Publish(r, e) \/ PublishError(r, e)
    BY <2>3, PublishIInv
  <2>4. CASE MarkPublished(r) \/ MarkFailed(r) \/ MarkError(r)
    BY <2>4, MarkIInv
  <2>5. CASE Finish(r) \/ Expire(r) \/ Crash(r)
    BY <2>5, EndRunIInv DEF Finish, Expire, Crash
  <2> QED
    BY <1>1, <2>1, <2>2, <2>3, <2>4, <2>5 DEF RelayStep
<1>2. CASE (\E e \in Events : Enqueue(e) \/ StreamReceives(e)) \/ Cleanup
  BY <1>2, TableIInv
<1>3. CASE Tick
  BY <1>3, TickIInv
<1>4. CASE UNCHANGED vars
  BY <1>4 DEF vars, tableVars, relayVars, streamVars, IInv, TypeOK, NoEventLost, DelayedEnqueued,
              AckIsStored, RunShape, LeaseOutlivesRun, LeaseExclusive, Held, Live
<1> QED
  BY <1>1, <1>2, <1>3, <1>4 DEF Next

(***************************************************************************)
(* The inductive invariant holds in every reachable state.                 *)
(***************************************************************************)
THEOREM Invariance == Spec => []IInv
  BY InitIInv, StepIInv, PTL DEF Spec

(***************************************************************************)
(* Type correctness of the outbox table, the relay runs and the stream.    *)
(***************************************************************************)
THEOREM TypeCorrect == Spec => []TypeOK
  BY Invariance, PTL DEF IInv

(***************************************************************************)
(* No enqueued event is lost: a row is given up only after the stream has  *)
(* the event, whatever fails (RelayOnce, MarkPublished, Cleanup).          *)
(***************************************************************************)
THEOREM NothingLost == Spec => []NoEventLost
  BY Invariance, PTL DEF IInv

(***************************************************************************)
(* A claimed row stays pending, unchanged and ineligible for as long as    *)
(* the run that claimed it can act (ClaimPending, run).                    *)
(***************************************************************************)
THEOREM LeasesProtect == Spec => []LeaseProtects
<1>1. IInv => LeaseProtects
  BY HeldNotEligible DEF IInv, LeaseProtects, LeaseOutlivesRun
<1> QED
  BY <1>1, Invariance, PTL

(***************************************************************************)
(* No two instances work on one event at the same time (ClaimPending).     *)
(***************************************************************************)
THEOREM LeasesExclude == Spec => []LeaseExclusive
  BY Invariance, PTL DEF IInv

(***************************************************************************)
(* Attempts, publication and removal of a row are never undone             *)
(* (MarkPublished, MarkFailed, DeletePublishedBefore).                     *)
(***************************************************************************)
THEOREM Progress == Spec => RowsOnlyProgress
<1> DEFINE A == \A e \in Events :
        /\ attempt'[e] >= attempt[e]
        /\ row[e] = "published" =>
             row'[e] = "published" \/ (row'[e] = "deleted" /\ retainIn[e] = 0)
        /\ row[e] = "deleted" => row'[e] = "deleted"
<1>1. IInv /\ [Next]_vars => [A]_vars
  <2> SUFFICES ASSUME IInv, Next, NEW e \in Events
               PROVE  /\ attempt'[e] >= attempt[e]
                      /\ row[e] = "published" =>
                           row'[e] = "published" \/ (row'[e] = "deleted" /\ retainIn[e] = 0)
                      /\ row[e] = "deleted" => row'[e] = "deleted"
    BY DEF A
  <2>1. ASSUME NEW f \in Events, Enqueue(f) \/ StreamReceives(f) PROVE A
    BY <2>1 DEF Enqueue, StreamReceives, IInv, TypeOK, tableVars
  <2>2. CASE Cleanup
    BY <2>2 DEF Cleanup, PastRetention, IInv, TypeOK
  <2>3. CASE Tick
    BY <2>3 DEF Tick, IInv, TypeOK
  <2>4. ASSUME NEW r \in Relays, RelayStep(r) PROVE A
    <3>1. CASE MarkPublished(r)
      BY <3>1 DEF MarkPublished, IInv, TypeOK
    <3>2. CASE MarkFailed(r)
      BY <3>2 DEF MarkFailed, IInv, TypeOK, Minimum
    <3>3. CASE ~(MarkPublished(r) \/ MarkFailed(r))
      BY <2>4, <3>3 DEF RelayStep, Claim, ClaimUnanswered, Publish, PublishError,
           MarkError, Finish, Expire, Crash, EndRun, IInv, TypeOK, tableVars
    <3> QED
      BY <3>1, <3>2, <3>3
  <2> QED
    BY <2>1, <2>2, <2>3, <2>4 DEF Next
<1>2. [][A]_vars => RowsOnlyProgress
  BY PTL DEF RowsOnlyProgress
<1> QED
  BY <1>1, <1>2, Invariance, PTL DEF Spec

\* What a step of the handoff may do to the pending rows and the stream.
HandoffStep(pending, pendingNext) ==
    \/ pendingNext = pending /\ stored' = stored
    \/ \E i \in Events :
        \/ /\ i \notin pending
           /\ pendingNext = pending \union {i} /\ stored' = stored
        \/ /\ i \in pending
           /\ stored' = stored \union {i} /\ pendingNext = pending
        \/ /\ i \in pending /\ i \in stored
           /\ pendingNext = pending \ {i} /\ stored' = stored

(***************************************************************************)
(* The outbox implements the abstract handoff to the stream: every step    *)
(* offers, takes or releases one event, or leaves the handoff alone.       *)
(***************************************************************************)
THEOREM Refinement == Spec => HandsOverToStream
<1> DEFINE pending == {e \in Events : row[e] = "pending"}
<1>1. Init => ToStream!Init
  BY DEF Init, ToStream!Init
<1>2. IInv /\ [Next]_vars => HandoffStep(pending, pending')
  <2> SUFFICES ASSUME IInv, [Next]_vars
               PROVE  HandoffStep(pending, pending')
    OBVIOUS
  <2>1. ASSUME NEW e \in Events, stored' = stored \union {e}, row' = row,
               row[e] # "absent"
        PROVE  HandoffStep(pending, pending')
    <3>1. e \in pending \/ stored' = stored
      BY <2>1 DEF IInv, TypeOK, NoEventLost
    <3> QED
      BY <2>1, <3>1 DEF HandoffStep
  <2>2. ASSUME row' = row, stored' = stored
        PROVE  HandoffStep(pending, pending')
    BY <2>2 DEF HandoffStep
  <2>3. ASSUME NEW e \in Events, Enqueue(e)
        PROVE  HandoffStep(pending, pending')
    <3>1. e \notin pending /\ pending' = pending \union {e} /\ stored' = stored
      BY <2>3 DEF Enqueue, IInv, TypeOK, streamVars
    <3> QED
      BY <3>1 DEF HandoffStep
  <2>4. ASSUME NEW e \in Events, StreamReceives(e)
        PROVE  HandoffStep(pending, pending')
    BY <2>1, <2>4 DEF StreamReceives, IInv, DelayedEnqueued, tableVars
  <2>5. CASE Cleanup
    <3>1. pending' = pending /\ stored' = stored
      BY <2>5 DEF Cleanup, PastRetention, IInv, TypeOK, streamVars
    <3> QED
      BY <3>1 DEF HandoffStep
  <2>6. CASE Tick \/ UNCHANGED vars
    BY <2>2, <2>6 DEF Tick, vars, tableVars, streamVars
  <2>7. ASSUME NEW r \in Relays, RelayStep(r)
        PROVE  HandoffStep(pending, pending')
    <3>1. ASSUME NEW e \in Events, Publish(r, e) \/ PublishError(r, e)
          PROVE  HandoffStep(pending, pending')
      <4>1. row[e] = "pending" /\ row' = row
        BY <3>1 DEF Publish, PublishError, IInv, LeaseOutlivesRun, tableVars
      <4>2. stored' = stored \/ stored' = stored \union {e}
        BY <3>1 DEF Publish, PublishError, streamVars
      <4> QED
        BY <2>1, <2>2, <4>1, <4>2
    <3>2. CASE MarkPublished(r)
      <4>1. cur[r] \in Events /\ cur[r] \in stored /\ stored' = stored
        BY <3>2 DEF MarkPublished, IInv, AckIsStored, RunShape, Held, streamVars
      <4>2. \/ row' = row
            \/ cur[r] \in pending /\ pending' = pending \ {cur[r]}
        BY <3>2, <4>1 DEF MarkPublished, IInv, TypeOK
      <4> QED
        BY <2>2, <4>1, <4>2 DEF HandoffStep
    <3>3. CASE Claim(r) \/ ClaimUnanswered(r) \/ MarkFailed(r) \/ MarkError(r)
               \/ Finish(r) \/ Expire(r) \/ Crash(r)
      BY <2>2, <3>3 DEF Claim, ClaimUnanswered, MarkFailed, MarkError, Finish,
                        Expire, Crash, EndRun, tableVars, streamVars
    <3> QED
      BY <2>7, <3>1, <3>2, <3>3 DEF RelayStep
  <2> QED
    BY <2>3, <2>4, <2>5, <2>6, <2>7 DEF Next
<1>3. HandoffStep(pending, pending') => [ToStream!Next]_(ToStream!vars)
  BY DEF HandoffStep, ToStream!Next, ToStream!Offer, ToStream!Take,
         ToStream!Release, ToStream!vars
<1> QED
  BY <1>1, <1>2, <1>3, Invariance, PTL DEF Spec, HandsOverToStream, ToStream!Spec

-----------------------------------------------------------------------------

\* What the connection does to the relays, every publication may meet by itself.
LEMMA LinkSteps == [LinkNext]_allVars => [Next]_vars
<1> SUFFICES ASSUME LinkNext PROVE [Next]_vars
  BY DEF allVars
<1>1. CASE BrokerGoes \/ BrokerReturns
  BY <1>1 DEF BrokerGoes, BrokerReturns
<1>2. ASSUME NEW r \in Relays,
             \/ Disconnect(r) \/ Reconnect(r) \/ ReconnectFails(r) \/ Restart(r) \/ Locally(r)
             \/ \E e \in Events : PublishOverLink(r, e) \/ PublishFails(r, e)
      PROVE  [Next]_vars
  <2>1. RelayStep(r) \/ UNCHANGED vars
    BY <1>2 DEF Disconnect, Reconnect, ReconnectFails, Restart, Locally, PublishOverLink,
         PublishFails, RelayStep
  <2> QED
    BY <2>1 DEF Next
<1>3. ASSUME NEW e \in Events, Receives(e) \/ (Enqueue(e) /\ UNCHANGED linkVars)
      PROVE  [Next]_vars
  BY <1>3 DEF Receives, Next
<1>4. CASE (Cleanup \/ Tick) /\ UNCHANGED linkVars
  BY <1>4 DEF Next
<1> QED
  BY <1>1, <1>2, <1>3, <1>4 DEF LinkNext

(***************************************************************************)
(* The relays over their connections are relays whose publications may     *)
(* fail: outages, reconnections and closed connections add no behaviour    *)
(* (messaging.New, PublishDurable), so no event is lost and none is        *)
(* worked on twice whatever happens to the connections.                    *)
(***************************************************************************)
THEOREM LinkImplementsRelay == LinkSpec => Spec
<1>1. LinkInit => Init
  BY DEF LinkInit
<1> QED
  BY <1>1, LinkSteps, PTL DEF LinkSpec, Spec

(***************************************************************************)
(* A connection is given up exactly when its attempts are used up, and an  *)
(* open one has used none: every successful reconnection starts the count  *)
(* anew (messaging.New and the library's default).                         *)
(***************************************************************************)
THEOREM LinkTypeCorrect == LinkSpec => []LinkTypeOK
<1> DEFINE LinkOK ==
        /\ broker \in BOOLEAN
        /\ link \in [Relays -> {"connected", "reconnecting", "closed"}]
        /\ tries \in [Relays -> 0..MaxReconnects]
        /\ \A r \in Relays :
              /\ link[r] = "connected" => tries[r] = 0
              /\ link[r] = "closed" <=> tries[r] = MaxReconnects
<1>1. LinkInit => LinkOK
  BY MaxReconnectsAssumption DEF LinkInit
<1>2. LinkOK /\ [LinkNext]_allVars => LinkOK'
  <2> SUFFICES ASSUME LinkOK, [LinkNext]_allVars PROVE LinkOK'
    OBVIOUS
  <2>1. CASE BrokerGoes \/ BrokerReturns
    BY <2>1 DEF BrokerGoes, BrokerReturns
  <2>2. ASSUME NEW r \in Relays, Disconnect(r) PROVE LinkOK'
    BY <2>2, MaxReconnectsAssumption DEF Disconnect
  <2>3. ASSUME NEW r \in Relays, Reconnect(r) \/ Restart(r) PROVE LinkOK'
    BY <2>3, MaxReconnectsAssumption DEF Reconnect, Restart, Reconnected
  <2>4. ASSUME NEW r \in Relays, ReconnectFails(r) PROVE LinkOK'
    BY <2>4, MaxReconnectsAssumption DEF ReconnectFails
  <2>5. CASE UNCHANGED linkVars
    BY <2>5 DEF linkVars
  <2> QED
    BY <2>1, <2>2, <2>3, <2>4, <2>5
       DEF LinkNext, Locally, PublishOverLink, PublishFails, Receives, allVars, linkVars
<1> QED
  BY <1>1, <1>2, LinkImplementsRelay, TypeCorrect, PTL DEF LinkSpec, LinkTypeOK

(***************************************************************************)
(* Over connections that break, are given up and are restored, an event    *)
(* leaves the pending state only after the stream has it, and leases still *)
(* protect and exclude (PublishDurable, RelayOnce).                        *)
(***************************************************************************)
THEOREM NothingLostOverLink == LinkSpec => [](NoEventLost /\ LeaseProtects /\ LeaseExclusive)
  BY LinkImplementsRelay, NothingLost, LeasesProtect, LeasesExclude, PTL
=============================================================================
