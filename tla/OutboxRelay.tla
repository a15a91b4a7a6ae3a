---------------------------- MODULE OutboxRelay ----------------------------
(***************************************************************************)
(* The transactional outbox: the outbox_events table, the relay goroutine  *)
(* of every application instance (internal/services/                       *)
(* outbox_relay_service.go, internal/repositories/postgres/outbox), the    *)
(* retention cleanup, and the JetStream publication they drive.            *)
(*                                                                         *)
(* Time is discrete and every deadline is kept as the time left until it:  *)
(* available_at as availableIn, the deadline of a relay run as left, the   *)
(* retention of a published row as retainIn.  Tick lets one unit pass.     *)
(* The rows are stamped by the clock of the instance that writes them, and *)
(* skew[r] says how far the clock of r is ahead of the slowest one.        *)
(***************************************************************************)
EXTENDS Integers, FiniteSets

CONSTANTS
    Events,         \* event IDs
    NoEvent,        \* no event is being finished
    Relays,         \* application instances, each running one relay
    BatchSize,      \* outboxRelayBatchSize
    Lease,          \* outboxRelayLease
    RunTimeout,     \* outboxRelayRunTimeout
    RetryInitial,   \* outboxRetryInitial
    RetryMaximum,   \* outboxRetryMaximum
    Retention,      \* outboxRetention
    Skew,           \* bound: the clocks of two instances differ by at most this
    AttemptCap      \* bound: attempt_count is counted up to this value

ASSUME ConstantsAssumption ==
    /\ NoEvent \notin Events
    /\ BatchSize \in Nat \ {0}
    /\ Lease \in Nat
    /\ RunTimeout \in Nat \ {0}
    /\ RetryInitial \in Nat \ {0}
    /\ RetryMaximum \in Nat /\ RetryInitial <= RetryMaximum
    /\ Retention \in Nat
    /\ Skew \in Nat
    /\ AttemptCap \in Nat

\* A run must be over before its lease can look expired to any other instance
\* (20 s of run and a 30 s lease leave 10 s for the clocks to differ).
ASSUME LeaseAssumption == RunTimeout + Skew <= Lease

VARIABLES
    row,            \* state of the outbox row of each event
    availableIn,    \* available_at, as the time left until it
    attempt,        \* attempt_count
    retainIn,       \* time left until published_at falls out of retention
    skew,           \* how far the clock of each instance is ahead
    pc,             \* where the relay goroutine of each instance stands
    left,           \* time left in the context of its current run
    held,           \* attempt_count of the claimed events it has not finished
    cur,            \* the event whose publication has just returned
    stored,         \* events the GAME_EVENTS stream has accepted
    delayed         \* publications still on their way to the stream

tableVars == <<row, availableIn, attempt, retainIn>>
relayVars == <<pc, left, held, cur>>
streamVars == <<stored, delayed>>
vars == <<tableVars, skew, relayVars, streamVars>>

NotHeld == -1

Minimum(a, b) == IF a <= b THEN a ELSE b
Until(d) == IF d > 0 THEN d ELSE 0

(***************************************************************************)
(* outboxRetryDelay: doubles from the initial delay, capped.               *)
(***************************************************************************)
outboxRetryDelay(n) ==
    LET delay == RetryInitial * 2^n
    IN  IF delay \in 1..RetryMaximum THEN delay ELSE RetryMaximum

TypeOK ==
    /\ row \in [Events -> {"absent", "pending", "published", "deleted"}]
    /\ availableIn \in [Events -> Nat]
    /\ attempt \in [Events -> 0..AttemptCap]
    /\ retainIn \in [Events -> Nat]
    /\ skew \in [Relays -> 0..Skew]
    /\ pc \in [Relays -> {"idle", "publish", "accepted", "refused"}]
    /\ left \in [Relays -> 0..RunTimeout]
    /\ held \in [Relays -> [Events -> NotHeld..AttemptCap]]
    /\ cur \in [Relays -> Events \union {NoEvent}]
    /\ stored \subseteq Events
    /\ delayed \subseteq Events

NothingHeld == [e \in Events |-> NotHeld]

Init ==
    /\ row = [e \in Events |-> "absent"]
    /\ availableIn = [e \in Events |-> 0]
    /\ attempt = [e \in Events |-> 0]
    /\ retainIn = [e \in Events |-> 0]
    /\ skew \in [Relays -> 0..Skew]
    /\ pc = [r \in Relays |-> "idle"]
    /\ left = [r \in Relays |-> 0]
    /\ held = [r \in Relays |-> NothingHeld]
    /\ cur = [r \in Relays |-> NoEvent]
    /\ stored = {}
    /\ delayed = {}

Held(r) == {e \in Events : held[r][e] # NotHeld}

\* The context of the current run of r has not expired.
Live(r) == left[r] > 0

-----------------------------------------------------------------------------
(***************************************************************************)
(* The outbox table.                                                       *)
(***************************************************************************)

\* Enqueue: one new row.  available_at defaults to the clock of the database,
\* which may be ahead of an instance's.  Enqueueing an ID again is a no-op.
Enqueue(e) ==
    /\ row[e] = "absent"
    /\ row' = [row EXCEPT ![e] = "pending"]
    /\ \E d \in 0..Skew : availableIn' = [availableIn EXCEPT ![e] = d]
    /\ UNCHANGED <<attempt, retainIn, skew, relayVars, streamVars>>

\* Mutants of Eligible: one forgets available_at, one gives up after some attempts.
EligibleTooEarly(r) == {e \in Events : row[e] = "pending"}
EligibleFewTimes(r) ==
    {e \in Events : row[e] = "pending" /\ availableIn[e] <= skew[r] /\ attempt[e] < AttemptCap}

\* The rows a claim by r may take.
Eligible(r) == {e \in Events : row[e] = "pending" /\ availableIn[e] <= skew[r]}

\* ORDER BY available_at ... LIMIT: no row left behind is due before one taken.
\* Rows due at the same time are ordered by created_at, which is left open.
Batches(r) ==
    {B \in SUBSET Eligible(r) :
        /\ Cardinality(B) = Minimum(BatchSize, Cardinality(Eligible(r)))
        /\ \A e \in B, f \in Eligible(r) \ B : availableIn[e] <= availableIn[f]}

\* Mutant of LeaseRows: the lease is forgotten.
LeaseRowsForgotten(r, B) == UNCHANGED availableIn

\* The UPDATE of ClaimPending: the rows taken are leased.
LeaseRows(r, B) ==
    availableIn' = [e \in Events |->
                      IF e \in B THEN Lease + skew[r] ELSE availableIn[e]]

\* Mutant of PastRetention: rows in any state.
PastRetentionAnyState == {e \in Events : row[e] \in {"pending", "published"} /\ retainIn[e] = 0}

\* The rows whose published_at is older than outboxRetention.
PastRetention == {e \in Events : row[e] = "published" /\ retainIn[e] = 0}

\* DeletePublishedBefore, from the daily cleanup of any instance.
Cleanup ==
    /\ PastRetention # {}
    /\ row' = [e \in Events |-> IF e \in PastRetention THEN "deleted" ELSE row[e]]
    /\ UNCHANGED <<availableIn, attempt, retainIn, skew, relayVars, streamVars>>

-----------------------------------------------------------------------------
(***************************************************************************)
(* One relay run (run and RelayOnce).  A claim that finds nothing changes  *)
(* nothing and is left out.                                                *)
(***************************************************************************)

Claim(r) ==
    /\ pc[r] = "idle"
    /\ \E B \in Batches(r) \ {{}} :
        /\ LeaseRows(r, B)
        /\ held' = [held EXCEPT ![r] = [e \in Events |->
                      IF e \in B THEN attempt[e] ELSE NotHeld]]
    /\ pc' = [pc EXCEPT ![r] = "publish"]
    /\ left' = [left EXCEPT ![r] = RunTimeout]
    /\ UNCHANGED <<row, attempt, retainIn, skew, cur, streamVars>>

\* ClaimPending commits but its answer is lost: rows leased, the run is over.
ClaimUnanswered(r) ==
    /\ pc[r] = "idle"
    /\ \E B \in Batches(r) \ {{}} : LeaseRows(r, B)
    /\ UNCHANGED <<row, attempt, retainIn, skew, relayVars, streamVars>>

\* The batch comes back in no particular order (UPDATE ... RETURNING), so the
\* next event is any one still held.  PublishDurable returns an ack.
Publish(r, e) ==
    /\ pc[r] = "publish" /\ Live(r) /\ e \in Held(r)
    /\ stored' = stored \union {e}
    /\ pc' = [pc EXCEPT ![r] = "accepted"]
    /\ cur' = [cur EXCEPT ![r] = e]
    /\ UNCHANGED <<tableVars, skew, left, held, delayed>>

\* Mutant of PublishError: the error is taken for an ack.
PublishErrorIgnored(r, e) ==
    /\ pc[r] = "publish" /\ Live(r) /\ e \in Held(r)
    /\ pc' = [pc EXCEPT ![r] = "accepted"]
    /\ cur' = [cur EXCEPT ![r] = e]
    /\ UNCHANGED <<tableVars, skew, left, held, streamVars>>

\* PublishDurable returns an error: the stream never saw the event, accepted it
\* and the ack was lost, or will still receive it from a client's buffer.
PublishError(r, e) ==
    /\ pc[r] = "publish" /\ Live(r) /\ e \in Held(r)
    /\ \/ UNCHANGED streamVars
       \/ stored' = stored \union {e} /\ UNCHANGED delayed
       \/ delayed' = delayed \union {e} /\ UNCHANGED stored
    /\ pc' = [pc EXCEPT ![r] = "refused"]
    /\ cur' = [cur EXCEPT ![r] = e]
    /\ UNCHANGED <<tableVars, skew, left, held>>

\* A publication given up by its sender reaches the stream.
StreamReceives(e) ==
    /\ e \in delayed
    /\ stored' = stored \union {e}
    /\ delayed' = delayed \ {e}
    /\ UNCHANGED <<tableVars, skew, relayVars>>

\* The loop goes on with the next event of the batch.
NextEvent(r) ==
    /\ pc' = [pc EXCEPT ![r] = "publish"]
    /\ held' = [held EXCEPT ![r][cur[r]] = NotHeld]
    /\ cur' = [cur EXCEPT ![r] = NoEvent]

\* MarkPublished stamps the start of the run; a row that is no longer pending
\* is not touched and the error is only collected.
MarkPublished(r) ==
    /\ pc[r] = "accepted" /\ Live(r)
    /\ LET e == cur[r] IN
        IF row[e] = "pending"
        THEN /\ row' = [row EXCEPT ![e] = "published"]
             /\ retainIn' = [retainIn EXCEPT ![e] =
                               Until(Retention - (RunTimeout - left[r]))]
        ELSE UNCHANGED <<row, retainIn>>
    /\ NextEvent(r)
    /\ UNCHANGED <<availableIn, attempt, skew, left, streamVars>>

\* MarkFailed schedules the next attempt from the start of the run.
MarkFailed(r) ==
    /\ pc[r] = "refused" /\ Live(r)
    /\ LET e == cur[r]
           delay == outboxRetryDelay(held[r][e])
       IN IF row[e] = "pending"
          THEN /\ attempt' = [attempt EXCEPT ![e] = Minimum(@ + 1, AttemptCap)]
               /\ availableIn' = [availableIn EXCEPT ![e] =
                                    Until(skew[r] + delay - (RunTimeout - left[r]))]
          ELSE UNCHANGED <<attempt, availableIn>>
    /\ NextEvent(r)
    /\ UNCHANGED <<row, retainIn, skew, left, streamVars>>

\* Either statement fails without effect; RelayOnce goes on with the batch.
MarkError(r) ==
    /\ pc[r] \in {"accepted", "refused"} /\ Live(r)
    /\ NextEvent(r)
    /\ UNCHANGED <<tableVars, skew, left, streamVars>>

EndRun(r) ==
    /\ pc' = [pc EXCEPT ![r] = "idle"]
    /\ left' = [left EXCEPT ![r] = 0]
    /\ held' = [held EXCEPT ![r] = NothingHeld]
    /\ cur' = [cur EXCEPT ![r] = NoEvent]
    /\ UNCHANGED <<tableVars, skew, streamVars>>

\* The whole batch has been gone through.
Finish(r) == pc[r] = "publish" /\ Held(r) = {} /\ EndRun(r)

\* After the deadline every publication and every statement of the run fails at
\* once; what it still held waits for the lease to expire.
Expire(r) == pc[r] # "idle" /\ ~Live(r) /\ EndRun(r)

\* The instance stops, or crashes, and starts again.
Crash(r) == pc[r] # "idle" /\ EndRun(r)

-----------------------------------------------------------------------------

Tick ==
    /\ availableIn' = [e \in Events |-> Until(availableIn[e] - 1)]
    /\ retainIn' = [e \in Events |-> Until(retainIn[e] - 1)]
    /\ left' = [r \in Relays |-> Until(left[r] - 1)]
    /\ UNCHANGED <<row, attempt, skew, pc, held, cur, streamVars>>

RelayStep(r) ==
    \/ Claim(r)
    \/ ClaimUnanswered(r)
    \/ \E e \in Events : Publish(r, e) \/ PublishError(r, e)
    \/ MarkPublished(r)
    \/ MarkFailed(r)
    \/ MarkError(r)
    \/ Finish(r)
    \/ Expire(r)
    \/ Crash(r)

Next ==
    \/ \E e \in Events : Enqueue(e) \/ StreamReceives(e)
    \/ \E r \in Relays : RelayStep(r)
    \/ Cleanup
    \/ Tick

Spec == Init /\ [][Next]_vars

-----------------------------------------------------------------------------
(***************************************************************************)
(* Properties.                                                             *)
(***************************************************************************)

(***************************************************************************)
(* "Losing these events is not acceptable": an event leaves the pending    *)
(* state only if the stream has accepted it, however publications, marks,  *)
(* expiries, crashes and the cleanup interleave (RelayOnce,                *)
(* MarkPublished, DeletePublishedBefore).                                  *)
(***************************************************************************)
NoEventLost ==
    \A e \in Events : row[e] \in {"published", "deleted"} => e \in stored

(***************************************************************************)
(* While the run of r can still act on an event it claimed, the row is     *)
(* pending, has the attempt_count r read, and stays leased: no other       *)
(* instance finds it eligible, whatever its clock says (ClaimPending       *)
(* leases, MarkPublished and MarkFailed with no fencing token).            *)
(***************************************************************************)
LeaseProtects ==
    \A r \in Relays, e \in Events :
        Live(r) /\ e \in Held(r) =>
            /\ row[e] = "pending"
            /\ attempt[e] = held[r][e]
            /\ \A s \in Relays : e \notin Eligible(s)

(***************************************************************************)
(* Two instances never work on the same event at once (ClaimPending's FOR  *)
(* UPDATE SKIP LOCKED and the lease).                                      *)
(***************************************************************************)
LeaseExclusive ==
    \A r, s \in Relays :
        r # s /\ Live(r) /\ Live(s) => Held(r) \intersect Held(s) = {}

(***************************************************************************)
(* Progress is never undone: attempt_count never decreases, a published    *)
(* row never becomes pending again, and a row is only removed once its     *)
(* retention has passed (MarkPublished, MarkFailed, DeletePublishedBefore).*)
(***************************************************************************)
RowsOnlyProgress ==
    [][\A e \in Events :
        /\ attempt'[e] >= attempt[e]
        /\ row[e] = "published" =>
             row'[e] = "published" \/ (row'[e] = "deleted" /\ retainIn[e] = 0)
        /\ row[e] = "deleted" => row'[e] = "deleted"]_vars

(***************************************************************************)
(* The outbox implements the abstract handoff: the pending rows are owed   *)
(* to the stream, and given up only once it has them.                      *)
(***************************************************************************)
ToStream == INSTANCE Handoff WITH
    Items <- Events,
    owed <- {e \in Events : row[e] = "pending"},
    taken <- stored

HandsOverToStream == ToStream!Spec
=============================================================================
