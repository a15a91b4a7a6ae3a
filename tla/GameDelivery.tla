---------------------------- MODULE GameDelivery ----------------------------
(***************************************************************************)
(* Delivery of durable game events: the GAME_EVENTS stream and its durable *)
(* consumer (internal/messaging/jetstream_consumer.go), the handler and    *)
(* the transaction that claims the inbox marker and updates game_sessions  *)
(* (internal/consumers/game_consumer.go,                                   *)
(* internal/repositories/postgres/gameevent), the dead letters, and the    *)
(* dlq-replay command (internal/services/dead_letter_replay_service.go).   *)
(*                                                                         *)
(* A stream message is <<e, k>>, the k-th copy of event e: the relay may   *)
(* publish an event again after the duplicate window, and a replay always  *)
(* publishes it under another message ID.  A dead letter is <<m, j>>, the  *)
(* j-th record of message m.  Acknowledgement timers are left out: a       *)
(* pending message may be delivered again at any moment, also while a      *)
(* worker is still busy with it, as happens to messages that wait in a     *)
(* client's buffer.  The duplicate windows close at any moment.            *)
(***************************************************************************)
EXTENDS Integers, FiniteSets

CONSTANTS
    Events,         \* event IDs
    Games,          \* game IDs
    Rooms,          \* room IDs
    Started,        \* the game.started events; the others are game.ended
    Poison,         \* events whose payload the consumer's validation rejects
    GameOf, RoomOf, \* the game and the room each event names
    At,             \* occurredAt of each event
    NoRoom,         \* there is no session
    NoMessage,      \* a worker or an operator has nothing in hand
    Workers,        \* application instances, one consumer callback at a time
    Operators,      \* concurrent runs of the dlq-replay command
    MaxDeliver,     \* gameEventMaxDeliver
    MarkersExpire,  \* does the inbox cleanup ever reach the markers?
    MaxCopies,      \* bound: stream copies of each event
    MaxRecords      \* bound: dead letters of one message of each event; with
                    \* none, storing its dead letter always fails

ASSUME ConstantsAssumption ==
    /\ Started \subseteq Events /\ Poison \subseteq Events
    /\ GameOf \in [Events -> Games]
    /\ RoomOf \in [Events -> Rooms] /\ NoRoom \notin Rooms
    /\ At \in [Events -> Nat \ {0}]
    /\ MaxDeliver \in Nat \ {0}
    /\ MarkersExpire \in BOOLEAN
    /\ MaxCopies \in [Events -> Nat \ {0}]
    /\ MaxRecords \in [Events -> Nat]

Messages == UNION {{e} \X (1..MaxCopies[e]) : e \in Events}
Records == UNION {{m} \X (1..MaxRecords[m[1]]) : m \in Messages}

ASSUME NoMessageAssumption == NoMessage \notin Messages \union Records

VARIABLES
    copies,         \* number of copies of each event the stream has stored
    msg,            \* the durable consumer's view of each stored message
    delivered,      \* NumDelivered of each message
    phase, job, num,    \* of each worker: where its callback stands, the
                        \* message it has, and the NumDelivered it came with
    inbox,          \* processed_events
    startedAt, endedAt, roomOf,     \* game_sessions, by game
    dlq,            \* records in GAME_EVENTS_DLQ
    burials,        \* number of records ever stored for each message
    dlqWindow,      \* messages whose record is in the DLQ's duplicate window
    replay, rec,    \* of each operator: where its command stands, its record
    replayed,       \* records whose replay the stream has stored
    replayWindow,   \* records whose replay is in the duplicate window
    effects         \* history: how often each event changed its session

streamVars == <<copies, msg, delivered>>
workerVars == <<phase, job, num>>
dbVars == <<inbox, startedAt, endedAt, roomOf, effects>>
dlqVars == <<dlq, burials, dlqWindow>>
replayVars == <<replay, rec, replayed, replayWindow>>
vars == <<streamVars, workerVars, dbVars, dlqVars, replayVars>>

NoTime == 0
Minimum(a, b) == IF a <= b THEN a ELSE b

TypeOK ==
    /\ copies \in [Events -> Nat] /\ \A e \in Events : copies[e] <= MaxCopies[e]
    /\ msg \in [Messages -> {"absent", "pending", "acked", "termed"}]
    /\ delivered \in [Messages -> 0..MaxDeliver]
    /\ phase \in [Workers -> {"idle", "handle", "ack", "failed", "buried"}]
    /\ job \in [Workers -> Messages \union {NoMessage}]
    /\ num \in [Workers -> 0..MaxDeliver]
    /\ inbox \subseteq Events
    /\ startedAt \in [Games -> Nat] /\ endedAt \in [Games -> Nat]
    /\ roomOf \in [Games -> Rooms \union {NoRoom}]
    /\ dlq \subseteq Records
    /\ burials \in [Messages -> Nat] /\ \A m \in Messages : burials[m] <= MaxRecords[m[1]]
    /\ dlqWindow \subseteq Messages
    /\ replay \in [Operators -> {"idle", "loaded", "published"}]
    /\ rec \in [Operators -> Records \union {NoMessage}]
    /\ replayed \subseteq Records /\ replayWindow \subseteq Records
    /\ effects \in [Events -> 0..2]

Init ==
    /\ copies = [e \in Events |-> 0]
    /\ msg = [m \in Messages |-> "absent"]
    /\ delivered = [m \in Messages |-> 0]
    /\ phase = [w \in Workers |-> "idle"]
    /\ job = [w \in Workers |-> NoMessage]
    /\ num = [w \in Workers |-> 0]
    /\ inbox = {}
    /\ startedAt = [g \in Games |-> NoTime]
    /\ endedAt = [g \in Games |-> NoTime]
    /\ roomOf = [g \in Games |-> NoRoom]
    /\ dlq = {} /\ dlqWindow = {}
    /\ burials = [m \in Messages |-> 0]
    /\ replay = [o \in Operators |-> "idle"]
    /\ rec = [o \in Operators |-> NoMessage]
    /\ replayed = {} /\ replayWindow = {}
    /\ effects = [e \in Events |-> 0]

\* The events that have changed their session, at some time.
Applied == {e \in Events : effects[e] > 0}

-----------------------------------------------------------------------------
(***************************************************************************)
(* The stream and its durable consumer.                                    *)
(***************************************************************************)

\* The stream stores one more copy of e.
Store(e) ==
    /\ copies[e] < MaxCopies[e]
    /\ copies' = [copies EXCEPT ![e] = @ + 1]
    /\ msg' = [msg EXCEPT ![<<e, copies[e] + 1>>] = "pending"]
    /\ UNCHANGED delivered

\* PublishDurable by the outbox relay, for the first time or after the
\* duplicate window.  Inside the window the stream changes nothing.
Accept(e) ==
    /\ Store(e)
    /\ UNCHANGED <<workerVars, dbVars, dlqVars, replayVars>>

\* Mutant of Deliver: the server itself stops redelivering at the limit.
DeliverLimited(w, m) ==
    /\ phase[w] = "idle" /\ msg[m] = "pending" /\ delivered[m] < MaxDeliver
    /\ delivered' = [delivered EXCEPT ![m] = @ + 1]
    /\ phase' = [phase EXCEPT ![w] = "handle"]
    /\ job' = [job EXCEPT ![w] = m]
    /\ num' = [num EXCEPT ![w] = delivered'[m]]
    /\ UNCHANGED <<copies, msg, dbVars, dlqVars, replayVars>>

\* A pending message reaches the callback of an idle worker.
Deliver(w, m) ==
    /\ phase[w] = "idle" /\ msg[m] = "pending"
    /\ delivered' = [delivered EXCEPT ![m] = Minimum(@ + 1, MaxDeliver)]
    /\ phase' = [phase EXCEPT ![w] = "handle"]
    /\ job' = [job EXCEPT ![w] = m]
    /\ num' = [num EXCEPT ![w] = delivered'[m]]
    /\ UNCHANGED <<copies, msg, dbVars, dlqVars, replayVars>>

Settle(m, how) ==
    msg' = [msg EXCEPT ![m] = IF @ = "pending" THEN how ELSE @]

\* The callback of w returns.
Return(w) ==
    /\ phase' = [phase EXCEPT ![w] = "idle"]
    /\ job' = [job EXCEPT ![w] = NoMessage]
    /\ num' = [num EXCEPT ![w] = 0]

-----------------------------------------------------------------------------
(***************************************************************************)
(* The handler: one transaction claims the marker and applies the event.   *)
(***************************************************************************)

\* Mutant of UpsertStarted: the latest game.started wins.
UpsertStartedLatest(e) ==
    /\ roomOf' = [roomOf EXCEPT ![GameOf[e]] = RoomOf[e]]
    /\ startedAt' = [startedAt EXCEPT ![GameOf[e]] = At[e]]
    /\ UNCHANGED endedAt

\* ProcessGameStarted: insert, or keep the earlier start.
UpsertStarted(e) ==
    LET g == GameOf[e] IN
    /\ roomOf' = [roomOf EXCEPT ![g] = RoomOf[e]]
    /\ startedAt' = [startedAt EXCEPT ![g] =
                       IF @ = NoTime THEN At[e] ELSE Minimum(@, At[e])]
    /\ UNCHANGED endedAt

\* ProcessGameEnded: keep the earlier end of an existing session of that room.
UpdateEnded(e) ==
    LET g == GameOf[e]
        end == IF endedAt[g] = NoTime THEN At[e] ELSE Minimum(endedAt[g], At[e])
    IN
    /\ roomOf[g] = RoomOf[e]
    /\ end >= startedAt[g]      \* game_sessions_ended_after_started
    /\ endedAt' = [endedAt EXCEPT ![g] = end]
    /\ UNCHANGED <<startedAt, roomOf>>

\* Mutant of Commit: the marker is not consulted.
CommitUnchecked(e) ==
    /\ e \notin Poison
    /\ IF e \in Started THEN UpsertStarted(e) ELSE UpdateEnded(e)
    /\ inbox' = inbox \union {e}
    /\ effects' = [effects EXCEPT ![e] = Minimum(@ + 1, 2)]

\* The transaction commits: a claimed event changes its session with its
\* marker; one that is already marked changes nothing.
Commit(e) ==
    /\ e \notin Poison
    /\ \/ e \in inbox /\ UNCHANGED dbVars
       \/ /\ e \notin inbox
          /\ IF e \in Started THEN UpsertStarted(e) ELSE UpdateEnded(e)
          /\ inbox' = inbox \union {e}
          /\ effects' = [effects EXCEPT ![e] = Minimum(@ + 1, 2)]

HandleOK(w) ==
    /\ phase[w] = "handle"
    /\ Commit(job[w][1])
    /\ phase' = [phase EXCEPT ![w] = "ack"]
    /\ UNCHANGED <<streamVars, job, num, dlqVars, replayVars>>

\* Mutant of HandleError: a failed event is acknowledged.
HandleErrorAcked(w) ==
    /\ phase[w] = "handle"
    /\ phase' = [phase EXCEPT ![w] = "ack"]
    /\ UNCHANGED <<streamVars, job, num, dbVars, dlqVars, replayVars>>

\* The handler returns an error: validation, a failed statement, the timeout,
\* or a commit whose answer was lost.
HandleError(w) ==
    /\ phase[w] = "handle"
    /\ Commit(job[w][1]) \/ UNCHANGED dbVars
    /\ phase' = [phase EXCEPT ![w] = "failed"]
    /\ UNCHANGED <<streamVars, job, num, dlqVars, replayVars>>

-----------------------------------------------------------------------------
(***************************************************************************)
(* Acknowledgement, retry and the dead letters.                            *)
(***************************************************************************)

\* DoubleAck reaches the server.
Ack(w) ==
    /\ phase[w] = "ack"
    /\ Settle(job[w], "acked")
    /\ Return(w)
    /\ UNCHANGED <<copies, delivered, dbVars, dlqVars, replayVars>>

\* handleGameEventFailure below the fifth delivery: the message stays pending.
Nak(w) ==
    /\ phase[w] = "failed" /\ num[w] < MaxDeliver
    /\ Return(w)
    /\ UNCHANGED <<streamVars, dbVars, dlqVars, replayVars>>

\* The dead letter of m is stored, unless its message ID is still in the
\* duplicate window.
StoreDeadLetter(m) ==
    \/ m \in dlqWindow /\ UNCHANGED dlqVars
    \/ /\ m \notin dlqWindow /\ burials[m] < MaxRecords[m[1]]
       /\ burials' = [burials EXCEPT ![m] = @ + 1]
       /\ dlq' = dlq \union {<<m, burials[m] + 1>>}
       /\ dlqWindow' = dlqWindow \union {m}

\* Mutant of Bury: the message is terminated without its dead letter.
BuryUnstored(w) ==
    /\ phase[w] = "failed" /\ num[w] >= MaxDeliver
    /\ phase' = [phase EXCEPT ![w] = "buried"]
    /\ UNCHANGED <<streamVars, job, num, dbVars, dlqVars, replayVars>>

Bury(w) ==
    /\ phase[w] = "failed" /\ num[w] >= MaxDeliver
    /\ StoreDeadLetter(job[w])
    /\ phase' = [phase EXCEPT ![w] = "buried"]
    /\ UNCHANGED <<streamVars, job, num, dbVars, replayVars>>

\* PublishGameDeadLetter returns an error, stored or not: the message is NAKed.
BuryError(w) ==
    /\ phase[w] = "failed" /\ num[w] >= MaxDeliver
    /\ StoreDeadLetter(job[w]) \/ UNCHANGED dlqVars
    /\ Return(w)
    /\ UNCHANGED <<streamVars, dbVars, replayVars>>

\* TermWithReason reaches the server.
Term(w) ==
    /\ phase[w] = "buried"
    /\ Settle(job[w], "termed")
    /\ Return(w)
    /\ UNCHANGED <<copies, delivered, dbVars, dlqVars, replayVars>>

\* The callback ends without the server learning of it: DoubleAck or Term fails
\* or gets lost, or the instance stops.  The message stays pending.
Drop(w) ==
    /\ phase[w] # "idle"
    /\ Return(w)
    /\ UNCHANGED <<streamVars, dbVars, dlqVars, replayVars>>

\* The duplicate window of the dead letter of m has passed.
CloseDlqWindow(m) ==
    /\ m \in dlqWindow /\ burials[m] < MaxRecords[m[1]]
    /\ dlqWindow' = dlqWindow \ {m}
    /\ UNCHANGED <<streamVars, workerVars, dbVars, dlq, burials, replayVars>>

-----------------------------------------------------------------------------
(***************************************************************************)
(* The dlq-replay command: load, republish, delete.                        *)
(***************************************************************************)

Load(o, d) ==
    /\ replay[o] = "idle" /\ d \in dlq
    /\ replay' = [replay EXCEPT ![o] = "loaded"]
    /\ rec' = [rec EXCEPT ![o] = d]
    /\ UNCHANGED <<streamVars, workerVars, dbVars, dlqVars, replayed, replayWindow>>

\* PublishDurable under the replay's message ID, deduplicated in the window.
StoreReplay(d) ==
    \/ d \in replayWindow /\ UNCHANGED <<streamVars, replayed, replayWindow>>
    \/ /\ d \notin replayWindow
       /\ Store(d[1][1])
       /\ replayed' = replayed \union {d}
       /\ replayWindow' = replayWindow \union {d}

Republish(o) ==
    /\ replay[o] = "loaded"
    /\ StoreReplay(rec[o])
    /\ replay' = [replay EXCEPT ![o] = "published"]
    /\ UNCHANGED <<workerVars, dbVars, dlqVars, rec>>

StopReplay(o) ==
    /\ replay' = [replay EXCEPT ![o] = "idle"]
    /\ rec' = [rec EXCEPT ![o] = NoMessage]

\* Mutant of RepublishError: the command goes on to delete the record.
RepublishErrorIgnored(o) ==
    /\ replay[o] = "loaded"
    /\ replay' = [replay EXCEPT ![o] = "published"]
    /\ UNCHANGED <<streamVars, workerVars, dbVars, dlqVars, rec, replayed, replayWindow>>

\* The publication returns an error, stored or not: the command ends.
RepublishError(o) ==
    /\ replay[o] = "loaded"
    /\ StoreReplay(rec[o]) \/ UNCHANGED <<streamVars, replayed, replayWindow>>
    /\ StopReplay(o)
    /\ UNCHANGED <<workerVars, dbVars, dlqVars>>

\* DeleteGameDeadLetter; deleting a record that is gone changes nothing.
DeleteReplayed(o) ==
    /\ replay[o] = "published"
    /\ dlq' = dlq \ {rec[o]}
    /\ StopReplay(o)
    /\ UNCHANGED <<streamVars, workerVars, dbVars, burials, dlqWindow, replayed, replayWindow>>

\* The deletion fails, or the command is killed.
AbortReplay(o) ==
    /\ replay[o] # "idle"
    /\ StopReplay(o)
    /\ UNCHANGED <<streamVars, workerVars, dbVars, dlqVars, replayed, replayWindow>>

CloseReplayWindow(d) ==
    /\ d \in replayWindow
    /\ replayWindow' = replayWindow \ {d}
    /\ UNCHANGED <<streamVars, workerVars, dbVars, dlqVars, replay, rec, replayed>>

-----------------------------------------------------------------------------

\* DeleteProcessedBefore looks at the age of the marker alone.  A copy may be
\* pending then: a dead letter can be replayed shortly before its event's marker
\* goes.  Markers are kept longer than a copy stays in the stream, so most copies
\* are gone by then; the model lets any marker go at any moment.
ForgetMarker(e) ==
    /\ MarkersExpire /\ e \in inbox
    /\ inbox' = inbox \ {e}
    /\ UNCHANGED <<streamVars, workerVars, startedAt, endedAt, roomOf, effects,
                   dlqVars, replayVars>>

WorkerStep(w) ==
    \/ \E m \in Messages : Deliver(w, m)
    \/ HandleOK(w) \/ HandleError(w)
    \/ Ack(w) \/ Nak(w) \/ Bury(w) \/ BuryError(w) \/ Term(w) \/ Drop(w)

OperatorStep(o) ==
    \/ \E d \in dlq : Load(o, d)
    \/ Republish(o) \/ RepublishError(o) \/ DeleteReplayed(o) \/ AbortReplay(o)

\* Everything but what the relay does.
Consume ==
    \/ \E e \in Events : ForgetMarker(e)
    \/ \E w \in Workers : WorkerStep(w)
    \/ \E o \in Operators : OperatorStep(o)
    \/ \E m \in Messages : CloseDlqWindow(m)
    \/ \E d \in Records : CloseReplayWindow(d)

Next == (\E e \in Events : Accept(e)) \/ Consume

Spec == Init /\ [][Next]_vars

(***************************************************************************)
(* Fairness.  The server delivers every pending message again and again    *)
(* (MaxDeliver = -1).  A handler is not killed for ever before it returns, *)
(* and an acknowledgement, a dead letter or a termination that is tried    *)
(* for ever succeeds at some point.  Which worker does it does not matter: *)
(* some of them may never be given a message again.  The handler may fail  *)
(* for ever, and operators may never come.                                 *)
(***************************************************************************)
Fairness ==
    /\ \A m \in Messages : SF_vars(\E w \in Workers : Deliver(w, m))
    /\ SF_vars(\E w \in Workers : HandleOK(w) \/ HandleError(w))
    /\ WF_vars(\E w \in Workers : Nak(w))
    /\ SF_vars(\E w \in Workers : Ack(w))
    /\ SF_vars(\E w \in Workers : Bury(w))
    /\ SF_vars(\E w \in Workers : Term(w))

FairSpec == Spec /\ Fairness

-----------------------------------------------------------------------------
(***************************************************************************)
(* Properties.                                                             *)
(***************************************************************************)

(***************************************************************************)
(* "Losing these events is not acceptable": an event the stream accepted   *)
(* has changed its session, or a copy is still pending, or a dead letter   *)
(* holds it.  Acks, terminations, replays and deletions in any order never *)
(* leave it nowhere (StartGameEventsConsumer, handleGameEventFailure,      *)
(* Replay).                                                                *)
(***************************************************************************)
NothingStranded ==
    \A e \in Events :
        copies[e] > 0 =>
            \/ e \in Applied
            \/ \E m \in Messages : m[1] = e /\ msg[m] = "pending"
            \/ \E d \in dlq : d[1][1] = e

(***************************************************************************)
(* While markers are kept, an event changes its session at most once, over *)
(* all redeliveries, stream copies, workers and replays (process,          *)
(* claimEvent).                                                            *)
(***************************************************************************)
ExactlyOnce ==
    ~MarkersExpire => \A e \in Events :
        effects[e] <= 1 /\ (effects[e] = 1 <=> e \in inbox)

(***************************************************************************)
(* The times of a session depend only on the set of events applied to it,  *)
(* not on their order or repetition, even when markers have expired: it    *)
(* starts at the earliest start, ends at the earliest end, and never ends  *)
(* before it starts (ProcessGameStarted's LEAST, ProcessGameEnded's CASE,  *)
(* the CHECK).  Its room is that of a start applied to it; which one does  *)
(* depend on the order, the last one wins (room_id = EXCLUDED.room_id).    *)
(***************************************************************************)
EarliestOf(time, g, kind) ==
    LET seen == {e \in Applied \intersect kind : GameOf[e] = g} IN
    IF seen = {} THEN time = NoTime
    ELSE /\ \E e \in seen : time = At[e]
         /\ \A e \in seen : time <= At[e]

RoomOfStart(g) ==
    LET starts == {e \in Applied \intersect Started : GameOf[e] = g} IN
    IF starts = {} THEN roomOf[g] = NoRoom
    ELSE \E e \in starts : roomOf[g] = RoomOf[e]

SessionsReflectEvents ==
    \A g \in Games :
        /\ EarliestOf(startedAt[g], g, Started)
        /\ EarliestOf(endedAt[g], g, Events \ Started)
        /\ endedAt[g] # NoTime => startedAt[g] # NoTime /\ endedAt[g] >= startedAt[g]
        /\ RoomOfStart(g)

(***************************************************************************)
(* Every message is eventually settled: acknowledged, or moved to the dead *)
(* letters and terminated, even if its handler fails for ever              *)
(* (StartGameEventsConsumerWithOptions with MaxDeliver -1).                *)
(***************************************************************************)
EventuallySettled ==
    \A m \in Messages : msg[m] = "pending" ~> msg[m] # "pending"

(***************************************************************************)
(* ADR 001 on the transfer to the dead letters: "repeating the transfer    *)
(* does not create duplicate dead-letter records".  The message ID only    *)
(* deduplicates inside the stream's window (PublishGameDeadLetter).        *)
(***************************************************************************)
DeadLettersUnique ==
    \A c, d \in dlq : c[1] = d[1] => c = d

(***************************************************************************)
(* The stream and its consumer implement the abstract handoff: an event is *)
(* owed while a copy is pending, and taken once it was applied or stored   *)
(* as a dead letter.                                                       *)
(***************************************************************************)
Delivery == INSTANCE Handoff WITH
    Items <- Events,
    owed <- {m[1] : m \in {n \in Messages : msg[n] = "pending"}},
    taken <- Applied \union {m[1] : m \in {n \in Messages : burials[n] > 0}}

DeliversOrBuries == Delivery!Spec

(***************************************************************************)
(* The replay implements the abstract handoff: a dead letter is owed to    *)
(* the stream until its event has been published again.                    *)
(***************************************************************************)
Recovery == INSTANCE Handoff WITH
    Items <- Records, owed <- dlq, taken <- replayed

ReplaysBeforeDeleting == Recovery!Spec
=============================================================================
