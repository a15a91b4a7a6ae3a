---------------------------- MODULE GamePipeline ----------------------------
(***************************************************************************)
(* The pipeline of game events end to end: GameLifecycle draws the events  *)
(* and inserts them into the outbox, the relays hand them to the stream,   *)
(* and GameDelivery applies them to the game sessions or buries them.      *)
(*                                                                         *)
(* Of the relays only the promise is used that OutboxRelay implements: the *)
(* actions of Handoff.  An event keeps its ID on the whole way, and no     *)
(* transition of a game gets two (OneEventPerTransition), so an event is   *)
(* named here by its subject and its game.  What the service builds passes *)
(* the consumer's validation.                                              *)
(***************************************************************************)
EXTENDS GameLifecycle, FiniteSets

CONSTANTS
    OccurredAt,     \* occurredAt of each event
    NoMessage, Workers, Operators, MaxDeliver, MarkersExpire,
    MaxCopies, MaxRecords   \* as in GameDelivery

VARIABLES
    owed,           \* events whose rows are pending in the outbox
    stored,         \* events the stream has accepted
    copies, msg, delivered, work, job, num, inbox, startedAt, endedAt, roomOf,
    dlq, burials, dlqWindow, replay, rec, replayed, replayWindow, effects

outboxVars == <<owed, stored>>
deliveryVars == <<copies, msg, delivered, work, job, num, inbox, startedAt, endedAt, roomOf,
                  effects, dlq, burials, dlqWindow, replay, rec, replayed, replayWindow>>
pipelineVars == <<vars, outboxVars, deliveryVars>>

Started == [subject : {"game.started"}, game : Games]
Ended == [subject : {"game.ended"}, game : Games]
GameEvents == Started \union Ended

\* A game has one room, the one of its champion select.
GameOfEvent == [e \in GameEvents |-> e.game]

Relays == INSTANCE Handoff WITH Items <- GameEvents, taken <- stored

Delivery == INSTANCE GameDelivery WITH
    Events <- GameEvents,
    Rooms <- Games,
    Poison <- {},
    GameOf <- GameOfEvent,
    RoomOf <- GameOfEvent,
    At <- OccurredAt,
    NoRoom <- NoGame,
    phase <- work

\* What GameDelivery assumes of these constants.
PipelineAssumption == Delivery!ConstantsAssumption /\ Delivery!NoMessageAssumption

EventOf(r) == [subject |-> r.subject, game |-> r.game]

\* The events ever inserted into the outbox.
Enqueued == {EventOf(outbox[i]) : i \in 1..Len(outbox)}

PipelineInit ==
    /\ Init
    /\ Relays!Init
    /\ Delivery!Init

\* The client or the application moves; what that inserts is pending.
Detect ==
    /\ Next
    /\ owed' = owed \union (Enqueued' \ Enqueued)
    /\ UNCHANGED <<stored, deliveryVars>>

\* A relay publishes an event: the stream stores it, or knows its ID already.
Relay(e) ==
    /\ Relays!Take(e)
    /\ Delivery!Accept(e) \/ (e \in stored /\ UNCHANGED deliveryVars)
    /\ UNCHANGED vars

\* A publication given up by its sender arrives after the event was accepted
\* through another, outside the duplicate window.
RelayLate(e) ==
    /\ e \in stored
    /\ Delivery!Accept(e)
    /\ UNCHANGED <<vars, outboxVars>>

\* A relay marks an event as published.
Mark(e) ==
    /\ Relays!Release(e)
    /\ UNCHANGED <<vars, deliveryVars>>

\* The consumers, the operators and the passing of time.
Consume == Delivery!Consume /\ UNCHANGED <<vars, outboxVars>>

PipelineNext ==
    \/ Detect
    \/ \E e \in GameEvents : Relay(e) \/ RelayLate(e) \/ Mark(e)
    \/ Consume

PipelineSpec == PipelineInit /\ [][PipelineNext]_pipelineVars

-----------------------------------------------------------------------------
(***************************************************************************)
(* Properties.                                                             *)
(***************************************************************************)

\* A copy of e is in the stream and has not been settled.
InStream(e) == \E m \in Delivery!Messages : m[1] = e /\ msg[m] = "pending"

\* A dead letter holds e.
Buried(e) == \E d \in dlq : d[1][1] = e

(***************************************************************************)
(* From its insertion on, an event is at every moment pending in the       *)
(* outbox, pending in the stream, applied to its session, or held by a     *)
(* dead letter, whatever fails and is repeated on the way (Enqueue,        *)
(* RelayOnce, StartGameEventsConsumer, Replay).                            *)
(***************************************************************************)
EventsAccounted ==
    \A e \in Enqueued : e \in owed \/ InStream(e) \/ e \in Delivery!Applied \/ Buried(e)

\* No event is on its way, and operators have emptied the dead letters.
Drained ==
    /\ owed = {} /\ dlq = {}
    /\ \A e \in GameEvents : ~InStream(e)

(***************************************************************************)
(* As long as every phase is polled and reaches the tracker, the sessions  *)
(* are the history of the games whenever the lobby is seen and the         *)
(* pipeline has drained: a session has a start exactly if its game was     *)
(* played and an end exactly if it finished, however its events were       *)
(* repeated, reordered, buried and replayed (from Observe to               *)
(* ProcessGameStarted and ProcessGameEnded).                               *)
(***************************************************************************)
SessionsAreHistory ==
    ~missed /\ ~blocked /\ ~restarted /\ phase = "Lobby" /\ polled /\ Drained =>
        \A g \in Games :
            /\ startedAt[g] # Delivery!NoTime <=> g \in played
            /\ endedAt[g] # Delivery!NoTime <=> g \in over

(***************************************************************************)
(* Unless a phase was missed, no session has a start whose game was not    *)
(* played, whatever fails and wherever its events are (Observe,            *)
(* ProcessGameStarted).                                                    *)
(***************************************************************************)
SessionsArePlayed ==
    ~missed => \A g \in Games : startedAt[g] # Delivery!NoTime => g \in played
=============================================================================
