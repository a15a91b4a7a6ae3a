----------------------------- MODULE BrokerLink -----------------------------
(***************************************************************************)
(* The outbox relays over the one NATS connection that each application    *)
(* process has (internal/messaging/nats.go).  OutboxRelay lets every       *)
(* publication fail; here one succeeds only over an open connection.       *)
(*                                                                         *)
(* messaging.New passes no MaxReconnects option, so the library's default  *)
(* holds: it closes the connection for good after 60 failed attempts, two  *)
(* seconds apart.  ClosedHandler logs that, and nothing opens a new one.   *)
(***************************************************************************)
EXTENDS OutboxRelay

CONSTANT MaxReconnects  \* attempts after which the library gives up

ASSUME MaxReconnectsAssumption == MaxReconnects \in Nat \ {0}

VARIABLES
    broker,         \* is the NATS server reachable?
    link,           \* the connection of each process
    tries           \* its failed attempts to reconnect

linkVars == <<broker, link, tries>>
allVars == <<vars, linkVars>>

LinkTypeOK ==
    /\ TypeOK
    /\ broker \in BOOLEAN
    /\ link \in [Relays -> {"connected", "reconnecting", "closed"}]
    /\ tries \in [Relays -> 0..MaxReconnects]
    /\ \A r \in Relays :
          /\ link[r] = "connected" => tries[r] = 0
          /\ link[r] = "closed" <=> tries[r] = MaxReconnects

LinkInit ==
    /\ Init
    /\ broker = TRUE
    /\ link = [r \in Relays |-> "connected"]
    /\ tries = [r \in Relays |-> 0]

-----------------------------------------------------------------------------
(***************************************************************************)
(* The broker and the client library.                                      *)
(***************************************************************************)

BrokerGoes == broker /\ broker' = FALSE /\ UNCHANGED <<vars, link, tries>>

BrokerReturns == ~broker /\ broker' = TRUE /\ UNCHANGED <<vars, link, tries>>

\* The connection breaks: DisconnectErrHandler logs, the library reconnects.
Disconnect(r) ==
    /\ link[r] = "connected" /\ ~broker
    /\ link' = [link EXCEPT ![r] = "reconnecting"]
    /\ UNCHANGED <<vars, broker, tries>>

Reconnected(r) ==
    /\ link' = [link EXCEPT ![r] = "connected"]
    /\ tries' = [tries EXCEPT ![r] = 0]

Reconnect(r) ==
    /\ link[r] = "reconnecting" /\ broker
    /\ Reconnected(r)
    /\ UNCHANGED <<vars, broker>>

\* The attempt after which the library gives up closes the connection.
ReconnectFails(r) ==
    /\ link[r] = "reconnecting" /\ ~broker
    /\ tries' = [tries EXCEPT ![r] = @ + 1]
    /\ link' = IF tries[r] + 1 = MaxReconnects THEN [link EXCEPT ![r] = "closed"] ELSE link
    /\ UNCHANGED <<vars, broker>>

-----------------------------------------------------------------------------
(***************************************************************************)
(* The relays.                                                             *)
(***************************************************************************)

\* The process of r stops and starts again; New fails until it reaches the
\* broker.  Nothing but a crash or an operator makes it happen: the probes ask
\* GET /health, which answers "ok" over a closed connection.
Restart(r) ==
    /\ broker
    /\ Crash(r) \/ (pc[r] = "idle" /\ UNCHANGED vars)
    /\ Reconnected(r)
    /\ UNCHANGED broker

\* Statements and decisions of r that do not need the broker.
Locally(r) ==
    /\ \/ Claim(r) \/ ClaimUnanswered(r)
       \/ MarkPublished(r) \/ MarkFailed(r) \/ MarkError(r)
       \/ Finish(r) \/ Expire(r)
    /\ UNCHANGED linkVars

\* PublishDurable is acknowledged.
PublishOverLink(r, e) ==
    /\ link[r] = "connected" /\ broker
    /\ Publish(r, e)
    /\ UNCHANGED linkVars

\* It is not.  A closed connection refuses at once; one that reconnects may have
\* buffered the event.
PublishFails(r, e) ==
    /\ PublishError(r, e)
    /\ link[r] = "closed" => UNCHANGED streamVars
    /\ ~broker => UNCHANGED stored
    /\ UNCHANGED linkVars

\* What is on its way arrives while the broker can be reached.
Receives(e) == broker /\ StreamReceives(e) /\ UNCHANGED linkVars

-----------------------------------------------------------------------------

LinkNext ==
    \/ BrokerGoes \/ BrokerReturns
    \/ \E r \in Relays :
          \/ Disconnect(r) \/ Reconnect(r) \/ ReconnectFails(r)
          \/ Restart(r) \/ Locally(r)
          \/ \E e \in Events : PublishOverLink(r, e) \/ PublishFails(r, e)
    \/ \E e \in Events : Receives(e) \/ (Enqueue(e) /\ UNCHANGED linkVars)
    \/ (Cleanup \/ Tick) /\ UNCHANGED linkVars

LinkSpec == LinkInit /\ [][LinkNext]_allVars

(***************************************************************************)
(* Fairness.  Time passes, the library runs, and every relay loops on its  *)
(* ticker (Start).  PostgreSQL and JetStream may fail any number of times  *)
(* but not for ever: a claim, a mark, or a publication over an open        *)
(* connection that is tried again and again succeeds at some point.        *)
(***************************************************************************)
Fairness ==
    /\ WF_allVars(Tick /\ UNCHANGED linkVars)
    /\ \A r \in Relays :
        /\ WF_allVars(Reconnect(r))
        /\ SF_allVars(Claim(r) /\ UNCHANGED linkVars)
        /\ WF_allVars((Finish(r) \/ Expire(r)) /\ UNCHANGED linkVars)
    /\ \A e \in Events : SF_allVars(\E r \in Relays : PublishOverLink(r, e))
    /\ SF_allVars(\E r \in Relays : MarkPublished(r) /\ UNCHANGED linkVars)

FairLinkSpec == LinkSpec /\ Fairness

-----------------------------------------------------------------------------
(***************************************************************************)
(* Every enqueued event is eventually accepted by the stream and marked    *)
(* once the broker is back to stay, as long as the process whose clock is  *)
(* ahead of the others' has not lost its connection for good: "Publication *)
(* failures are recorded in the outbox and retried with exponential        *)
(* backoff" (docs/adr/001; Start, RelayOnce, ClaimPending).  The condition *)
(* is needed: once the library of that process has given up, it can still  *)
(* claim every event before the others find it due, and retry it over the  *)
(* closed connection until somebody restarts it.                           *)
(***************************************************************************)
Ahead(r) == \A s \in Relays : skew[s] <= skew[r]

EventuallyPublished ==
    \A r \in Relays :
        <>[](broker /\ Ahead(r) /\ link[r] # "closed")
            => \A e \in Events : row[e] = "pending" ~> row[e] # "pending"
=============================================================================
