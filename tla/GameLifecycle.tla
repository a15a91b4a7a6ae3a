--------------------------- MODULE GameLifecycle ---------------------------
(***************************************************************************)
(* Detection of game lifecycle transitions: the champion-select poller     *)
(* (internal/services/lol_client_service.go), the tracker                  *)
(* (game_lifecycle.go) and the service that persists each transition to    *)
(* the outbox before it observes anything else (game_lifecycle_service.go),*)
(* driven by a League client that plays a sequence of games.               *)
(*                                                                         *)
(* Games are numbered in the order their champion selects open; a game has *)
(* one room.  Phases the tracker treats alike are one phase here: "Lobby"  *)
(* stands for Lobby and None, "EndOfGame" for WaitingForStats,             *)
(* PreEndOfGame and EndOfGame, "GameStart" for the phases it ignores.      *)
(***************************************************************************)
EXTENDS Integers, Sequences

CONSTANT MaxGames       \* bound: champion selects opened

ASSUME ConstantsAssumption == MaxGames \in Nat

VARIABLES
    phase,          \* the client's gameflow phase
    game,           \* the latest champion select's game
    polled,         \* has the poller seen the current phase?
    played,         \* history: games that reached InProgress
    over,           \* history: games that reached their end
    gameID,         \* tracker: the game it follows (0: none)
    started,        \* tracker: its game.started has been emitted
    pending,        \* service: the event it has not managed to enqueue
    lastID,         \* history: the number of event IDs drawn
    outbox,         \* outbox_events, in insertion order
    missed,         \* history: some phase passed without being polled
    blocked,        \* history: some polled phase did not reach the tracker
    restarted       \* history: the application has restarted

clientVars == <<phase, game, polled, played, over>>
trackerVars == <<gameID, started>>
serviceVars == <<pending, lastID, outbox>>
faultVars == <<missed, blocked, restarted>>
vars == <<clientVars, trackerVars, serviceVars, faultVars>>

Phases == {"Lobby", "ChampSelect", "GameStart", "InProgress", "EndOfGame"}
Games == 1..MaxGames
NoGame == 0
OutboxEvent == [id : Nat \ {0}, subject : {"game.started", "game.ended"}, game : Games]
NoEvent == <<>>

TypeOK ==
    /\ phase \in Phases
    /\ game \in Games \union {NoGame}
    /\ polled \in BOOLEAN
    /\ played \subseteq Games /\ over \subseteq Games
    /\ gameID \in Games \union {NoGame}
    /\ started \in BOOLEAN
    /\ pending \in OutboxEvent \union {NoEvent}
    /\ lastID \in Nat
    /\ outbox \in Seq(OutboxEvent)
    /\ missed \in BOOLEAN /\ blocked \in BOOLEAN /\ restarted \in BOOLEAN

Init ==
    /\ phase = "Lobby" /\ game = NoGame /\ polled = FALSE
    /\ played = {} /\ over = {}
    /\ gameID = NoGame /\ started = FALSE
    /\ pending = NoEvent /\ lastID = 0 /\ outbox = <<>>
    /\ missed = FALSE /\ blocked = FALSE /\ restarted = FALSE

-----------------------------------------------------------------------------
(***************************************************************************)
(* The League client.  The poller may miss a phase: its connection to the  *)
(* client fails, or the phase is shorter than the polling interval.        *)
(***************************************************************************)

MoveTo(next) ==
    /\ phase' = next
    /\ polled' = FALSE
    /\ missed' = (missed \/ ~polled)
    /\ UNCHANGED <<trackerVars, serviceVars, blocked, restarted>>

OpenChampSelect ==
    /\ phase = "Lobby" /\ game < MaxGames
    /\ MoveTo("ChampSelect")
    /\ game' = game + 1
    /\ UNCHANGED <<played, over>>

Dodge ==
    /\ phase = "ChampSelect"
    /\ MoveTo("Lobby")
    /\ UNCHANGED <<game, played, over>>

LockIn ==
    /\ phase = "ChampSelect"
    /\ MoveTo("GameStart")
    /\ UNCHANGED <<game, played, over>>

Begin ==
    /\ phase = "GameStart"
    /\ MoveTo("InProgress")
    /\ played' = played \union {game}
    /\ UNCHANGED <<game, over>>

End ==
    /\ phase = "InProgress"
    /\ MoveTo("EndOfGame")
    /\ over' = over \union {game}
    /\ UNCHANGED <<game, played>>

BackToLobby ==
    /\ phase = "EndOfGame"
    /\ MoveTo("Lobby")
    /\ UNCHANGED <<game, played, over>>

-----------------------------------------------------------------------------
(***************************************************************************)
(* The tracker: what Observe(ph, g) leaves in it, and the subject of the   *)
(* transition it returns, if any.                                          *)
(***************************************************************************)

NoSubject == ""

ObservedSubject(ph) ==
    CASE ph = "InProgress" /\ ~started /\ gameID # NoGame -> "game.started"
      [] ph = "EndOfGame" /\ started -> "game.ended"
      [] OTHER -> NoSubject

Reset == gameID' = NoGame /\ started' = FALSE

\* Mutants of TrackerObserve: a dodged champion select is never forgotten; the
\* end of a game does not reset the tracker.
TrackerObserveKeepsFirst(ph, g) ==
    \/ ph = "ChampSelect" /\ gameID' = (IF gameID = NoGame THEN g ELSE gameID) /\ UNCHANGED started
    \/ ph = "InProgress" /\ started' = (gameID # NoGame) /\ UNCHANGED gameID
    \/ ph = "EndOfGame" /\ IF started THEN Reset ELSE UNCHANGED trackerVars
    \/ ph \in {"Lobby", "GameStart"} /\ UNCHANGED trackerVars
TrackerObserveNeverEnds(ph, g) ==
    \/ ph = "ChampSelect" /\ gameID' = g /\ UNCHANGED started
    \/ ph = "InProgress" /\ started' = (gameID # NoGame) /\ UNCHANGED gameID
    \/ ph = "Lobby" /\ IF ~started THEN Reset ELSE UNCHANGED trackerVars
    \/ ph \in {"EndOfGame", "GameStart"} /\ UNCHANGED trackerVars

TrackerObserve(ph, g) ==
    \/ ph = "ChampSelect" /\ gameID' = g /\ UNCHANGED started
    \/ ph = "InProgress" /\ started' = (gameID # NoGame) /\ UNCHANGED gameID
    \/ ph = "EndOfGame" /\ IF started THEN Reset ELSE UNCHANGED trackerVars
    \/ ph = "Lobby" /\ IF ~started THEN Reset ELSE UNCHANGED trackerVars
    \/ ph = "GameStart" /\ UNCHANGED trackerVars

-----------------------------------------------------------------------------
(***************************************************************************)
(* The service.                                                            *)
(***************************************************************************)

\* ON CONFLICT (id) DO NOTHING
Insert(rows, event) ==
    IF \E i \in 1..Len(rows) : rows[i].id = event.id
    THEN rows ELSE Append(rows, event)

\* Mutant of ObserveBlocked: the event is built anew for the next attempt.
ObserveBlockedRebuilds ==
    /\ pending # NoEvent
    /\ lastID' = lastID + 1
    /\ pending' = [pending EXCEPT !.id = lastID + 1]
    /\ outbox' \in {outbox, Insert(outbox, pending)}
    /\ blocked' = TRUE
    /\ UNCHANGED trackerVars

\* Enqueueing the pending event returns an error, whether or not the row was
\* inserted: Observe returns before the tracker sees the phase.
ObserveBlocked ==
    /\ pending # NoEvent
    /\ pending' = pending
    /\ outbox' \in {outbox, Insert(outbox, pending)}
    /\ blocked' = TRUE
    /\ UNCHANGED <<trackerVars, lastID>>

\* Mutants of ObservePhase: the pending event is retried after the new one; an
\* event that cannot be enqueued is forgotten.
ObservePhaseRetriesLast(ph, g) ==
    LET subject == ObservedSubject(ph)
        event == [id |-> lastID + 1, subject |-> subject, game |-> gameID]
        rows == IF subject = NoSubject THEN outbox ELSE Insert(outbox, event)
    IN
    /\ TrackerObserve(ph, g)
    /\ UNCHANGED blocked
    /\ lastID' = IF subject = NoSubject THEN lastID ELSE lastID + 1
    /\ \/ pending' = NoEvent /\ outbox' = IF pending = NoEvent THEN rows ELSE Insert(rows, pending)
       \/ pending = NoEvent /\ subject # NoSubject /\ pending' = event /\ UNCHANGED outbox
       \/ pending # NoEvent /\ pending' = pending /\ outbox' = rows
ObservePhaseForgets(ph, g) ==
    LET subject == ObservedSubject(ph)
        event == [id |-> lastID + 1, subject |-> subject, game |-> gameID]
    IN
    /\ TrackerObserve(ph, g)
    /\ UNCHANGED <<blocked, pending>>
    /\ IF subject = NoSubject
       THEN UNCHANGED <<outbox, lastID>>
       ELSE lastID' = lastID + 1 /\ outbox' \in {outbox, Insert(outbox, event)}

\* There is nothing pending, or it is enqueued now, and the tracker is told.
ObservePhase(ph, g) ==
    LET rows == IF pending = NoEvent THEN outbox ELSE Insert(outbox, pending)
        subject == ObservedSubject(ph)
        event == [id |-> lastID + 1, subject |-> subject, game |-> gameID]
    IN
    /\ TrackerObserve(ph, g)
    /\ UNCHANGED blocked
    /\ IF subject = NoSubject
       THEN pending' = NoEvent /\ outbox' = rows /\ UNCHANGED lastID
       ELSE /\ lastID' = lastID + 1
            /\ \/ pending' = NoEvent /\ outbox' = Insert(rows, event)
               \/ /\ pending' = event
                  /\ outbox' \in {rows, Insert(rows, event)}

\* One tick of the poller: the phase it reads goes to the service.
Poll ==
    /\ ObserveBlocked \/ ObservePhase(phase, game)
    /\ polled' = TRUE
    /\ UNCHANGED <<phase, game, played, over, missed, restarted>>

\* The application restarts: tracker and pending event are in memory only.
Restart ==
    /\ Reset
    /\ pending' = NoEvent
    /\ restarted' = TRUE
    /\ UNCHANGED <<clientVars, lastID, outbox, missed, blocked>>

ClientStep == OpenChampSelect \/ Dodge \/ LockIn \/ Begin \/ End \/ BackToLobby

Next == ClientStep \/ Poll \/ Restart

Spec == Init /\ [][Next]_vars

-----------------------------------------------------------------------------
(***************************************************************************)
(* Properties.                                                             *)
(***************************************************************************)

Has(subject, g) == \E i \in 1..Len(outbox) : outbox[i].subject = subject /\ outbox[i].game = g

\* The outbox is the complete history: the lobby has been observed, exactly
\* the played games have a start and exactly the finished ones an end.
Complete ==
    phase = "Lobby" /\ polled =>
        \A g \in Games : /\ Has("game.started", g) <=> g \in played
                         /\ Has("game.ended", g) <=> g \in over

(***************************************************************************)
(* Whatever fails, no game gets two game.started or two game.ended events: *)
(* a retry keeps the event ID, and a restart never emits again (Observe,   *)
(* enqueuePending).                                                        *)
(***************************************************************************)
OneEventPerTransition ==
    \A i, j \in 1..Len(outbox) :
        outbox[i].subject = outbox[j].subject /\ outbox[i].game = outbox[j].game => i = j

(***************************************************************************)
(* Unless a phase was missed, game.started is only emitted for a game that *)
(* was played, also when observations are blocked by a failing outbox or   *)
(* the application restarts (Observe's resets).                            *)
(***************************************************************************)
StartsArePlayed ==
    ~missed => \A i \in 1..Len(outbox) :
        outbox[i].subject = "game.started" => outbox[i].game \in played

(***************************************************************************)
(* Whatever fails, a game's game.ended never precedes its game.started in  *)
(* the outbox: a pending start is enqueued before the end is observed      *)
(* (Observe).                                                              *)
(***************************************************************************)
StartBeforeEnd ==
    \A i, j \in 1..Len(outbox) :
        (outbox[i].subject = "game.ended" /\ outbox[j].subject = "game.started"
            /\ outbox[i].game = outbox[j].game) => j < i

(***************************************************************************)
(* As long as every phase is polled and reaches the tracker, the outbox is *)
(* the complete history, also if the first attempt to enqueue any event    *)
(* fails (StartChampSelectSync, Observe).                                  *)
(***************************************************************************)
HistoryComplete == ~missed /\ ~blocked /\ ~restarted => Complete

(***************************************************************************)
(* An event ID once drawn is stored or still pending until the application *)
(* restarts: no failure makes the service drop an event it has built       *)
(* (Observe, enqueuePending).                                              *)
(***************************************************************************)
NoEventForgotten ==
    ~restarted => \A n \in 1..lastID :
        \/ pending # NoEvent /\ pending.id = n
        \/ \E i \in 1..Len(outbox) : outbox[i].id = n

(***************************************************************************)
(* ADR 001: losing lifecycle events "is not acceptable", and "if           *)
(* enqueueing temporarily fails" the service retains the event and retries *)
(* it.  A failing outbox alone would then lose nothing; but the phases     *)
(* polled meanwhile never reach the tracker (Observe's early return).      *)
(***************************************************************************)
OutageLosesNothing == ~missed /\ ~restarted => Complete
=============================================================================
