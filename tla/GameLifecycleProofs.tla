----------------------- MODULE GameLifecycleProofs -----------------------
(***************************************************************************)
(* Proofs about the detection of game lifecycle transitions, for any       *)
(* number of games.  An event is drawn when the tracker returns its        *)
(* transition; from then on it is pending, in the outbox, or forgotten by  *)
(* a restart.  The inductive invariant speaks of the drawn events as a     *)
(* set: what the tracker follows decides which event can be drawn next,    *)
(* and the IDs, which grow with every draw, order the rows.                *)
(*                                                                         *)
(* At the end, the pipeline of which the detection is the first part: what *)
(* is proved here and in GameDeliveryProofs is put together.               *)
(***************************************************************************)
EXTENDS GamePipeline, TLAPS

USE ConstantsAssumption DEF Games, NoGame, NoSubject, Phases

Rows(s) == {s[i] : i \in 1..Len(s)}

Increasing(s) == \A i, j \in 1..Len(s) : i < j => s[i].id < s[j].id

\* The events drawn and not forgotten by a restart.
Drawn == Rows(outbox) \union (IF pending = NoEvent THEN {} ELSE {pending})

\* Rows are in the order of their IDs, and the pending event is the last one drawn.
Ordered ==
    /\ Increasing(outbox)
    /\ \A e \in Drawn : e.id <= lastID
    /\ \A e, f \in Drawn : e.id = f.id => e = f
    /\ pending # NoEvent => pending.id = lastID

\* The champion select of game g is over.
Past(g) == g < game \/ (g = game /\ phase # "ChampSelect")

\* The tracker follows a game the client has opened, and the events drawn for the
\* game it follows are at most the start.
Follows ==
    /\ phase # "Lobby" => game # NoGame
    /\ gameID <= game
    /\ started => gameID # NoGame
    /\ \A e \in Drawn : e.game = gameID => e.subject = "game.started" /\ started

\* No transition is drawn twice, and no start after its end.
DrawnOnce ==
    /\ \A e \in Drawn : Past(e.game)
    /\ \A e, f \in Drawn : e.subject = f.subject /\ e.game = f.game => e = f
    /\ \A e, f \in Drawn :
          e.subject = "game.started" /\ f.subject = "game.ended" /\ e.game = f.game
             => e.id < f.id

Remembered == ~restarted => \A n \in 1..lastID : \E e \in Drawn : e.id = n

LifecycleInv == TypeOK /\ Ordered /\ Follows /\ DrawnOnce /\ Remembered

-----------------------------------------------------------------------------
(***************************************************************************)
(* Sequences of rows.                                                      *)
(***************************************************************************)

LEMMA Types ==
  ASSUME LifecycleInv
  PROVE  /\ phase \in Phases /\ started \in BOOLEAN /\ missed \in BOOLEAN
         /\ game \in Nat /\ game <= MaxGames /\ gameID \in Nat /\ gameID <= MaxGames
         /\ lastID \in Nat /\ lastID + 1 \in Nat \ {0}
         /\ played \subseteq Games /\ over \subseteq Games
<1>1. game \in Games \union {NoGame} /\ gameID \in Games \union {NoGame} /\ lastID \in Nat
  BY DEF LifecycleInv, TypeOK
<1> QED
  BY <1>1 DEF LifecycleInv, TypeOK

LEMMA DrawnTypes ==
  ASSUME LifecycleInv
  PROVE  \A e \in Drawn : /\ e \in OutboxEvent /\ e.game \in Games /\ e.game # NoGame
                         /\ e.id \in Nat /\ e.id <= lastID
<1>1. \A e \in Drawn : e \in OutboxEvent
  BY DEF LifecycleInv, TypeOK, Drawn, Rows
<1>2. \A e \in OutboxEvent : e.game \in Games /\ e.game # NoGame /\ e.id \in Nat
  BY DEF OutboxEvent
<1> QED
  BY <1>1, <1>2 DEF LifecycleInv, Ordered

LEMMA EventIsNotNone == \A e \in OutboxEvent : e # NoEvent
<1>1. \A e \in OutboxEvent : "id" \in DOMAIN e
  BY DEF OutboxEvent
<1>2. DOMAIN NoEvent = {}
  BY DEF NoEvent
<1> QED
  BY <1>1, <1>2

\* ON CONFLICT DO NOTHING keeps the order of the IDs and adds at most the event.
LEMMA InsertFacts ==
  ASSUME NEW s \in Seq(OutboxEvent), Increasing(s), NEW e \in OutboxEvent,
         \A r \in Rows(s) : r.id <= e.id /\ (r.id = e.id => r = e)
  PROVE  /\ Insert(s, e) \in Seq(OutboxEvent)
         /\ Increasing(Insert(s, e))
         /\ Rows(Insert(s, e)) = Rows(s) \union {e}
<1>1. CASE \E i \in 1..Len(s) : s[i].id = e.id
  <2>1. e \in Rows(s)
    BY <1>1 DEF Rows
  <2> QED
    BY <1>1, <2>1 DEF Insert
<1>2. CASE ~ \E i \in 1..Len(s) : s[i].id = e.id
  <2>1. Insert(s, e) = Append(s, e)
    BY <1>2 DEF Insert
  <2>2. /\ Len(Append(s, e)) = Len(s) + 1
        /\ \A i \in 1..Len(s) : Append(s, e)[i] = s[i]
        /\ Append(s, e)[Len(s) + 1] = e
        /\ Len(s) \in Nat
        /\ Append(s, e) \in Seq(OutboxEvent)
    OBVIOUS
  <2>3. Rows(Append(s, e)) = Rows(s) \union {e}
    BY <2>2 DEF Rows
  <2>4. \A i \in 1..Len(s) : s[i].id < e.id
    <3> TAKE i \in 1..Len(s)
    <3>1. s[i] \in Rows(s) /\ s[i] \in OutboxEvent
      BY DEF Rows
    <3> QED
      BY <1>2, <3>1 DEF OutboxEvent
  <2>5. Increasing(Append(s, e))
    BY <2>2, <2>4 DEF Increasing
  <2> QED
    BY <2>1, <2>2, <2>3, <2>5
<1> QED
  BY <1>1, <1>2

-----------------------------------------------------------------------------
(***************************************************************************)
(* What one step does to the drawn events.                                 *)
(***************************************************************************)

\* The event that observing the phase draws.
NewEvent == [id |-> lastID + 1, subject |-> ObservedSubject(phase), game |-> gameID]
NewEvents == IF ObservedSubject(phase) = NoSubject THEN {} ELSE {NewEvent}

LEMMA Subjects ==
  /\ ObservedSubject(phase) = "game.started" <=> phase = "InProgress" /\ ~started /\ gameID # NoGame
  /\ ObservedSubject(phase) = "game.ended" <=> phase = "EndOfGame" /\ started
  /\ ObservedSubject(phase) \in {"game.started", "game.ended", NoSubject}
<1>1. CASE phase = "InProgress" /\ ~started /\ gameID # NoGame
  BY <1>1 DEF ObservedSubject
<1>2. CASE phase = "EndOfGame" /\ started
  BY <1>2 DEF ObservedSubject
<1>3. CASE /\ ~(phase = "InProgress" /\ ~started /\ gameID # NoGame)
           /\ ~(phase = "EndOfGame" /\ started)
  BY <1>3 DEF ObservedSubject
<1> QED
  BY <1>1, <1>2, <1>3

LEMMA EventType ==
  \A n \in Nat \ {0}, s \in {"game.started", "game.ended"}, g \in Games :
      [id |-> n, subject |-> s, game |-> g] \in OutboxEvent
  BY DEF OutboxEvent

LEMMA NewEventType == LifecycleInv => NewEvents \subseteq OutboxEvent
<1> SUFFICES ASSUME LifecycleInv, ObservedSubject(phase) # NoSubject
             PROVE  NewEvent \in OutboxEvent
  BY DEF NewEvents
<1>1. gameID \in Games
  BY Subjects DEF LifecycleInv, TypeOK, Follows
<1>2. ObservedSubject(phase) \in {"game.started", "game.ended"}
  BY Subjects
<1>3. lastID + 1 \in Nat \ {0}
  BY Types
<1> QED
  BY <1>1, <1>2, <1>3, EventType DEF NewEvent

\* The pending event is in the outbox after its insertion, and the order is kept.
LEMMA PendingInserted ==
  ASSUME TypeOK, Ordered, pending # NoEvent
  PROVE  /\ Insert(outbox, pending) \in Seq(OutboxEvent)
         /\ Increasing(Insert(outbox, pending))
         /\ Rows(Insert(outbox, pending)) = Drawn
<1>1. pending \in OutboxEvent /\ outbox \in Seq(OutboxEvent) /\ Increasing(outbox)
  BY DEF TypeOK, Ordered
<1>2. \A r \in Rows(outbox) : r.id <= pending.id /\ (r.id = pending.id => r = pending)
  BY DEF Ordered, Drawn
<1> QED
  BY <1>1, <1>2, InsertFacts DEF Drawn

\* Observing a phase draws the event of its transition and forgets none.
LEMMA Observed ==
  ASSUME LifecycleInv, ObservePhase(phase, game)
  PROVE  /\ Drawn' = Drawn \union NewEvents
         /\ lastID' \in Nat
         /\ pending' \in OutboxEvent \union {NoEvent}
         /\ outbox' \in Seq(OutboxEvent)
         /\ lastID' = IF NewEvents = {} THEN lastID ELSE lastID + 1
         /\ Ordered'
<1> DEFINE rows == IF pending = NoEvent THEN outbox ELSE Insert(outbox, pending)
<1>1. rows \in Seq(OutboxEvent) /\ Increasing(rows) /\ Rows(rows) = Drawn
  <2>1. CASE pending = NoEvent
    BY <2>1 DEF LifecycleInv, TypeOK, Ordered, Drawn
  <2>2. CASE pending # NoEvent
    BY <2>2, PendingInserted DEF LifecycleInv
  <2> QED
    BY <2>1, <2>2
<1>2. lastID \in Nat /\ \A e \in Drawn : e \in OutboxEvent /\ e.id <= lastID
  BY <1>1 DEF LifecycleInv, TypeOK, Ordered, Drawn, Rows
<1>3. CASE ObservedSubject(phase) = NoSubject
  <2>1. pending' = NoEvent /\ outbox' = rows /\ lastID' = lastID /\ NewEvents = {}
    BY <1>3 DEF ObservePhase, NewEvents
  <2>2. Drawn' = Drawn
    BY <1>1, <2>1 DEF Drawn
  <2>3. Ordered'
    BY <1>1, <2>1, <2>2 DEF Ordered, LifecycleInv
  <2> QED
    BY <1>1, <1>2, <2>1, <2>2, <2>3
<1>4. CASE ObservedSubject(phase) # NoSubject
  <2>1. NewEvents = {NewEvent} /\ NewEvent \in OutboxEvent /\ NewEvent.id = lastID + 1
    BY <1>4, NewEventType DEF NewEvents, NewEvent
  <2>2. \A r \in Rows(rows) : r.id <= NewEvent.id /\ (r.id = NewEvent.id => r = NewEvent)
    BY <1>1, <1>2, <2>1 DEF OutboxEvent
  <2> DEFINE more == Insert(rows, NewEvent)
  <2>3. more \in Seq(OutboxEvent) /\ Increasing(more) /\ Rows(more) = Drawn \union {NewEvent}
    BY <1>1, <2>1, <2>2, InsertFacts
  <2>4. /\ lastID' = lastID + 1
        /\ \/ pending' = NoEvent /\ outbox' = more
           \/ pending' = NewEvent /\ outbox' \in {rows, more}
    BY <1>4 DEF ObservePhase, NewEvent
  <2>5. NewEvent # NoEvent
    BY <2>1, EventIsNotNone
  <2>6. Drawn' = Drawn \union {NewEvent}
    BY <1>1, <2>3, <2>4, <2>5 DEF Drawn
  <2>7. Ordered'
    <3>1. Increasing(outbox)'
      BY <1>1, <2>3, <2>4
    <3>2. \A e \in Drawn' : e.id <= lastID'
      BY <1>2, <2>1, <2>4, <2>6 DEF OutboxEvent
    <3>3. \A e, f \in Drawn' : e.id = f.id => e = f
      BY <1>2, <2>1, <2>6 DEF OutboxEvent, Ordered, LifecycleInv
    <3>4. pending' # NoEvent => pending'.id = lastID'
      BY <2>1, <2>4
    <3> QED
      BY <3>1, <3>2, <3>3, <3>4 DEF Ordered
  <2> QED
    BY <1>1, <1>2, <2>1, <2>3, <2>4, <2>6, <2>7
<1> QED
  BY <1>3, <1>4

\* A blocked observation and a restart draw nothing.
LEMMA Blocked ==
  ASSUME LifecycleInv, ObserveBlocked
  PROVE  Drawn' = Drawn /\ Ordered' /\ outbox' \in Seq(OutboxEvent)
<1>1. /\ pending # NoEvent /\ pending' = pending /\ lastID' = lastID
      /\ outbox' \in {outbox, Insert(outbox, pending)}
  BY DEF ObserveBlocked
<1>2. /\ Insert(outbox, pending) \in Seq(OutboxEvent)
      /\ Increasing(Insert(outbox, pending))
      /\ Rows(Insert(outbox, pending)) = Drawn
  BY <1>1, PendingInserted DEF LifecycleInv
<1>3. Drawn' = Drawn
  BY <1>1, <1>2 DEF Drawn
<1> QED
  BY <1>1, <1>2, <1>3 DEF Ordered, LifecycleInv, TypeOK

LEMMA Restarted ==
  ASSUME LifecycleInv, Restart
  PROVE  Drawn' \subseteq Drawn /\ Ordered'
<1>1. pending' = NoEvent /\ outbox' = outbox /\ lastID' = lastID
  BY DEF Restart
<1>2. Drawn' = Rows(outbox)
  BY <1>1 DEF Drawn
<1> QED
  BY <1>1, <1>2 DEF Ordered, Drawn, LifecycleInv

-----------------------------------------------------------------------------
(***************************************************************************)
(* The invariant is inductive.                                             *)
(***************************************************************************)

\* A client step changes neither the tracker nor the events, and a game whose
\* champion select is over stays over.
LEMMA ClientKeeps ==
  ASSUME LifecycleInv, ClientStep
  PROVE  LifecycleInv'
<1>1. /\ UNCHANGED <<gameID, started, pending, lastID, outbox, blocked, restarted>>
      /\ polled' = FALSE /\ missed' = (missed \/ ~polled)
  BY DEF ClientStep, OpenChampSelect, Dodge, LockIn, Begin, End, BackToLobby, MoveTo,
         trackerVars, serviceVars
<1>b. polled \in BOOLEAN /\ (phase # "Lobby" => game # NoGame)
  BY DEF LifecycleInv, TypeOK, Follows
<1>a. /\ phase' \in Phases /\ game' \in Games \union {NoGame}
      /\ played' \subseteq Games /\ over' \subseteq Games
      /\ game <= game'
      /\ game' = game => phase' # "ChampSelect"
      /\ phase' # "Lobby" => game' # NoGame
  <2>1. CASE OpenChampSelect
    BY <2>1, Types DEF OpenChampSelect, MoveTo
  <2>2. CASE Dodge \/ LockIn \/ BackToLobby
    BY <2>2, <1>b, Types DEF Dodge, LockIn, BackToLobby, MoveTo
  <2>3. CASE Begin \/ End
    BY <2>3, <1>b, Types DEF Begin, End, MoveTo
  <2> QED
    BY <2>1, <2>2, <2>3 DEF ClientStep
<1>2. game \in Nat /\ gameID \in Nat /\ game' \in Nat
  BY <1>a, Types
<1>3. Drawn' = Drawn
  BY <1>1 DEF Drawn
<1>4. \A e \in Drawn : e \in OutboxEvent
  BY DEF LifecycleInv, TypeOK, Drawn, Rows
<1>5. TypeOK'
  BY <1>1, <1>a, <1>b DEF LifecycleInv, TypeOK
<1>6. Ordered' /\ Remembered'
  BY <1>1, <1>3 DEF LifecycleInv, Ordered, Remembered
<1>7. Follows'
  BY <1>1, <1>2, <1>3, <1>a DEF LifecycleInv, Follows
<1>8. \A e \in Drawn : Past(e.game) => Past(e.game)'
  BY <1>a, <1>2, <1>4 DEF Past, OutboxEvent
<1>9. DrawnOnce'
  BY <1>3, <1>8 DEF LifecycleInv, DrawnOnce
<1> QED
  BY <1>5, <1>6, <1>7, <1>9 DEF LifecycleInv

\* Observing: the start of a game is drawn once, while the tracker follows it, and
\* after its end is drawn the tracker never follows it again.
LEMMA ObservedKeeps ==
  ASSUME LifecycleInv, Poll, ObservePhase(phase, game)
  PROVE  LifecycleInv'
<1>1. UNCHANGED <<phase, game, played, over, missed, restarted, blocked>> /\ polled' = TRUE
  BY DEF Poll, ObservePhase
<1>2. /\ Drawn' = Drawn \union NewEvents
      /\ lastID' = IF NewEvents = {} THEN lastID ELSE lastID + 1
      /\ pending' \in OutboxEvent \union {NoEvent} /\ outbox' \in Seq(OutboxEvent)
      /\ Ordered'
  BY Observed
<1>3. \A e \in Drawn : e.game \in Games /\ e.game # NoGame /\ e.id <= lastID /\ e.id \in Nat
  BY DrawnTypes
<1>4. \A e \in NewEvents :
         /\ e.id = lastID + 1 /\ e.game = gameID /\ gameID # NoGame
         /\ \/ e.subject = "game.started" /\ phase = "InProgress" /\ ~started
            \/ e.subject = "game.ended" /\ phase = "EndOfGame" /\ started
  <2>1. started => gameID # NoGame
    BY DEF LifecycleInv, Follows
  <2>2. NewEvents \subseteq {NewEvent} /\ (NewEvents # {} => ObservedSubject(phase) # NoSubject)
    BY DEF NewEvents
  <2>3. /\ NewEvent.id = lastID + 1 /\ NewEvent.game = gameID
        /\ NewEvent.subject = ObservedSubject(phase)
    BY DEF NewEvent
  <2> QED
    BY <2>1, <2>2, <2>3, Subjects
<1>5. TrackerObserve(phase, game)
  BY DEF ObservePhase
<1>6. TypeOK'
  <2>1. gameID' \in Games \union {NoGame} /\ started' \in BOOLEAN
    <3>1. gameID \in Games \union {NoGame} /\ game \in Games \union {NoGame} /\ started \in BOOLEAN
      BY DEF LifecycleInv, TypeOK
    <3> QED
      BY <1>5, <3>1 DEF TrackerObserve, Reset, trackerVars
  <2>2. lastID' \in Nat
    BY <1>2, Types
  <2> QED
    BY <1>1, <1>2, <2>1, <2>2 DEF LifecycleInv, TypeOK
<1>7. Follows'
  <2>1. \A e \in Drawn : /\ e.game = gameID => e.subject = "game.started" /\ started
                         /\ Past(e.game)
    BY DEF LifecycleInv, Follows, DrawnOnce
  <2>2. (phase # "Lobby" => game # NoGame) /\ gameID <= game /\ (started => gameID # NoGame)
    BY DEF LifecycleInv, Follows
  <2>3. CASE phase = "ChampSelect"
    <3>1. gameID' = game /\ started' = started /\ NewEvents = {}
      BY <1>4, <1>5, <2>3 DEF TrackerObserve
    <3>2. \A e \in Drawn : e.game # game
      BY <1>3, <2>1, <2>3, Types DEF Past
    <3> QED
      BY <1>1, <1>2, <2>2, <2>3, <3>1, <3>2, Types DEF Follows
  <2>4. CASE phase = "InProgress"
    <3>1. gameID' = gameID /\ started' = (gameID # NoGame)
      BY <1>5, <2>4 DEF TrackerObserve
    <3> QED
      BY <1>1, <1>2, <1>3, <1>4, <2>1, <2>2, <2>4, <3>1, Types DEF Follows
  <2>5. CASE phase \notin {"ChampSelect", "InProgress"}
    <3>1. Reset \/ (UNCHANGED trackerVars /\ NewEvents = {})
      BY <1>4, <1>5, <2>5 DEF TrackerObserve
    <3>2. CASE Reset
      BY <1>1, <1>2, <1>3, <1>4, <2>2, <3>2, Types DEF Reset, Follows
    <3>3. CASE UNCHANGED trackerVars /\ NewEvents = {}
      BY <1>1, <1>2, <2>1, <2>2, <3>3 DEF trackerVars, Follows
    <3> QED
      BY <3>1, <3>2, <3>3
  <2> QED
    BY <2>3, <2>4, <2>5
<1>8. DrawnOnce'
  <2>1. \A e \in Drawn : /\ e.game = gameID => e.subject = "game.started" /\ started
                         /\ Past(e.game)
    BY DEF LifecycleInv, Follows, DrawnOnce
  <2>2. \A e \in Drawn' : Past(e.game)'
    <3>1. \A e \in NewEvents : Past(e.game)
      BY <1>4, Types DEF Past, LifecycleInv, Follows
    <3> QED
      BY <1>1, <1>2, <2>1, <3>1 DEF Past
  <2>3. \A e, f \in Drawn' : e.subject = f.subject /\ e.game = f.game => e = f
    <3>1. \A e, f \in NewEvents : e = f
      BY DEF NewEvents
    <3>2. \A e \in Drawn, f \in NewEvents : ~(e.subject = f.subject /\ e.game = f.game)
      BY <1>4, <2>1
    <3> QED
      BY <1>2, <3>1, <3>2 DEF LifecycleInv, DrawnOnce
  <2>4. \A e, f \in Drawn' :
           e.subject = "game.started" /\ f.subject = "game.ended" /\ e.game = f.game
              => e.id < f.id
    <3>1. \A e \in Drawn, f \in NewEvents : e.id < f.id
      BY <1>3, <1>4, Types
    <3>2. \A e \in NewEvents, f \in Drawn : e.game = f.game => f.subject = "game.started"
      BY <1>4, <2>1
    <3>3. \A e, f \in NewEvents : e.subject = f.subject
      BY DEF NewEvents
    <3> QED
      BY <1>2, <3>1, <3>2, <3>3 DEF LifecycleInv, DrawnOnce
  <2> QED
    BY <2>2, <2>3, <2>4 DEF DrawnOnce
<1>9. Remembered'
  <2> SUFFICES ASSUME ~restarted, NEW n \in 1..lastID' PROVE \E e \in Drawn' : e.id = n
    BY <1>1 DEF Remembered
  <2>1. CASE n <= lastID
    BY <1>2, <2>1, Types DEF LifecycleInv, Remembered
  <2>2. CASE n > lastID
    <3>1. NewEvents # {} /\ n = lastID + 1
      BY <1>2, <2>2, Types
    <3> QED
      BY <1>2, <1>4, <3>1
  <2> QED
    BY <2>1, <2>2, <1>2, Types
<1> QED
  BY <1>2, <1>6, <1>7, <1>8, <1>9 DEF LifecycleInv

LEMMA BlockedKeeps ==
  ASSUME LifecycleInv, Poll, ObserveBlocked
  PROVE  LifecycleInv'
<1>1. /\ UNCHANGED <<phase, game, played, over, missed, restarted, gameID, started, lastID, pending>>
      /\ polled' = TRUE /\ blocked' = TRUE
  BY DEF Poll, ObserveBlocked, trackerVars
<1>2. Drawn' = Drawn /\ Ordered' /\ outbox' \in Seq(OutboxEvent)
  BY Blocked
<1>3. TypeOK'
  BY <1>1, <1>2 DEF LifecycleInv, TypeOK
<1>4. Follows' /\ DrawnOnce' /\ Remembered'
  BY <1>1, <1>2 DEF LifecycleInv, Follows, DrawnOnce, Remembered, Past
<1> QED
  BY <1>2, <1>3, <1>4 DEF LifecycleInv

LEMMA RestartKeeps ==
  ASSUME LifecycleInv, Restart
  PROVE  LifecycleInv'
<1>1. /\ UNCHANGED <<phase, game, polled, played, over, missed, blocked, lastID, outbox>>
      /\ pending' = NoEvent /\ restarted' = TRUE /\ gameID' = NoGame /\ started' = FALSE
  BY DEF Restart, Reset, clientVars
<1>2. Drawn' \subseteq Drawn /\ Ordered'
  BY Restarted
<1>3. \A e \in Drawn : e.game # NoGame
  BY DrawnTypes
<1>4. TypeOK'
  BY <1>1 DEF LifecycleInv, TypeOK
<1>5. Follows' /\ Remembered'
  BY <1>1, <1>2, <1>3, Types DEF LifecycleInv, Follows, Remembered
<1>6. DrawnOnce'
  BY <1>1, <1>2 DEF LifecycleInv, DrawnOnce, Past
<1> QED
  BY <1>2, <1>4, <1>5, <1>6 DEF LifecycleInv

LEMMA Start == Init => LifecycleInv
<1> SUFFICES ASSUME Init PROVE LifecycleInv
  OBVIOUS
<1>1. Drawn = {}
  BY DEF Init, Drawn, Rows
<1>2. TypeOK
  <2>1. outbox \in Seq(OutboxEvent)
    BY DEF Init
  <2>2. pending \in OutboxEvent \union {NoEvent}
    BY DEF Init
  <2> QED
    BY <2>1, <2>2 DEF Init, TypeOK
<1>a. pending = NoEvent /\ Len(outbox) = 0
  BY DEF Init
<1>b. Increasing(outbox)
  BY <1>a DEF Increasing
<1>3. Ordered
  BY <1>1, <1>a, <1>b DEF Ordered
<1>4. Follows /\ DrawnOnce
  BY <1>1 DEF Init, Follows, DrawnOnce
<1>5. Remembered
  BY DEF Init, Remembered
<1> QED
  BY <1>2, <1>3, <1>4, <1>5 DEF LifecycleInv

THEOREM Invariance == Spec => []LifecycleInv
<1>1. LifecycleInv /\ [Next]_vars => LifecycleInv'
  <2> SUFFICES ASSUME LifecycleInv, [Next]_vars PROVE LifecycleInv'
    OBVIOUS
  <2>1. CASE ClientStep
    BY <2>1, ClientKeeps
  <2>2. CASE Poll
    BY <2>2, ObservedKeeps, BlockedKeeps DEF Poll
  <2>3. CASE Restart
    BY <2>3, RestartKeeps
  <2>4. CASE UNCHANGED vars
    BY <2>4 DEF vars, clientVars, trackerVars, serviceVars, faultVars, LifecycleInv, TypeOK,
                Ordered, Increasing, Follows, DrawnOnce, Remembered, Past, Drawn, Rows
  <2> QED
    BY <2>1, <2>2, <2>3, <2>4 DEF Next
<1> QED
  BY <1>1, Start, PTL DEF Spec

(***************************************************************************)
(* The state of tracker, service and outbox keeps its type.                *)
(***************************************************************************)
THEOREM TypeCorrect == Spec => []TypeOK
  BY Invariance, PTL DEF LifecycleInv

(***************************************************************************)
(* No game gets two starts or two ends, whatever fails (Observe,           *)
(* enqueuePending).                                                        *)
(***************************************************************************)
THEOREM DrawnAtMostOnce == Spec => []OneEventPerTransition
<1>1. LifecycleInv => OneEventPerTransition
  <2> SUFFICES ASSUME LifecycleInv, NEW i \in 1..Len(outbox), NEW j \in 1..Len(outbox),
                      outbox[i].subject = outbox[j].subject, outbox[i].game = outbox[j].game
               PROVE  i = j
    BY DEF OneEventPerTransition
  <2>1. outbox[i] \in Drawn /\ outbox[j] \in Drawn
    BY DEF Drawn, Rows
  <2>2. outbox[i] = outbox[j] /\ outbox[i].id \in Nat
    BY <2>1, DrawnTypes DEF LifecycleInv, DrawnOnce
  <2>3. ~(i < j) /\ ~(j < i)
    BY <2>2 DEF LifecycleInv, Ordered, Increasing
  <2>4. i \in Int /\ j \in Int
    OBVIOUS
  <2> QED
    BY <2>3, <2>4
<1> QED
  BY <1>1, Invariance, PTL

(***************************************************************************)
(* A game's end never precedes its start in the outbox (Observe enqueues   *)
(* the pending event first).                                               *)
(***************************************************************************)
THEOREM StartsComeFirst == Spec => []StartBeforeEnd
<1>1. LifecycleInv => StartBeforeEnd
  <2> SUFFICES ASSUME LifecycleInv, NEW i \in 1..Len(outbox), NEW j \in 1..Len(outbox),
                      outbox[i].subject = "game.ended", outbox[j].subject = "game.started",
                      outbox[i].game = outbox[j].game
               PROVE  j < i
    BY DEF StartBeforeEnd
  <2>1. outbox[i] \in Drawn /\ outbox[j] \in Drawn
    BY DEF Drawn, Rows
  <2>2. outbox[j].id < outbox[i].id /\ outbox[i].id \in Nat /\ outbox[j].id \in Nat
    BY <2>1, DrawnTypes DEF LifecycleInv, DrawnOnce
  <2>3. i # j /\ ~(i < j)
    BY <2>2 DEF LifecycleInv, Ordered, Increasing
  <2>4. i \in Int /\ j \in Int
    OBVIOUS
  <2> QED
    BY <2>3, <2>4
<1> QED
  BY <1>1, Invariance, PTL

(***************************************************************************)
(* An event once drawn is stored or pending until a restart (Observe).     *)
(***************************************************************************)
THEOREM NothingForgotten == Spec => []NoEventForgotten
<1>1. LifecycleInv => NoEventForgotten
  BY DEF LifecycleInv, Remembered, NoEventForgotten, Drawn, Rows
<1> QED
  BY <1>1, Invariance, PTL

-----------------------------------------------------------------------------
(***************************************************************************)
(* Starts and played games.  While no phase is missed, a tracker that      *)
(* follows a game and has not emitted its start follows the client's game; *)
(* nothing is pending then, so no observation can be blocked before the    *)
(* tracker is told that the champion select was dodged.                    *)
(***************************************************************************)

FollowsClient ==
    ~missed /\ gameID # NoGame /\ ~started =>
        /\ pending = NoEvent /\ gameID = game
        /\ \/ phase \in {"ChampSelect", "GameStart"}
           \/ phase \in {"InProgress", "Lobby"} /\ ~polled

PlayedInv ==
    /\ FollowsClient
    /\ phase \in {"InProgress", "EndOfGame"} => game \in played
    /\ ~missed => \A e \in Drawn : e.subject = "game.started" => e.game \in played

LEMMA PlayedStep == LifecycleInv /\ PlayedInv /\ [Next]_vars => PlayedInv'
<1> SUFFICES ASSUME LifecycleInv, PlayedInv, [Next]_vars PROVE PlayedInv'
  OBVIOUS
<1>1. CASE ClientStep
  <2>1. /\ UNCHANGED <<gameID, started, pending, outbox>>
        /\ polled' = FALSE /\ missed' = (missed \/ ~polled) /\ played \subseteq played'
    BY <1>1 DEF ClientStep, OpenChampSelect, Dodge, LockIn, Begin, End, BackToLobby, MoveTo,
                trackerVars, serviceVars
  <2>2. Drawn' = Drawn
    BY <2>1 DEF Drawn
  <2>3. phase' \in {"InProgress", "EndOfGame"} => game' \in played'
    BY <1>1 DEF ClientStep, OpenChampSelect, Dodge, LockIn, Begin, End, BackToLobby, MoveTo,
                PlayedInv
  <2>4. FollowsClient'
    <3> SUFFICES ASSUME ~missed, polled, gameID # NoGame, ~started, phase \in {"ChampSelect", "GameStart"}
                 PROVE  game' = game /\ phase' \in {"Lobby", "GameStart", "InProgress"}
      BY <2>1 DEF PlayedInv, FollowsClient
    <3> QED
      BY <1>1 DEF ClientStep, OpenChampSelect, Dodge, LockIn, Begin, End, BackToLobby, MoveTo
  <2> QED
    BY <2>1, <2>2, <2>3, <2>4 DEF PlayedInv
<1>2. CASE Poll /\ ObservePhase(phase, game)
  <2>1. UNCHANGED <<phase, game, played, missed>> /\ polled' = TRUE
    BY <1>2 DEF Poll
  <2>2. Drawn' = Drawn \union NewEvents
    BY <1>2, Observed
  <2>3. NewEvents = {} => pending' = NoEvent
    BY <1>2 DEF ObservePhase, NewEvents
  <2>4. TrackerObserve(phase, game)
    BY <1>2 DEF ObservePhase
  <2>5. \A e \in NewEvents : e.subject = "game.started" =>
           e.game = gameID /\ phase = "InProgress" /\ ~started /\ gameID # NoGame
    <3>1. NewEvents \subseteq {NewEvent}
      BY DEF NewEvents
    <3>2. NewEvent.game = gameID /\ NewEvent.subject = ObservedSubject(phase)
      BY DEF NewEvent
    <3> QED
      BY <3>1, <3>2, Subjects
  <2>6. ~missed => \A e \in Drawn' : e.subject = "game.started" => e.game \in played
    BY <2>2, <2>5 DEF PlayedInv, FollowsClient
  <2>7. FollowsClient'
    <3> SUFFICES ASSUME ~missed, gameID' # NoGame, ~started'
                 PROVE  /\ pending' = NoEvent /\ gameID' = game
                        /\ phase \in {"ChampSelect", "GameStart"}
      BY <2>1 DEF FollowsClient
    <3>1. phase \in {"ChampSelect", "GameStart"} => NewEvents = {}
      BY Subjects DEF NewEvents
    <3>2. CASE phase = "ChampSelect"
      BY <2>3, <2>4, <3>1, <3>2 DEF TrackerObserve
    <3>3. CASE phase = "GameStart"
      BY <2>3, <2>4, <3>1, <3>3 DEF TrackerObserve, trackerVars, PlayedInv, FollowsClient
    <3>4. CASE phase \notin {"ChampSelect", "GameStart"}
      BY <2>4, <3>4 DEF TrackerObserve, Reset, trackerVars, PlayedInv, FollowsClient
    <3> QED
      BY <3>2, <3>3, <3>4
  <2> QED
    BY <2>1, <2>6, <2>7 DEF PlayedInv
<1>3. CASE Poll /\ ObserveBlocked
  <2>1. UNCHANGED <<phase, game, played, missed, gameID, started, pending>> /\ pending # NoEvent
    BY <1>3 DEF Poll, ObserveBlocked, trackerVars
  <2>2. Drawn' = Drawn
    BY <1>3, Blocked
  <2> QED
    BY <2>1, <2>2 DEF PlayedInv, FollowsClient
<1>4. CASE Restart
  <2>1. UNCHANGED <<phase, game, played, missed>> /\ gameID' = NoGame
    BY <1>4 DEF Restart, Reset, clientVars
  <2>2. Drawn' \subseteq Drawn
    BY <1>4, Restarted
  <2> QED
    BY <2>1, <2>2 DEF PlayedInv, FollowsClient
<1>5. CASE UNCHANGED vars
  BY <1>5 DEF vars, clientVars, trackerVars, serviceVars, faultVars, PlayedInv, FollowsClient,
              Drawn
<1> QED
  BY <1>1, <1>2, <1>3, <1>4, <1>5 DEF Next, Poll

(***************************************************************************)
(* Unless a phase was missed, only games that were played get a start,     *)
(* also with a failing outbox and restarts (TrackerObserve, Observe).      *)
(***************************************************************************)
THEOREM OnlyPlayedGamesStart == Spec => []StartsArePlayed
<1>1. Init => PlayedInv
  BY DEF Init, PlayedInv, FollowsClient, Drawn, Rows
<1>2. PlayedInv => StartsArePlayed
  BY DEF PlayedInv, StartsArePlayed, Drawn, Rows
<1> QED
  BY <1>1, <1>2, PlayedStep, Invariance, PTL DEF Spec

-----------------------------------------------------------------------------
(***************************************************************************)
(* The complete history.  While nothing is missed, blocked or restarted,   *)
(* the client's phase decides what the tracker holds, and the drawn events *)
(* are the history up to the phase that is still to be polled.             *)
(***************************************************************************)

Undisturbed == ~missed /\ ~blocked /\ ~restarted

\* The client alone.
ClientInv ==
    /\ \A g \in played \union over : g <= game
    /\ game \in played => phase \in {"InProgress", "EndOfGame", "Lobby"}
    /\ game \in over => phase \in {"EndOfGame", "Lobby"}
    /\ phase = "InProgress" => game \in played
    /\ phase = "EndOfGame" => game \in over

Idle == gameID = NoGame /\ ~started
Following == gameID = game /\ ~started /\ pending = NoEvent

\* What the tracker holds in each phase, before and after it is polled.
TracksClient ==
    /\ phase = "ChampSelect" => IF polled THEN Following ELSE Idle /\ pending = NoEvent
    /\ phase = "GameStart" => Following
    /\ phase = "InProgress" => IF polled THEN gameID = game /\ started ELSE Following
    /\ phase = "EndOfGame" => IF polled THEN Idle ELSE gameID = game /\ started
    /\ phase = "Lobby" => IF polled THEN Idle /\ pending = NoEvent ELSE Idle \/ Following

IsDrawn(subject, g) == \E e \in Drawn : e.subject = subject /\ e.game = g

\* The events of every transition the poller has seen.
DrawsHistory ==
    \A g \in Games :
        /\ IsDrawn("game.started", g) <=>
              g \in played /\ ~(g = game /\ phase = "InProgress" /\ ~polled)
        /\ IsDrawn("game.ended", g) <=>
              g \in over /\ ~(g = game /\ phase = "EndOfGame" /\ ~polled)

HistoryInv == ClientInv /\ (Undisturbed => TracksClient /\ DrawsHistory)

LEMMA HistoryStep == LifecycleInv /\ HistoryInv /\ [Next]_vars => HistoryInv'
<1> SUFFICES ASSUME LifecycleInv, HistoryInv, [Next]_vars PROVE HistoryInv'
  OBVIOUS
<1>t. /\ game \in Nat /\ phase \in Phases /\ (phase # "Lobby" => game # NoGame)
      /\ played \subseteq Games /\ over \subseteq Games
  BY Types DEF LifecycleInv, Follows
<1>1. CASE ClientStep
  <2>1. /\ UNCHANGED <<gameID, started, pending, outbox, blocked, restarted>>
        /\ polled' = FALSE /\ missed' = (missed \/ ~polled)
    BY <1>1 DEF ClientStep, OpenChampSelect, Dodge, LockIn, Begin, End, BackToLobby, MoveTo,
                trackerVars, serviceVars
  <2>2. Drawn' = Drawn
    BY <2>1 DEF Drawn
  <2>3. Undisturbed' => Undisturbed /\ polled
    BY <2>1 DEF Undisturbed
  <2>4. \A s, g : IsDrawn(s, g)' <=> IsDrawn(s, g)
    BY <2>2 DEF IsDrawn
  <2>5. CASE OpenChampSelect
    <3>1. /\ phase = "Lobby" /\ phase' = "ChampSelect" /\ game' = game + 1
          /\ UNCHANGED <<played, over>>
      BY <2>5 DEF OpenChampSelect, MoveTo
    <3>2. ClientInv'
      BY <1>t, <3>1 DEF HistoryInv, ClientInv
    <3>3. Undisturbed' => TracksClient'
      BY <2>1, <2>3, <3>1 DEF HistoryInv, TracksClient, Idle
    <3>4. Undisturbed' => DrawsHistory'
      BY <2>3, <2>4, <3>1 DEF HistoryInv, DrawsHistory
    <3> QED
      BY <3>2, <3>3, <3>4 DEF HistoryInv
  <2>6. CASE Dodge \/ LockIn \/ BackToLobby
    <3>1. /\ UNCHANGED <<game, played, over>>
          /\ \/ phase = "ChampSelect" /\ phase' \in {"Lobby", "GameStart"}
             \/ phase = "EndOfGame" /\ phase' = "Lobby"
      BY <2>6 DEF Dodge, LockIn, BackToLobby, MoveTo
    <3>2. ClientInv'
      BY <3>1 DEF HistoryInv, ClientInv
    <3>3. Undisturbed' => TracksClient'
      BY <2>1, <2>3, <3>1 DEF HistoryInv, TracksClient, Idle, Following
    <3>4. Undisturbed' => DrawsHistory'
      BY <2>3, <2>4, <3>1 DEF HistoryInv, DrawsHistory
    <3> QED
      BY <3>2, <3>3, <3>4 DEF HistoryInv
  <2>7. CASE Begin
    <3>1. /\ phase = "GameStart" /\ phase' = "InProgress" /\ UNCHANGED <<game, over>>
          /\ played' = played \union {game}
      BY <2>7 DEF Begin, MoveTo
    <3>2. ClientInv'
      BY <1>t, <3>1 DEF HistoryInv, ClientInv
    <3>3. Undisturbed' => TracksClient'
      BY <2>1, <2>3, <3>1 DEF HistoryInv, TracksClient, Following
    <3>4. game \notin played
      BY <3>1 DEF HistoryInv, ClientInv
    <3>5. Undisturbed' => DrawsHistory'
      BY <2>1, <2>3, <2>4, <3>1, <3>4 DEF HistoryInv, DrawsHistory
    <3> QED
      BY <3>2, <3>3, <3>5 DEF HistoryInv
  <2>8. CASE End
    <3>1. /\ phase = "InProgress" /\ phase' = "EndOfGame" /\ UNCHANGED <<game, played>>
          /\ over' = over \union {game}
      BY <2>8 DEF End, MoveTo
    <3>2. ClientInv'
      BY <1>t, <3>1 DEF HistoryInv, ClientInv
    <3>3. Undisturbed' => TracksClient'
      BY <2>1, <2>3, <3>1 DEF HistoryInv, TracksClient
    <3>4. game \notin over
      BY <3>1 DEF HistoryInv, ClientInv
    <3>5. Undisturbed' => DrawsHistory'
      BY <2>1, <2>3, <2>4, <3>1, <3>4 DEF HistoryInv, DrawsHistory
    <3> QED
      BY <3>2, <3>3, <3>5 DEF HistoryInv
  <2> QED
    BY <1>1, <2>5, <2>6, <2>7, <2>8 DEF ClientStep
<1>2. CASE Poll /\ ObservePhase(phase, game)
  <2>1. /\ UNCHANGED <<phase, game, played, over, missed, blocked, restarted>>
        /\ polled' = TRUE
    BY <1>2 DEF Poll, ObservePhase
  <2>2. Drawn' = Drawn \union NewEvents
    BY <1>2, Observed
  <2>3. NewEvents = {} => pending' = NoEvent
    BY <1>2 DEF ObservePhase, NewEvents
  <2>4. TrackerObserve(phase, game)
    BY <1>2 DEF ObservePhase
  <2>5. ClientInv'
    BY <2>1 DEF HistoryInv, ClientInv
  <2> SUFFICES ASSUME Undisturbed PROVE TracksClient' /\ DrawsHistory'
    BY <2>1, <2>5 DEF HistoryInv, Undisturbed
  <2>6. TracksClient /\ DrawsHistory
    BY DEF HistoryInv
  <2>7. /\ NewEvents # {} => NewEvents = {NewEvent}
        /\ NewEvents = {} <=> ObservedSubject(phase) = NoSubject
        /\ NewEvent.game = gameID /\ NewEvent.subject = ObservedSubject(phase)
    BY DEF NewEvents, NewEvent
  <2>8. TracksClient'
    <3>a. phase \in {"ChampSelect", "GameStart", "Lobby"} => pending' = NoEvent
      BY <2>3, <2>7, Subjects
    <3>1. CASE phase = "ChampSelect"
      <4>1. gameID' = game /\ started' = started /\ ~started
        BY <2>4, <2>6, <3>1 DEF TracksClient, TrackerObserve, Following, Idle
      <4> QED
        BY <2>1, <3>1, <3>a, <4>1 DEF TracksClient, Following
    <3>2. CASE phase = "GameStart"
      <4>1. gameID' = gameID /\ started' = started /\ gameID = game /\ ~started
        BY <2>4, <2>6, <3>2 DEF TracksClient, TrackerObserve, trackerVars, Following
      <4> QED
        BY <2>1, <3>2, <3>a, <4>1 DEF TracksClient, Following
    <3>3. CASE phase = "InProgress"
      BY <1>t, <2>1, <2>4, <2>6, <3>3 DEF TracksClient, TrackerObserve, Following
    <3>4. CASE phase = "EndOfGame"
      BY <2>1, <2>4, <2>6, <3>4 DEF TracksClient, TrackerObserve, trackerVars, Reset, Idle
    <3>5. CASE phase = "Lobby"
      BY <2>1, <2>4, <2>6, <3>5, <3>a DEF TracksClient, TrackerObserve, Reset, Following, Idle
    <3> QED
      BY <1>t, <3>1, <3>2, <3>3, <3>4, <3>5
  <2>9. \A s, g : IsDrawn(s, g)' <=>
              IsDrawn(s, g) \/ (NewEvents # {} /\ s = ObservedSubject(phase) /\ g = gameID)
    BY <2>2, <2>7 DEF IsDrawn
  <2>10. CASE phase = "InProgress" /\ ~polled
    <3>1. gameID = game /\ game # NoGame /\ ObservedSubject(phase) = "game.started"
      BY <1>t, <2>6, <2>10, Subjects DEF TracksClient, Following
    <3>2. game \in played
      BY <2>10 DEF HistoryInv, ClientInv
    <3>3. \A g \in Games :
             /\ IsDrawn("game.started", g)' <=> IsDrawn("game.started", g) \/ g = game
             /\ IsDrawn("game.ended", g)' <=> IsDrawn("game.ended", g)
      BY <2>7, <2>9, <3>1
    <3>4. \A g \in Games : IsDrawn("game.started", g) <=> g \in played /\ g # game
      BY <2>6, <2>10 DEF DrawsHistory
    <3>5. \A g \in Games : IsDrawn("game.ended", g) <=> g \in over
      BY <2>6, <2>10 DEF DrawsHistory
    <3> QED
      BY <2>1, <2>8, <2>10, <3>2, <3>3, <3>4, <3>5 DEF DrawsHistory
  <2>11. CASE phase = "EndOfGame" /\ ~polled
    <3>1. gameID = game /\ ObservedSubject(phase) = "game.ended"
      BY <2>6, <2>11, Subjects DEF TracksClient
    <3>2. game \in over
      BY <2>11 DEF HistoryInv, ClientInv
    <3> QED
      BY <2>1, <2>6, <2>7, <2>8, <2>9, <2>11, <3>1, <3>2 DEF DrawsHistory
  <2>12. CASE ~(phase \in {"InProgress", "EndOfGame"} /\ ~polled)
    <3>1. ObservedSubject(phase) = NoSubject
      BY <2>6, <2>12, Subjects DEF TracksClient, Idle
    <3> QED
      BY <2>1, <2>6, <2>7, <2>8, <2>9, <2>12, <3>1 DEF DrawsHistory
  <2> QED
    BY <2>10, <2>11, <2>12
<1>3. CASE Poll /\ ObserveBlocked
  BY <1>3 DEF Poll, ObserveBlocked, HistoryInv, ClientInv, Undisturbed
<1>4. CASE Restart
  BY <1>4 DEF Restart, clientVars, HistoryInv, ClientInv, Undisturbed
<1>5. CASE UNCHANGED vars
  <2>1. Drawn' = Drawn /\ UNCHANGED <<clientVars, trackerVars, pending, faultVars>>
    BY <1>5 DEF vars, serviceVars, Drawn
  <2> QED
    BY <2>1 DEF clientVars, trackerVars, faultVars, HistoryInv, ClientInv, Undisturbed,
                TracksClient, Idle, Following, DrawsHistory, IsDrawn
<1> QED
  BY <1>1, <1>2, <1>3, <1>4, <1>5 DEF Next, Poll

(***************************************************************************)
(* As long as every phase is polled and reaches the tracker and the        *)
(* application does not restart, the outbox is the complete history once   *)
(* the lobby is seen (StartChampSelectSync, Observe).                      *)
(***************************************************************************)
THEOREM HistoryIsComplete == Spec => []HistoryComplete
<1>1. Init => HistoryInv
  BY DEF Init, HistoryInv, ClientInv, TracksClient, Idle, DrawsHistory, IsDrawn, Drawn, Rows
<1>2. LifecycleInv /\ HistoryInv => HistoryComplete
  <2> SUFFICES ASSUME LifecycleInv, HistoryInv, Undisturbed, phase = "Lobby", polled
               PROVE  \A g \in Games : /\ Has("game.started", g) <=> g \in played
                                       /\ Has("game.ended", g) <=> g \in over
    BY DEF HistoryComplete, Complete, Undisturbed
  <2>1. TracksClient /\ DrawsHistory
    BY DEF HistoryInv
  <2>2. Drawn = Rows(outbox)
    BY <2>1 DEF TracksClient, Drawn
  <2>3. \A s, g : Has(s, g) <=> IsDrawn(s, g)
    BY <2>2 DEF Has, IsDrawn, Rows
  <2> QED
    BY <2>1, <2>3 DEF DrawsHistory
<1> QED
  BY <1>1, <1>2, HistoryStep, Invariance, PTL DEF Spec

-----------------------------------------------------------------------------
(***************************************************************************)
(* The pipeline.  Its steps are steps of GameLifecycle and of GameDelivery,*)
(* so both keep their invariants; Linked is what connects them.  The       *)
(* lemmas named Same... say that GameDelivery is the same module whether   *)
(* it is reached through GamePipeline or through its proofs.               *)
(***************************************************************************)

DeliveryProofs == INSTANCE GameDeliveryProofs WITH
    Events <- GameEvents,
    Rooms <- Games,
    Poison <- {},
    GameOf <- GameOfEvent,
    RoomOf <- GameOfEvent,
    At <- OccurredAt,
    NoRoom <- NoGame,
    phase <- work

LEMMA DeliveryConstants ==
  PipelineAssumption =>
      DeliveryProofs!ConstantsAssumption /\ DeliveryProofs!NoMessageAssumption
  BY DEF PipelineAssumption, Delivery!ConstantsAssumption, DeliveryProofs!ConstantsAssumption,
         Delivery!NoMessageAssumption, DeliveryProofs!NoMessageAssumption,
         Delivery!Messages, DeliveryProofs!Messages, Delivery!Records, DeliveryProofs!Records

LEMMA SameVars == UNCHANGED deliveryVars => UNCHANGED DeliveryProofs!vars
  BY DEF deliveryVars, DeliveryProofs!vars, DeliveryProofs!streamVars,
         DeliveryProofs!workerVars, DeliveryProofs!dbVars, DeliveryProofs!dlqVars,
         DeliveryProofs!replayVars

LEMMA SameInit == Delivery!Init => DeliveryProofs!Init
  BY DEF Delivery!Init, DeliveryProofs!Init, Delivery!Messages, DeliveryProofs!Messages,
         Delivery!NoTime, DeliveryProofs!NoTime

LEMMA SameAccept == \A e \in GameEvents : Delivery!Accept(e) => DeliveryProofs!Accept(e)
  BY DEF Delivery!Accept, DeliveryProofs!Accept, Delivery!Store, DeliveryProofs!Store,
         Delivery!workerVars, DeliveryProofs!workerVars, Delivery!dbVars, DeliveryProofs!dbVars,
         Delivery!dlqVars, DeliveryProofs!dlqVars, Delivery!replayVars, DeliveryProofs!replayVars

LEMMA SameConsume == Delivery!Consume => DeliveryProofs!Consume
  BY DEF
    Delivery!Consume, DeliveryProofs!Consume,
    Delivery!Messages, DeliveryProofs!Messages, Delivery!Records, DeliveryProofs!Records,
    Delivery!Minimum, DeliveryProofs!Minimum, Delivery!NoTime, DeliveryProofs!NoTime,
    Delivery!streamVars, DeliveryProofs!streamVars, Delivery!workerVars, DeliveryProofs!workerVars,
    Delivery!dbVars, DeliveryProofs!dbVars, Delivery!dlqVars, DeliveryProofs!dlqVars,
    Delivery!replayVars, DeliveryProofs!replayVars,
    Delivery!WorkerStep, DeliveryProofs!WorkerStep, Delivery!Deliver, DeliveryProofs!Deliver,
    Delivery!HandleOK, DeliveryProofs!HandleOK, Delivery!HandleError, DeliveryProofs!HandleError,
    Delivery!Commit, DeliveryProofs!Commit, Delivery!UpsertStarted, DeliveryProofs!UpsertStarted,
    Delivery!UpdateEnded, DeliveryProofs!UpdateEnded, Delivery!Ack, DeliveryProofs!Ack,
    Delivery!Nak, DeliveryProofs!Nak, Delivery!Bury, DeliveryProofs!Bury,
    Delivery!BuryError, DeliveryProofs!BuryError, Delivery!Term, DeliveryProofs!Term,
    Delivery!Drop, DeliveryProofs!Drop, Delivery!Return, DeliveryProofs!Return,
    Delivery!Settle, DeliveryProofs!Settle,
    Delivery!StoreDeadLetter, DeliveryProofs!StoreDeadLetter,
    Delivery!OperatorStep, DeliveryProofs!OperatorStep, Delivery!Load, DeliveryProofs!Load,
    Delivery!Store, DeliveryProofs!Store, Delivery!StoreReplay, DeliveryProofs!StoreReplay,
    Delivery!Republish, DeliveryProofs!Republish,
    Delivery!RepublishError, DeliveryProofs!RepublishError,
    Delivery!StopReplay, DeliveryProofs!StopReplay,
    Delivery!DeleteReplayed, DeliveryProofs!DeleteReplayed,
    Delivery!AbortReplay, DeliveryProofs!AbortReplay,
    Delivery!ForgetMarker, DeliveryProofs!ForgetMarker,
    Delivery!CloseDlqWindow, DeliveryProofs!CloseDlqWindow,
    Delivery!CloseReplayWindow, DeliveryProofs!CloseReplayWindow

\* The pipeline takes the steps of its parts.
LEMMA PipelineIsLifecycle == PipelineSpec => Spec
<1>1. PipelineInit => Init
  BY DEF PipelineInit
<1>2. [PipelineNext]_pipelineVars => [Next]_vars
  BY DEF PipelineNext, pipelineVars, Detect, Relay, RelayLate, Mark, Consume
<1> QED
  BY <1>1, <1>2, PTL DEF PipelineSpec, Spec

LEMMA PipelineIsDelivery == PipelineSpec => DeliveryProofs!Spec
<1>1. PipelineInit => DeliveryProofs!Init
  BY SameInit DEF PipelineInit
<1>2. [PipelineNext]_pipelineVars => [DeliveryProofs!Next]_(DeliveryProofs!vars)
  <2> SUFFICES ASSUME [PipelineNext]_pipelineVars
               PROVE  \/ \E e \in GameEvents : DeliveryProofs!Accept(e)
                      \/ DeliveryProofs!Consume
                      \/ UNCHANGED DeliveryProofs!vars
    BY DEF DeliveryProofs!Next
  <2>1. \/ \E e \in GameEvents : Delivery!Accept(e)
        \/ Delivery!Consume
        \/ UNCHANGED deliveryVars
    BY DEF PipelineNext, pipelineVars, Detect, Relay, RelayLate, Mark, Consume
  <2> QED
    BY <2>1, SameAccept, SameConsume, SameVars
<1> QED
  BY <1>1, <1>2, PTL DEF PipelineSpec, DeliveryProofs!Spec

\* What is inserted into the outbox stays there for the history.
LEMMA InsertKeeps ==
  ASSUME NEW s \in Seq(OutboxEvent), NEW e \in OutboxEvent
  PROVE  Insert(s, e) \in Seq(OutboxEvent) /\ Rows(s) \subseteq Rows(Insert(s, e))
<1>1. /\ Append(s, e) \in Seq(OutboxEvent)
      /\ Len(Append(s, e)) = Len(s) + 1 /\ Len(s) \in Nat
      /\ \A i \in 1..Len(s) : Append(s, e)[i] = s[i]
  OBVIOUS
<1>2. Rows(s) \subseteq Rows(Append(s, e))
  BY <1>1 DEF Rows
<1> QED
  BY <1>1, <1>2 DEF Insert

LEMMA EnqueuedStays ==
  ASSUME LifecycleInv, [Next]_vars
  PROVE  Enqueued \subseteq Enqueued'
<1>0. /\ outbox \in Seq(OutboxEvent) /\ pending \in OutboxEvent \union {NoEvent}
      /\ NewEvents \subseteq OutboxEvent
  BY NewEventType DEF LifecycleInv, TypeOK
<1>1. CASE UNCHANGED outbox
  BY <1>1 DEF Enqueued
<1>2. CASE ObserveBlocked
  <2>1. Rows(outbox) \subseteq Rows(outbox')
    BY <1>0, <1>2, InsertKeeps DEF ObserveBlocked
  <2> QED
    BY <2>1 DEF Enqueued, Rows
<1>3. CASE ObservePhase(phase, game)
  <2> DEFINE rows == IF pending = NoEvent THEN outbox ELSE Insert(outbox, pending)
  <2>1. rows \in Seq(OutboxEvent) /\ Rows(outbox) \subseteq Rows(rows)
    BY <1>0, InsertKeeps
  <2>2. \/ outbox' = rows
        \/ NewEvent \in OutboxEvent /\ outbox' = Insert(rows, NewEvent)
    BY <1>0, <1>3 DEF ObservePhase, NewEvent, NewEvents
  <2>3. Rows(outbox) \subseteq Rows(outbox')
    BY <2>1, <2>2, InsertKeeps
  <2> QED
    BY <2>3 DEF Enqueued, Rows
<1> QED
  BY <1>1, <1>2, <1>3
  DEF Next, Poll, Restart, ClientStep, OpenChampSelect, Dodge, LockIn, Begin, End, BackToLobby,
      MoveTo, serviceVars, vars

LEMMA EnqueuedTypes == LifecycleInv => Enqueued \subseteq GameEvents
<1> SUFFICES ASSUME LifecycleInv, NEW i \in 1..Len(outbox)
             PROVE  EventOf(outbox[i]) \in GameEvents
  BY DEF Enqueued
<1>1. outbox[i] \in OutboxEvent
  BY DEF LifecycleInv, TypeOK
<1> QED
  BY <1>1 DEF OutboxEvent, EventOf, GameEvents, Started, Ended

\* An inserted event is pending or stored, and what the relays have handed over is
\* what the stream has.
Linked ==
    /\ owed \union stored = Enqueued
    /\ \A e \in GameEvents : e \in stored <=> copies[e] > 0

LEMMA LinkedInit == PipelineInit => Linked
  BY DEF PipelineInit, Init, Relays!Init, Delivery!Init, Linked, Enqueued

LEMMA LinkedStep ==
  ASSUME PipelineAssumption, LifecycleInv, LifecycleInv', DeliveryProofs!DeliveryInv, Linked,
         [PipelineNext]_pipelineVars
  PROVE  Linked'
<1>0. copies \in [GameEvents -> Nat]
  BY DEF DeliveryProofs!DeliveryInv, DeliveryProofs!Types, DeliveryProofs!StreamTypes
<1>1. CASE Detect
  <2>1. Enqueued \subseteq Enqueued'
    BY <1>1, EnqueuedStays DEF Detect
  <2> QED
    BY <1>1, <2>1 DEF Detect, deliveryVars, Linked
<1>2. ASSUME NEW e \in GameEvents, Delivery!Accept(e), e \in owed \/ e \in stored,
             stored' = stored \union {e}, UNCHANGED <<owed, vars>>
      PROVE  Linked'
  <2>1. copies' = [copies EXCEPT ![e] = @ + 1] /\ Enqueued' = Enqueued
    BY <1>2 DEF Delivery!Accept, Delivery!Store, Enqueued, vars, serviceVars
  <2>2. \A f \in GameEvents : copies'[f] > 0 <=> f = e \/ copies[f] > 0
    BY <1>0, <2>1
  <2> QED
    BY <1>2, <2>1, <2>2 DEF Linked
<1>3. ASSUME NEW e \in GameEvents, Relay(e) \/ RelayLate(e) PROVE Linked'
  <2>1. CASE e \in stored /\ UNCHANGED <<owed, stored, deliveryVars, vars>>
    BY <2>1 DEF Linked, Enqueued, deliveryVars, vars, serviceVars
  <2>2. CASE /\ Delivery!Accept(e) /\ (e \in owed \/ e \in stored)
             /\ stored' = stored \union {e} /\ UNCHANGED <<owed, vars>>
    BY <1>2, <2>2
  <2>3. \/ /\ Delivery!Accept(e) /\ (e \in owed \/ e \in stored)
           /\ stored' = stored \union {e} /\ UNCHANGED <<owed, vars>>
        \/ e \in stored /\ UNCHANGED <<owed, stored, deliveryVars, vars>>
    BY <1>3 DEF Relay, RelayLate, Relays!Take, outboxVars
  <2> QED
    BY <2>1, <2>2, <2>3
<1>4. ASSUME NEW e \in GameEvents, Mark(e) PROVE Linked'
  BY <1>4 DEF Mark, Relays!Release, Linked, Enqueued, deliveryVars, vars, serviceVars
<1>5. CASE Consume
  <2>1. DeliveryProofs!Consume /\ UNCHANGED <<owed, stored, outbox>>
    BY <1>5, SameConsume DEF Consume, outboxVars, vars, serviceVars
  <2>2. \A e \in GameEvents : copies[e] <= copies'[e] /\ (copies'[e] > 0 => copies[e] > 0)
    BY <2>1, DeliveryConstants, DeliveryProofs!NothingNew
  <2>3. DeliveryProofs!DeliveryInv'
    BY <2>1, DeliveryConstants, DeliveryProofs!StepKeeps DEF DeliveryProofs!Next
  <2>4. \A e \in GameEvents : copies'[e] \in Nat
    BY <2>3 DEF DeliveryProofs!DeliveryInv, DeliveryProofs!Types, DeliveryProofs!StreamTypes
  <2>5. \A e \in GameEvents : copies'[e] > 0 <=> copies[e] > 0
    BY <1>0, <2>2, <2>4
  <2> QED
    BY <2>1, <2>5 DEF Linked, Enqueued
<1>6. CASE UNCHANGED pipelineVars
  BY <1>6 DEF pipelineVars, outboxVars, deliveryVars, vars, serviceVars, Linked, Enqueued
<1> QED
  BY <1>1, <1>3, <1>4, <1>5, <1>6 DEF PipelineNext

LEMMA PipelineInvariance ==
  PipelineAssumption =>
      (PipelineSpec => [](LifecycleInv /\ DeliveryProofs!DeliveryInv /\ Linked))
<1> SUFFICES ASSUME PipelineAssumption
             PROVE  PipelineSpec => [](LifecycleInv /\ DeliveryProofs!DeliveryInv /\ Linked)
  OBVIOUS
<1>1. DeliveryProofs!Spec => []DeliveryProofs!DeliveryInv
  BY DeliveryConstants, DeliveryProofs!Invariance
<1>2. LifecycleInv /\ LifecycleInv' /\ DeliveryProofs!DeliveryInv /\ Linked
        /\ [PipelineNext]_pipelineVars => Linked'
  BY LinkedStep
<1> QED
  BY <1>1, <1>2, LinkedInit, PipelineIsLifecycle, PipelineIsDelivery, Invariance, PTL
  DEF PipelineSpec

(***************************************************************************)
(* An event inserted into the outbox is at every moment pending there or   *)
(* in the stream, applied, or held by a dead letter (Enqueue, RelayOnce,   *)
(* StartGameEventsConsumer, Replay).                                       *)
(***************************************************************************)
THEOREM EventsAreAccounted == PipelineAssumption => (PipelineSpec => []EventsAccounted)
<1> SUFFICES ASSUME PipelineAssumption PROVE PipelineSpec => []EventsAccounted
  OBVIOUS
<1>1. LifecycleInv /\ Linked /\ DeliveryProofs!NothingStranded => EventsAccounted
  <2> SUFFICES ASSUME LifecycleInv, Linked, DeliveryProofs!NothingStranded,
                      NEW e \in Enqueued, e \notin owed
               PROVE  InStream(e) \/ e \in Delivery!Applied \/ Buried(e)
    BY DEF EventsAccounted
  <2>1. e \in GameEvents /\ copies[e] > 0
    BY EnqueuedTypes DEF Linked
  <2>2. \/ e \in DeliveryProofs!Applied
        \/ \E m \in DeliveryProofs!Messages : m[1] = e /\ msg[m] = "pending"
        \/ \E d \in dlq : d[1][1] = e
    BY <2>1 DEF DeliveryProofs!NothingStranded
  <2> QED
    BY <2>2 DEF InStream, Buried, Delivery!Applied, DeliveryProofs!Applied, Delivery!Messages,
                DeliveryProofs!Messages
<1>2. DeliveryProofs!Spec => []DeliveryProofs!NothingStranded
  BY DeliveryConstants, DeliveryProofs!NothingIsStranded
<1> QED
  BY <1>1, <1>2, PipelineIsDelivery, PipelineInvariance, PTL

\* A session has a start exactly if the start of its game has been applied, and an end
\* exactly if the end has.
StartOf(g) == [subject |-> "game.started", game |-> g]
EndOf(g) == [subject |-> "game.ended", game |-> g]

LEMMA EventFacts ==
  /\ \A g \in Games : /\ StartOf(g) \in Started /\ StartOf(g).game = g
                      /\ EndOf(g) \in GameEvents \ Started /\ EndOf(g).game = g
  /\ \A e \in Started : e = StartOf(e.game)
  /\ \A e \in GameEvents \ Started : e = EndOf(e.game)
  /\ \A e \in GameEvents : GameOfEvent[e] = e.game
<1>1. \A g \in Games : /\ StartOf(g) \in Started /\ StartOf(g).game = g
                      /\ EndOf(g) \in Ended /\ EndOf(g) \notin Started /\ EndOf(g).game = g
  BY DEF StartOf, EndOf, Started, Ended
<1>2. (\A e \in Started : e = StartOf(e.game)) /\ (\A e \in Ended : e = EndOf(e.game))
  BY DEF StartOf, EndOf, Started, Ended
<1>3. \A e \in GameEvents : GameOfEvent[e] = e.game
  BY DEF GameOfEvent
<1> QED
  BY <1>1, <1>2, <1>3 DEF GameEvents

LEMMA SessionShows ==
  ASSUME PipelineAssumption, DeliveryProofs!SessionsReflectEvents, NEW g \in Games
  PROVE  /\ startedAt[g] # Delivery!NoTime <=> StartOf(g) \in Delivery!Applied
         /\ endedAt[g] # Delivery!NoTime <=> EndOf(g) \in Delivery!Applied
<1> DEFINE seen(kind) == {e \in Delivery!Applied \intersect kind : GameOfEvent[e] = g}
<1>0. OccurredAt \in [GameEvents -> Nat \ {0}] /\ Delivery!Applied \subseteq GameEvents
  BY DEF PipelineAssumption, Delivery!ConstantsAssumption, Delivery!Applied
<1>1. seen(Started) = Delivery!Applied \intersect {StartOf(g)}
  BY <1>0, EventFacts DEF GameEvents
<1>2. seen(GameEvents \ Started) = Delivery!Applied \intersect {EndOf(g)}
  BY <1>0, EventFacts
<1>3. Delivery!Applied = DeliveryProofs!Applied /\ Delivery!NoTime = 0
  BY DEF Delivery!Applied, DeliveryProofs!Applied, Delivery!NoTime
<1>4. ASSUME NEW time, NEW kind, DeliveryProofs!EarliestOf(time, g, kind)
      PROVE  time # 0 <=> seen(kind) # {}
  BY <1>0, <1>3, <1>4 DEF DeliveryProofs!EarliestOf, DeliveryProofs!NoTime
<1>5. /\ DeliveryProofs!EarliestOf(startedAt[g], g, Started)
      /\ DeliveryProofs!EarliestOf(endedAt[g], g, GameEvents \ Started)
  BY DEF DeliveryProofs!SessionsReflectEvents
<1> HIDE DEF seen
<1> QED
  BY <1>1, <1>2, <1>3, <1>4, <1>5

\* What is applied was enqueued.
LEMMA AppliedWasEnqueued ==
  Linked /\ DeliveryProofs!AppliedAreStored => Delivery!Applied \subseteq Enqueued
  BY DEF Linked, DeliveryProofs!AppliedAreStored, DeliveryProofs!Applied, Delivery!Applied

LEMMA PipelineSessions ==
  PipelineAssumption =>
      (PipelineSpec => []( /\ LifecycleInv /\ Linked
                           /\ DeliveryProofs!SessionsReflectEvents
                           /\ DeliveryProofs!AppliedAreStored ))
<1> SUFFICES ASSUME PipelineAssumption
             PROVE  PipelineSpec => []( /\ LifecycleInv /\ Linked
                                        /\ DeliveryProofs!SessionsReflectEvents
                                        /\ DeliveryProofs!AppliedAreStored )
  OBVIOUS
<1>1. DeliveryProofs!Spec => []DeliveryProofs!SessionsReflectEvents
  BY DeliveryConstants, DeliveryProofs!SessionsAreEarliest
<1>2. DeliveryProofs!Spec => []DeliveryProofs!AppliedAreStored
  BY DeliveryConstants, DeliveryProofs!OnlyStoredIsApplied
<1> QED
  BY <1>1, <1>2, PipelineIsDelivery, PipelineInvariance, PTL

(***************************************************************************)
(* As long as every phase is polled and reaches the tracker and the        *)
(* application does not restart, the sessions are the history of the games *)
(* whenever the lobby is seen and nothing is on its way or buried (from    *)
(* Observe to ProcessGameStarted and ProcessGameEnded).                    *)
(***************************************************************************)
THEOREM SessionsShowHistory == PipelineAssumption => (PipelineSpec => []SessionsAreHistory)
<1> SUFFICES ASSUME PipelineAssumption PROVE PipelineSpec => []SessionsAreHistory
  OBVIOUS
<1>1. LifecycleInv /\ Linked /\ DeliveryProofs!SessionsReflectEvents
        /\ DeliveryProofs!AppliedAreStored /\ EventsAccounted /\ HistoryComplete
        => SessionsAreHistory
  <2> SUFFICES ASSUME LifecycleInv, Linked, DeliveryProofs!SessionsReflectEvents,
                      DeliveryProofs!AppliedAreStored, EventsAccounted,
                      Complete, phase = "Lobby", polled, Drained,
                      NEW g \in Games
               PROVE  /\ startedAt[g] # Delivery!NoTime <=> g \in played
                      /\ endedAt[g] # Delivery!NoTime <=> g \in over
    BY DEF SessionsAreHistory, HistoryComplete
  <2>1. Delivery!Applied = Enqueued
    <3>1. Enqueued \subseteq Delivery!Applied
      BY EnqueuedTypes DEF EventsAccounted, Drained, Buried
    <3> QED
      BY <3>1, AppliedWasEnqueued
  <2>2. StartOf(g) \in Enqueued <=> Has("game.started", g)
    BY DEF StartOf, Enqueued, EventOf, Has
  <2>3. EndOf(g) \in Enqueued <=> Has("game.ended", g)
    BY DEF EndOf, Enqueued, EventOf, Has
  <2>4. (Has("game.started", g) <=> g \in played) /\ (Has("game.ended", g) <=> g \in over)
    BY DEF Complete
  <2> QED
    BY <2>1, <2>2, <2>3, <2>4, SessionShows
<1> QED
  BY <1>1, PipelineSessions, EventsAreAccounted, PipelineIsLifecycle, HistoryIsComplete, PTL

(***************************************************************************)
(* Unless a phase was missed, only games that were played have a session   *)
(* with a start, whatever fails (Observe, ProcessGameStarted).             *)
(***************************************************************************)
THEOREM OnlyPlayedHaveSessions == PipelineAssumption => (PipelineSpec => []SessionsArePlayed)
<1> SUFFICES ASSUME PipelineAssumption PROVE PipelineSpec => []SessionsArePlayed
  OBVIOUS
<1>1. Linked /\ DeliveryProofs!SessionsReflectEvents /\ DeliveryProofs!AppliedAreStored
        /\ StartsArePlayed => SessionsArePlayed
  <2> SUFFICES ASSUME Linked, DeliveryProofs!SessionsReflectEvents,
                      DeliveryProofs!AppliedAreStored, StartsArePlayed, ~missed,
                      NEW g \in Games, startedAt[g] # Delivery!NoTime
               PROVE  g \in played
    BY DEF SessionsArePlayed
  <2>1. StartOf(g) \in Enqueued
    BY SessionShows, AppliedWasEnqueued
  <2>2. PICK i \in 1..Len(outbox) : EventOf(outbox[i]) = StartOf(g)
    BY <2>1 DEF Enqueued
  <2>3. outbox[i].subject = "game.started" /\ outbox[i].game = g
    BY <2>2 DEF EventOf, StartOf
  <2> QED
    BY <2>2, <2>3 DEF StartsArePlayed
<1> QED
  BY <1>1, PipelineSessions, PipelineIsLifecycle, OnlyPlayedGamesStart, PTL
=============================================================================
