------------------------ MODULE GameDeliveryProofs ------------------------
(***************************************************************************)
(* Proofs about the delivery of game events, for any events, workers,      *)
(* operators and bounds.  The argument: what a worker or an operator has   *)
(* in hand stays true while others act, because events once applied,       *)
(* dead letters once stored and replays once published stay so; and a      *)
(* replay stores a copy that is newer than the message it recovers, so the *)
(* newest copy of an event has no replayed dead letter.  Sessions take the *)
(* earlier of two times, so neither order nor repetition of commits shows. *)
(***************************************************************************)
EXTENDS GameDelivery, TLAPS

USE ConstantsAssumption, NoMessageAssumption

(***************************************************************************)
(* Types, by the part of the system.                                       *)
(***************************************************************************)

StreamTypes ==
    /\ copies \in [Events -> Nat] /\ \A e \in Events : copies[e] <= MaxCopies[e]
    /\ msg \in [Messages -> {"absent", "pending", "acked", "termed"}]
    /\ delivered \in [Messages -> 0..MaxDeliver]

WorkerTypes ==
    /\ phase \in [Workers -> {"idle", "handle", "ack", "failed", "buried"}]
    /\ job \in [Workers -> Messages \union {NoMessage}]
    /\ num \in [Workers -> 0..MaxDeliver]

DbTypes ==
    /\ inbox \subseteq Events
    /\ startedAt \in [Games -> Nat] /\ endedAt \in [Games -> Nat]
    /\ roomOf \in [Games -> Rooms \union {NoRoom}]
    /\ effects \in [Events -> 0..2]

DlqTypes ==
    /\ dlq \subseteq Records
    /\ burials \in [Messages -> Nat] /\ \A m \in Messages : burials[m] <= MaxRecords[m[1]]
    /\ dlqWindow \subseteq Messages

ReplayTypes ==
    /\ replay \in [Operators -> {"idle", "loaded", "published"}]
    /\ rec \in [Operators -> Records \union {NoMessage}]
    /\ replayed \subseteq Records /\ replayWindow \subseteq Records

Types == StreamTypes /\ WorkerTypes /\ DbTypes /\ DlqTypes /\ ReplayTypes

LEMMA TypesSuffice == Types => TypeOK
  BY DEF Types, StreamTypes, WorkerTypes, DbTypes, DlqTypes, ReplayTypes, TypeOK

LEMMA MessageFacts ==
  /\ \A m \in Messages : /\ m = <<m[1], m[2]>> /\ m[1] \in Events
                         /\ m[2] \in Nat /\ 1 <= m[2] /\ m[2] <= MaxCopies[m[1]]
  /\ \A e \in Events : \A k \in 1..MaxCopies[e] : <<e, k>> \in Messages
  BY DEF Messages

LEMMA RecordFacts ==
  /\ \A d \in Records : /\ d = <<d[1], d[2]>> /\ d[1] \in Messages
                        /\ d[2] \in Nat /\ 1 <= d[2] /\ d[2] <= MaxRecords[d[1][1]]
  /\ \A m \in Messages : \A j \in 1..MaxRecords[m[1]] : <<m, j>> \in Records
<1>1. Records = UNION {{m} \X (1..MaxRecords[m[1]]) : m \in Messages}
  BY DEF Records
<1>2. \A m \in Messages : MaxRecords[m[1]] \in Nat
  BY MessageFacts
<1> HIDE DEF Messages
<1> QED
  BY <1>1, <1>2

-----------------------------------------------------------------------------
(***************************************************************************)
(* The invariant.                                                          *)
(***************************************************************************)

\* The copies of an event are stored one after the other.
StoredInOrder == \A m \in Messages : msg[m] # "absent" <=> m[2] <= copies[m[1]]

\* Nothing leaves the stream's consumer for nowhere.
SettledIsKept ==
    /\ \A m \in Messages : msg[m] = "acked" => m[1] \in Applied
    /\ \A m \in Messages : msg[m] = "termed" => burials[m] > 0

\* Markers are committed with the change they stand for.
MarkedIsApplied == inbox \subseteq Applied

\* What a worker has in hand.
InHand(w) ==
    phase[w] # "idle" =>
        /\ job[w] \in Messages /\ msg[job[w]] # "absent"
        /\ phase[w] = "ack" => job[w][1] \in Applied
        /\ phase[w] = "buried" => burials[job[w]] > 0

\* A dead letter was stored for a message of the stream, and is there until it was
\* replayed; the replay has stored a later copy.
DeadLettersKept ==
    /\ \A m \in Messages : m \in dlqWindow \/ burials[m] > 0 =>
          burials[m] > 0 /\ msg[m] # "absent"
    /\ \A d \in Records : d[2] <= burials[d[1]] <=> d \in dlq \union replayed

ReplayedIsNewer ==
    /\ replayWindow \subseteq replayed
    /\ \A d \in replayed : d[1][2] < copies[d[1][1]]

\* What an operator has in hand.
Recovering(o) ==
    /\ replay[o] # "idle" => rec[o] \in dlq \union replayed
    /\ replay[o] = "published" => rec[o] \in replayed

DeliveryInv ==
    /\ Types
    /\ StoredInOrder /\ SettledIsKept /\ MarkedIsApplied
    /\ DeadLettersKept /\ ReplayedIsNewer
    /\ \A w \in Workers : InHand(w)
    /\ \A o \in Operators : Recovering(o)

-----------------------------------------------------------------------------
(***************************************************************************)
(* What the parts of a step do.                                            *)
(***************************************************************************)

\* The stream only adds copies.
LEMMA StoreFacts ==
  ASSUME StreamTypes, StoredInOrder, NEW e \in Events, Store(e)
  PROVE  /\ StreamTypes' /\ StoredInOrder'
         /\ copies'[e] = copies[e] + 1
         /\ \A f \in Events : copies[f] <= copies'[f]
         /\ \A m \in Messages : msg[m] # "absent" => msg'[m] = msg[m]
         /\ \A m \in Messages : msg'[m] = msg[m] \/ (msg'[m] = "pending" /\ m[1] = e)
         /\ <<e, copies[e] + 1>> \in Messages /\ msg'[<<e, copies[e] + 1>>] = "pending"
<1> DEFINE new == <<e, copies[e] + 1>>
<1>1. copies[e] \in Nat /\ MaxCopies[e] \in Nat /\ copies[e] < MaxCopies[e]
  BY DEF StreamTypes, Store
<1>2. new \in Messages /\ new[1] = e /\ new[2] = copies[e] + 1
  BY <1>1, MessageFacts
<1> HIDE DEF new
<1>3. /\ copies' = [copies EXCEPT ![e] = @ + 1] /\ delivered' = delivered
      /\ msg' = [msg EXCEPT ![new] = "pending"]
  BY DEF Store, new
<1>4. msg[new] = "absent"
  BY <1>1, <1>2 DEF StoredInOrder, StreamTypes
<1>5. \A m \in Messages : m[1] = e /\ m[2] = copies[e] + 1 => m = new
  BY MessageFacts DEF new
<1>6. StreamTypes'
  BY <1>1, <1>2, <1>3 DEF StreamTypes
<1>7. StoredInOrder'
  <2> SUFFICES ASSUME NEW m \in Messages PROVE msg'[m] # "absent" <=> m[2] <= copies'[m[1]]
    BY DEF StoredInOrder
  <2>1. m[1] \in Events /\ m[2] \in Nat
    BY MessageFacts
  <2>2. CASE m = new
    BY <1>1, <1>2, <1>3, <2>2 DEF StreamTypes
  <2>3. CASE m # new
    <3>1. msg'[m] = msg[m]
      BY <1>3, <2>3 DEF StreamTypes
    <3>2. CASE m[1] = e
      BY <1>1, <1>3, <1>5, <2>1, <2>3, <3>1, <3>2 DEF StoredInOrder, StreamTypes
    <3>3. CASE m[1] # e
      BY <1>3, <2>1, <3>1, <3>3 DEF StoredInOrder, StreamTypes
    <3> QED
      BY <3>2, <3>3
  <2> QED
    BY <2>2, <2>3
<1>8. /\ copies'[e] = copies[e] + 1
      /\ \A f \in Events : copies[f] <= copies'[f]
  BY <1>1, <1>3 DEF StreamTypes
<1>9. /\ \A m \in Messages : msg[m] # "absent" => msg'[m] = msg[m]
      /\ \A m \in Messages : msg'[m] = msg[m] \/ (msg'[m] = "pending" /\ m[1] = e)
      /\ msg'[new] = "pending"
  BY <1>2, <1>3, <1>4 DEF StreamTypes
<1> QED
  BY <1>2, <1>6, <1>7, <1>8, <1>9 DEF new

\* A commit applies its event and no other.
LEMMA CommitFacts ==
  ASSUME DbTypes, MarkedIsApplied, NEW e \in Events, Commit(e)
  PROVE  /\ DbTypes' /\ MarkedIsApplied'
         /\ Applied' = Applied \union {e}
<1>1. CASE e \in inbox /\ UNCHANGED dbVars
  <2>1. UNCHANGED <<inbox, startedAt, endedAt, roomOf, effects>>
    BY <1>1 DEF dbVars
  <2> QED
    BY <1>1, <2>1 DEF DbTypes, MarkedIsApplied, Applied
<1>2. CASE /\ e \notin inbox
           /\ IF e \in Started THEN UpsertStarted(e) ELSE UpdateEnded(e)
           /\ inbox' = inbox \union {e}
           /\ effects' = [effects EXCEPT ![e] = Minimum(@ + 1, 2)]
  <2>1. effects' \in [Events -> 0..2] /\ effects'[e] > 0
        /\ \A f \in Events : f # e => effects'[f] = effects[f]
    BY <1>2 DEF DbTypes, Minimum
  <2>2. Applied' = Applied \union {e}
    BY <2>1 DEF Applied
  <2>3. startedAt' \in [Games -> Nat] /\ endedAt' \in [Games -> Nat]
        /\ roomOf' \in [Games -> Rooms \union {NoRoom}]
    <3>1. GameOf[e] \in Games /\ RoomOf[e] \in Rooms /\ At[e] \in Nat
      OBVIOUS
    <3>2. CASE UpsertStarted(e)
      BY <3>1, <3>2 DEF UpsertStarted, DbTypes, Minimum, NoTime
    <3>3. CASE UpdateEnded(e)
      BY <3>1, <3>3 DEF UpdateEnded, DbTypes, Minimum, NoTime
    <3> QED
      BY <1>2, <3>2, <3>3
  <2> QED
    BY <1>2, <2>1, <2>2, <2>3 DEF DbTypes, MarkedIsApplied
<1> QED
  BY <1>1, <1>2 DEF Commit

\* Storing the dead letter of a message, again or for the first time.
LEMMA StoreDeadLetterFacts ==
  ASSUME DlqTypes, DeadLettersKept, NEW m \in Messages, msg[m] # "absent",
         UNCHANGED <<msg, replayed>>, StoreDeadLetter(m)
  PROVE  /\ DlqTypes' /\ DeadLettersKept'
         /\ burials'[m] > 0
         /\ \A n \in Messages : burials[n] <= burials'[n]
         /\ \A n \in Messages : n # m => burials'[n] = burials[n]
         /\ dlq' = dlq \/ \E d \in Records : d \notin dlq /\ dlq' = dlq \union {d}
         /\ dlq \subseteq dlq'
<1>1. CASE m \in dlqWindow /\ UNCHANGED dlqVars
  BY <1>1 DEF dlqVars, DlqTypes, DeadLettersKept
<1>2. CASE /\ m \notin dlqWindow /\ burials[m] < MaxRecords[m[1]]
           /\ burials' = [burials EXCEPT ![m] = @ + 1]
           /\ dlq' = dlq \union {<<m, burials[m] + 1>>}
           /\ dlqWindow' = dlqWindow \union {m}
  <2> DEFINE new == <<m, burials[m] + 1>>
  <2>1. burials[m] \in Nat /\ m[1] \in Events /\ MaxRecords[m[1]] \in Nat
    BY MessageFacts DEF DlqTypes
  <2>2. new \in Records /\ new[1] = m /\ new[2] = burials[m] + 1
    BY <1>2, <2>1, RecordFacts
  <2>3. \A d \in Records : d[1] = m /\ d[2] = burials[m] + 1 => d = new
    BY RecordFacts
  <2> HIDE DEF new
  <2>4. dlq' = dlq \union {new} /\ new \notin dlq
    BY <1>2, <2>1, <2>2 DEF new, DeadLettersKept
  <2>5. /\ burials'[m] = burials[m] + 1
        /\ \A n \in Messages : n # m => burials'[n] = burials[n]
        /\ burials' \in [Messages -> Nat]
    BY <1>2, <2>1 DEF DlqTypes
  <2>6. DlqTypes'
    BY <1>2, <2>1, <2>2, <2>4, <2>5 DEF DlqTypes
  <2>7. \A d \in Records : d[2] <= burials'[d[1]] <=> d \in dlq' \union replayed'
    <3> TAKE d \in Records
    <3>1. d[1] \in Messages /\ d[2] \in Nat
      BY RecordFacts
    <3>2. CASE d[1] = m
      BY <2>1, <2>2, <2>3, <2>4, <2>5, <3>1, <3>2 DEF DeadLettersKept
    <3>3. CASE d[1] # m
      BY <2>2, <2>4, <2>5, <3>1, <3>3 DEF DeadLettersKept
    <3> QED
      BY <3>2, <3>3
  <2>8. DeadLettersKept'
    BY <1>2, <2>1, <2>5, <2>7 DEF DeadLettersKept
  <2> QED
    BY <2>1, <2>2, <2>4, <2>5, <2>6, <2>8 DEF DlqTypes
<1> QED
  BY <1>1, <1>2 DEF StoreDeadLetter

\* Publishing a replay stores a copy newer than the message it recovers.
LEMMA StoreReplayFacts ==
  ASSUME StreamTypes, ReplayTypes, DlqTypes, StoredInOrder, DeadLettersKept, ReplayedIsNewer,
         NEW d \in Records, d \in dlq \union replayed,
         UNCHANGED dlqVars, StoreReplay(d)
  PROVE  /\ StreamTypes' /\ StoredInOrder' /\ DeadLettersKept' /\ ReplayedIsNewer'
         /\ replayed' \subseteq Records /\ replayWindow' \subseteq Records
         /\ replayed' = replayed \union {d}
         /\ \A m \in Messages : msg[m] # "absent" => msg'[m] = msg[m]
         /\ \A m \in Messages : msg'[m] = msg[m] \/ (msg'[m] = "pending" /\ m[1] = d[1][1])
         /\ \/ UNCHANGED <<copies, msg>>
            \/ \E k \in Nat : <<d[1][1], k>> \in Messages /\ msg'[<<d[1][1], k>>] = "pending"
<1>0. d[1] \in Messages /\ d[1][1] \in Events /\ d[1][2] \in Nat
  BY RecordFacts, MessageFacts
<1>a. UNCHANGED <<dlq, burials, dlqWindow>>
  BY DEF dlqVars
<1>1. CASE d \in replayWindow /\ UNCHANGED <<streamVars, replayed, replayWindow>>
  <2>1. UNCHANGED <<copies, msg, delivered, replayed, replayWindow>> /\ d \in replayed
    BY <1>1 DEF streamVars, ReplayedIsNewer
  <2> QED
    BY <1>a, <2>1 DEF StreamTypes, StoredInOrder, DeadLettersKept, ReplayedIsNewer, ReplayTypes
<1>2. CASE /\ d \notin replayWindow /\ Store(d[1][1])
           /\ replayed' = replayed \union {d}
           /\ replayWindow' = replayWindow \union {d}
  <2> DEFINE e == d[1][1]
  <2>1. /\ StreamTypes' /\ StoredInOrder'
        /\ copies'[e] = copies[e] + 1
        /\ \A f \in Events : copies[f] <= copies'[f]
        /\ \A m \in Messages : msg[m] # "absent" => msg'[m] = msg[m]
        /\ \A m \in Messages : msg'[m] = msg[m] \/ (msg'[m] = "pending" /\ m[1] = e)
        /\ <<e, copies[e] + 1>> \in Messages /\ msg'[<<e, copies[e] + 1>>] = "pending"
    BY <1>0, <1>2, StoreFacts
  <2>2. msg[d[1]] # "absent" /\ d[1][2] <= copies[e] /\ copies[e] \in Nat
    <3>1. d[2] <= burials[d[1]] /\ 1 <= d[2] /\ d[2] \in Nat /\ burials[d[1]] \in Nat
      BY <1>0, RecordFacts DEF DeadLettersKept, DlqTypes
    <3>2. msg[d[1]] # "absent"
      BY <1>0, <3>1 DEF DeadLettersKept
    <3> QED
      BY <1>0, <3>2 DEF StoredInOrder, StreamTypes
  <2>3. DeadLettersKept'
    <3>1. \A f \in Records : f[2] <= burials'[f[1]] <=> f \in dlq' \union replayed'
      BY <1>2, <1>a DEF DeadLettersKept
    <3>2. \A m \in Messages : m \in dlqWindow' \/ burials'[m] > 0 =>
             burials'[m] > 0 /\ msg'[m] # "absent"
      BY <1>a, <2>1 DEF DeadLettersKept
    <3> QED
      BY <3>1, <3>2 DEF DeadLettersKept
  <2>4. ReplayedIsNewer'
    <3> SUFFICES ASSUME NEW f \in replayed' PROVE f[1][2] < copies'[f[1][1]]
      BY <1>2 DEF ReplayedIsNewer
    <3>1. CASE f = d
      BY <1>0, <2>1, <2>2, <3>1
    <3>2. CASE f \in replayed
      <4>1. f[1] \in Messages /\ f[1][1] \in Events /\ f[1][2] \in Nat
        BY <3>2, RecordFacts, MessageFacts DEF ReplayTypes
      <4>2. copies[f[1][1]] \in Nat /\ copies'[f[1][1]] \in Nat
        BY <2>1, <4>1 DEF StreamTypes
      <4> QED
        BY <2>1, <3>2, <4>1, <4>2 DEF ReplayedIsNewer
    <3> QED
      BY <1>2, <3>1, <3>2
  <2>5. replayed' \subseteq Records /\ replayWindow' \subseteq Records
    BY <1>2 DEF ReplayTypes
  <2>6. copies[e] + 1 \in Nat
    BY <2>2
  <2> QED
    BY <1>2, <2>1, <2>3, <2>4, <2>5, <2>6
<1> QED
  BY <1>1, <1>2 DEF StoreReplay

-----------------------------------------------------------------------------
(***************************************************************************)
(* What the others have in hand.                                           *)
(***************************************************************************)

LEMMA StaysInHand ==
  ASSUME NEW w \in Workers, InHand(w), UNCHANGED <<phase[w], job[w]>>,
         Applied \subseteq Applied',
         \A m \in Messages : msg[m] # "absent" => msg'[m] # "absent",
         \A m \in Messages : burials[m] > 0 => burials'[m] > 0
  PROVE  InHand(w)'
  BY DEF InHand

\* A worker that returns has nothing in hand, and the others are left alone.
LEMMA ReturnFacts ==
  ASSUME WorkerTypes, \A v \in Workers : InHand(v), NEW w \in Workers, Return(w),
         Applied \subseteq Applied',
         \A m \in Messages : msg[m] # "absent" => msg'[m] # "absent",
         \A m \in Messages : burials[m] > 0 => burials'[m] > 0
  PROVE  WorkerTypes' /\ \A v \in Workers : InHand(v)'
<1>1. WorkerTypes'
  BY DEF WorkerTypes, Return
<1>2. phase'[w] = "idle"
  BY DEF WorkerTypes, Return
<1>3. \A v \in Workers : v # w => UNCHANGED <<phase[v], job[v]>>
  BY DEF WorkerTypes, Return
<1>4. InHand(w)'
  BY <1>2 DEF InHand
<1>5. \A v \in Workers : v # w => InHand(v)'
  BY <1>3, StaysInHand
<1> QED
  BY <1>1, <1>4, <1>5

\* A worker goes on to another phase with its message.
LEMMA AdvanceFacts ==
  ASSUME WorkerTypes, \A v \in Workers : InHand(v), NEW w \in Workers,
         NEW p \in {"ack", "failed", "buried"},
         phase[w] # "idle", phase' = [phase EXCEPT ![w] = p], UNCHANGED <<job, num>>,
         p = "ack" => job[w][1] \in Applied',
         p = "buried" => burials'[job[w]] > 0,
         Applied \subseteq Applied',
         \A m \in Messages : msg[m] # "absent" => msg'[m] # "absent",
         \A m \in Messages : burials[m] > 0 => burials'[m] > 0
  PROVE  WorkerTypes' /\ \A v \in Workers : InHand(v)'
<1>1. WorkerTypes'
  BY DEF WorkerTypes
<1>2. phase'[w] = p /\ job'[w] = job[w]
  BY DEF WorkerTypes
<1>3. \A v \in Workers : v # w => UNCHANGED <<phase[v], job[v]>>
  BY DEF WorkerTypes
<1>4. InHand(w)'
  BY <1>2 DEF InHand
<1>5. \A v \in Workers : v # w => InHand(v)'
  BY <1>3, StaysInHand
<1> QED
  BY <1>1, <1>4, <1>5

\* Settling a message that was applied, or whose dead letter is stored.
LEMMA SettleFacts ==
  ASSUME StreamTypes, StoredInOrder, SettledIsKept, NEW m \in Messages, NEW how \in {"acked", "termed"},
         Settle(m, how), UNCHANGED <<copies, delivered, effects, burials>>, msg[m] # "absent",
         how = "acked" => m[1] \in Applied, how = "termed" => burials[m] > 0
  PROVE  /\ StreamTypes' /\ StoredInOrder' /\ SettledIsKept'
         /\ \A n \in Messages : msg'[n] = "absent" <=> msg[n] = "absent"
         /\ \A n \in Messages : n # m => msg'[n] = msg[n]
<1>1. /\ msg' \in [Messages -> {"absent", "pending", "acked", "termed"}]
      /\ msg'[m] = IF msg[m] = "pending" THEN how ELSE msg[m]
      /\ \A n \in Messages : n # m => msg'[n] = msg[n]
  BY DEF Settle, StreamTypes
<1>2. Applied' = Applied
  BY DEF Applied
<1>3. \A n \in Messages : msg'[n] = "absent" <=> msg[n] = "absent"
  BY <1>1
<1>4. StreamTypes'
  BY <1>1 DEF StreamTypes
<1>5. StoredInOrder'
  BY <1>3 DEF StoredInOrder
<1>6. SettledIsKept'
  BY <1>1, <1>2 DEF SettledIsKept
<1> QED
  BY <1>1, <1>3, <1>4, <1>5, <1>6

-----------------------------------------------------------------------------
(***************************************************************************)
(* The invariant is inductive.                                             *)
(***************************************************************************)

LEMMA Start == Init => DeliveryInv
<1> SUFFICES ASSUME Init PROVE DeliveryInv
  OBVIOUS
<1>1. Types
  <2>1. StreamTypes
    BY DEF Init, StreamTypes
  <2>2. WorkerTypes /\ ReplayTypes
    BY DEF Init, WorkerTypes, ReplayTypes
  <2>3. DbTypes
    BY DEF Init, DbTypes, NoTime
  <2>4. DlqTypes
    BY MessageFacts DEF Init, DlqTypes
  <2> QED
    BY <2>1, <2>2, <2>3, <2>4 DEF Types
<1>2. StoredInOrder
  BY MessageFacts DEF Init, StoredInOrder
<1>3. SettledIsKept /\ MarkedIsApplied /\ ReplayedIsNewer
  BY DEF Init, SettledIsKept, MarkedIsApplied, ReplayedIsNewer
<1>4. DeadLettersKept
  BY RecordFacts DEF Init, DeadLettersKept
<1>5. (\A w \in Workers : InHand(w)) /\ (\A o \in Operators : Recovering(o))
  BY DEF Init, InHand, Recovering
<1> QED
  BY <1>1, <1>2, <1>3, <1>4, <1>5 DEF DeliveryInv

\* The relay publishes, or an old marker is deleted.
LEMMA OutsideKeeps ==
  ASSUME DeliveryInv, NEW e \in Events, Accept(e) \/ ForgetMarker(e)
  PROVE  DeliveryInv'
<1> USE DEF DeliveryInv, Types
<1>1. CASE Accept(e)
  <2>1. /\ Store(e)
        /\ UNCHANGED <<phase, job, num, inbox, startedAt, endedAt, roomOf, effects,
                       dlq, burials, dlqWindow, replay, rec, replayed, replayWindow>>
    BY <1>1 DEF Accept, workerVars, dbVars, dlqVars, replayVars
  <2>2. /\ StreamTypes' /\ StoredInOrder'
        /\ \A f \in Events : copies[f] <= copies'[f]
        /\ \A m \in Messages : msg[m] # "absent" => msg'[m] = msg[m]
        /\ \A m \in Messages : msg'[m] = msg[m] \/ msg'[m] = "pending"
    BY <2>1, StoreFacts
  <2>3. WorkerTypes' /\ DbTypes' /\ DlqTypes' /\ ReplayTypes'
    BY <2>1 DEF WorkerTypes, DbTypes, DlqTypes, ReplayTypes
  <2>4. Applied' = Applied
    BY <2>1 DEF Applied
  <2>5. SettledIsKept' /\ MarkedIsApplied' /\ DeadLettersKept'
    BY <2>1, <2>2, <2>4 DEF SettledIsKept, MarkedIsApplied, DeadLettersKept
  <2>6. ReplayedIsNewer'
    <3> SUFFICES ASSUME NEW d \in replayed PROVE d[1][2] < copies'[d[1][1]]
      BY <2>1 DEF ReplayedIsNewer
    <3>1. d[1][1] \in Events /\ d[1][2] \in Nat
      BY RecordFacts, MessageFacts DEF ReplayTypes
    <3>2. copies[d[1][1]] \in Nat /\ copies'[d[1][1]] \in Nat
      BY <2>2, <3>1 DEF StreamTypes
    <3> QED
      BY <2>2, <3>1, <3>2 DEF ReplayedIsNewer
  <2>7. \A w \in Workers : InHand(w)'
    BY <2>1, <2>2, <2>4, StaysInHand
  <2>8. \A o \in Operators : Recovering(o)'
    BY <2>1 DEF Recovering
  <2> QED
    BY <2>2, <2>3, <2>5, <2>6, <2>7, <2>8
<1>2. CASE ForgetMarker(e)
  <2>1. /\ inbox' = inbox \ {e}
        /\ UNCHANGED <<copies, msg, delivered, phase, job, num, startedAt, endedAt, roomOf,
                       effects, dlq, burials, dlqWindow, replay, rec, replayed, replayWindow>>
    BY <1>2 DEF ForgetMarker, streamVars, workerVars, dlqVars, replayVars
  <2>2. StreamTypes' /\ WorkerTypes' /\ DbTypes' /\ DlqTypes' /\ ReplayTypes'
    BY <2>1 DEF StreamTypes, WorkerTypes, DbTypes, DlqTypes, ReplayTypes
  <2>3. Applied' = Applied
    BY <2>1 DEF Applied
  <2>4. StoredInOrder' /\ SettledIsKept' /\ MarkedIsApplied' /\ DeadLettersKept'
        /\ ReplayedIsNewer'
    BY <2>1, <2>3 DEF StoredInOrder, SettledIsKept, MarkedIsApplied, DeadLettersKept,
                      ReplayedIsNewer
  <2>5. \A w \in Workers : InHand(w)'
    BY <2>1, <2>3, StaysInHand
  <2>6. \A o \in Operators : Recovering(o)'
    BY <2>1 DEF Recovering
  <2> QED
    BY <2>2, <2>4, <2>5, <2>6
<1> QED
  BY <1>1, <1>2

\* A worker's step that leaves the stream's copies, the dead letters and the replays alone.
LEMMA LocalStep ==
  ASSUME DeliveryInv,
         UNCHANGED <<copies, dlq, burials, dlqWindow, replay, rec, replayed, replayWindow>>,
         StreamTypes', StoredInOrder', WorkerTypes', DbTypes', MarkedIsApplied', SettledIsKept',
         \A m \in Messages : msg'[m] = "absent" <=> msg[m] = "absent",
         \A w \in Workers : InHand(w)'
  PROVE  DeliveryInv'
<1>1. DlqTypes' /\ ReplayTypes'
  BY DEF DeliveryInv, Types, DlqTypes, ReplayTypes
<1>2. DeadLettersKept' /\ ReplayedIsNewer'
  BY DEF DeliveryInv, DeadLettersKept, ReplayedIsNewer
<1>3. \A o \in Operators : Recovering(o)'
  BY DEF DeliveryInv, Recovering
<1> QED
  BY <1>1, <1>2, <1>3 DEF DeliveryInv, Types

LEMMA WorkerKeeps ==
  ASSUME DeliveryInv, NEW w \in Workers, WorkerStep(w)
  PROVE  DeliveryInv'
<1>0. /\ StreamTypes /\ WorkerTypes /\ DbTypes /\ DlqTypes /\ ReplayTypes
      /\ StoredInOrder /\ SettledIsKept /\ MarkedIsApplied /\ DeadLettersKept
      /\ ReplayedIsNewer /\ \A v \in Workers : InHand(v)
  BY DEF DeliveryInv, Types
<1>1. ASSUME NEW m \in Messages, Deliver(w, m) PROVE DeliveryInv'
  <2>1. /\ phase[w] = "idle" /\ msg[m] = "pending"
        /\ delivered' = [delivered EXCEPT ![m] = Minimum(@ + 1, MaxDeliver)]
        /\ phase' = [phase EXCEPT ![w] = "handle"]
        /\ job' = [job EXCEPT ![w] = m]
        /\ num' = [num EXCEPT ![w] = delivered'[m]]
        /\ UNCHANGED <<copies, msg, inbox, startedAt, endedAt, roomOf, effects,
                       dlq, burials, dlqWindow, replay, rec, replayed, replayWindow>>
    BY <1>1 DEF Deliver, dbVars, dlqVars, replayVars
  <2>2. delivered' \in [Messages -> 0..MaxDeliver] /\ delivered'[m] \in 0..MaxDeliver
    BY <1>0, <2>1 DEF StreamTypes, Minimum
  <2>3. StreamTypes' /\ WorkerTypes' /\ DbTypes'
    BY <1>0, <2>1, <2>2 DEF StreamTypes, WorkerTypes, DbTypes
  <2>4. Applied' = Applied
    BY <2>1 DEF Applied
  <2>5. StoredInOrder' /\ MarkedIsApplied' /\ SettledIsKept'
    BY <1>0, <2>1, <2>4 DEF StoredInOrder, MarkedIsApplied, SettledIsKept
  <2>6. InHand(w)'
    BY <1>0, <2>1 DEF InHand, WorkerTypes
  <2>7. \A v \in Workers : v # w => InHand(v)'
    <3>1. \A v \in Workers : v # w => UNCHANGED <<phase[v], job[v]>>
      BY <1>0, <2>1 DEF WorkerTypes
    <3> QED
      BY <1>0, <2>1, <2>4, <3>1, StaysInHand
  <2> QED
    BY <2>1, <2>3, <2>5, <2>6, <2>7, LocalStep
<1>2. CASE HandleOK(w)
  <2>1. /\ phase[w] = "handle" /\ Commit(job[w][1])
        /\ phase' = [phase EXCEPT ![w] = "ack"] /\ UNCHANGED <<job, num>>
        /\ UNCHANGED <<copies, msg, delivered, dlq, burials, dlqWindow,
                       replay, rec, replayed, replayWindow>>
    BY <1>2 DEF HandleOK, streamVars, dlqVars, replayVars
  <2>2. job[w] \in Messages /\ job[w][1] \in Events
    BY <1>0, <2>1, MessageFacts DEF InHand
  <2>3. DbTypes' /\ MarkedIsApplied' /\ Applied' = Applied \union {job[w][1]}
    BY <1>0, <2>1, <2>2, CommitFacts
  <2>4. WorkerTypes' /\ \A v \in Workers : InHand(v)'
    BY <1>0, <2>1, <2>3, AdvanceFacts
  <2>5. StreamTypes' /\ StoredInOrder' /\ SettledIsKept'
    BY <1>0, <2>1, <2>3 DEF StreamTypes, StoredInOrder, SettledIsKept
  <2> QED
    BY <2>1, <2>3, <2>4, <2>5, LocalStep
<1>3. CASE HandleError(w)
  <2>1. /\ phase[w] = "handle" /\ (Commit(job[w][1]) \/ UNCHANGED dbVars)
        /\ phase' = [phase EXCEPT ![w] = "failed"] /\ UNCHANGED <<job, num>>
        /\ UNCHANGED <<copies, msg, delivered, dlq, burials, dlqWindow,
                       replay, rec, replayed, replayWindow>>
    BY <1>3 DEF HandleError, streamVars, dlqVars, replayVars
  <2>2. job[w] \in Messages /\ job[w][1] \in Events
    BY <1>0, <2>1, MessageFacts DEF InHand
  <2>3. DbTypes' /\ MarkedIsApplied' /\ Applied \subseteq Applied'
    <3>1. CASE Commit(job[w][1])
      BY <1>0, <2>2, <3>1, CommitFacts
    <3>2. CASE UNCHANGED dbVars
      BY <1>0, <3>2 DEF dbVars, DbTypes, MarkedIsApplied, Applied
    <3> QED
      BY <2>1, <3>1, <3>2
  <2>4. WorkerTypes' /\ \A v \in Workers : InHand(v)'
    BY <1>0, <2>1, <2>3, AdvanceFacts
  <2>5. StreamTypes' /\ StoredInOrder' /\ SettledIsKept'
    BY <1>0, <2>1, <2>3 DEF StreamTypes, StoredInOrder, SettledIsKept
  <2> QED
    BY <2>1, <2>3, <2>4, <2>5, LocalStep
<1>4. CASE Ack(w) \/ Term(w)
  <2>1. PICK how \in {"acked", "termed"} :
          /\ Settle(job[w], how) /\ Return(w)
          /\ phase[w] = (IF how = "acked" THEN "ack" ELSE "buried")
          /\ UNCHANGED <<copies, delivered, inbox, startedAt, endedAt, roomOf, effects,
                         dlq, burials, dlqWindow, replay, rec, replayed, replayWindow>>
    BY <1>4 DEF Ack, Term, dbVars, dlqVars, replayVars
  <2>2. /\ job[w] \in Messages /\ msg[job[w]] # "absent"
        /\ how = "acked" => job[w][1] \in Applied
        /\ how = "termed" => burials[job[w]] > 0
    BY <1>0, <2>1 DEF InHand
  <2>3. /\ StreamTypes' /\ StoredInOrder' /\ SettledIsKept'
        /\ \A n \in Messages : msg'[n] = "absent" <=> msg[n] = "absent"
    BY <1>0, <2>1, <2>2, SettleFacts
  <2>4. DbTypes' /\ MarkedIsApplied' /\ Applied' = Applied
    BY <1>0, <2>1 DEF DbTypes, MarkedIsApplied, Applied
  <2>5. WorkerTypes' /\ \A v \in Workers : InHand(v)'
    BY <1>0, <2>1, <2>3, <2>4, ReturnFacts
  <2> QED
    BY <2>1, <2>3, <2>4, <2>5, LocalStep
<1>5. CASE Nak(w) \/ Drop(w)
  <2>1. /\ Return(w)
        /\ UNCHANGED <<copies, msg, delivered, inbox, startedAt, endedAt, roomOf, effects,
                       dlq, burials, dlqWindow, replay, rec, replayed, replayWindow>>
    BY <1>5 DEF Nak, Drop, streamVars, dbVars, dlqVars, replayVars
  <2>2. DbTypes' /\ MarkedIsApplied' /\ Applied' = Applied
    BY <1>0, <2>1 DEF DbTypes, MarkedIsApplied, Applied
  <2>3. WorkerTypes' /\ \A v \in Workers : InHand(v)'
    BY <1>0, <2>1, <2>2, ReturnFacts
  <2>4. StreamTypes' /\ StoredInOrder' /\ SettledIsKept'
    BY <1>0, <2>1, <2>2 DEF StreamTypes, StoredInOrder, SettledIsKept
  <2> QED
    BY <2>1, <2>2, <2>3, <2>4, LocalStep
<1>6. CASE Bury(w) \/ BuryError(w)
  <2>1. /\ phase[w] = "failed"
        /\ UNCHANGED <<copies, msg, delivered, inbox, startedAt, endedAt, roomOf, effects,
                       replay, rec, replayed, replayWindow>>
        /\ \/ /\ StoreDeadLetter(job[w])
              /\ phase' = [phase EXCEPT ![w] = "buried"] /\ UNCHANGED <<job, num>>
           \/ (StoreDeadLetter(job[w]) \/ UNCHANGED dlqVars) /\ Return(w)
    BY <1>6 DEF Bury, BuryError, streamVars, dbVars, replayVars
  <2>2. job[w] \in Messages /\ msg[job[w]] # "absent"
    BY <1>0, <2>1 DEF InHand
  <2>3. DbTypes' /\ StreamTypes' /\ ReplayTypes' /\ Applied' = Applied
    BY <1>0, <2>1 DEF DbTypes, StreamTypes, ReplayTypes, Applied
  <2>4. /\ DlqTypes' /\ DeadLettersKept' /\ dlq \subseteq dlq'
        /\ \A n \in Messages : burials[n] > 0 => burials'[n] > 0
        /\ StoreDeadLetter(job[w]) => burials'[job[w]] > 0
    <3>1. CASE StoreDeadLetter(job[w])
      <4>1. /\ DlqTypes' /\ DeadLettersKept' /\ burials'[job[w]] > 0 /\ dlq \subseteq dlq'
            /\ \A n \in Messages : burials[n] <= burials'[n]
        BY <1>0, <2>1, <2>2, <3>1, StoreDeadLetterFacts
      <4>2. \A n \in Messages : burials[n] \in Nat /\ burials'[n] \in Nat
        BY <1>0, <4>1 DEF DlqTypes
      <4> QED
        BY <4>1, <4>2
    <3>2. CASE ~StoreDeadLetter(job[w]) /\ UNCHANGED dlqVars
      BY <1>0, <2>1, <3>2 DEF dlqVars, DlqTypes, DeadLettersKept
    <3> QED
      BY <2>1, <3>1, <3>2
  <2>5. WorkerTypes' /\ \A v \in Workers : InHand(v)'
    <3>1. CASE /\ StoreDeadLetter(job[w])
               /\ phase' = [phase EXCEPT ![w] = "buried"] /\ UNCHANGED <<job, num>>
      BY <1>0, <2>1, <2>3, <2>4, <3>1, AdvanceFacts
    <3>2. CASE Return(w)
      BY <1>0, <2>1, <2>3, <2>4, <3>2, ReturnFacts
    <3> QED
      BY <2>1, <3>1, <3>2
  <2>6. StoredInOrder' /\ MarkedIsApplied' /\ ReplayedIsNewer'
    BY <1>0, <2>1, <2>3 DEF StoredInOrder, MarkedIsApplied, ReplayedIsNewer
  <2>7. SettledIsKept'
    BY <1>0, <2>1, <2>3, <2>4 DEF SettledIsKept
  <2>8. \A o \in Operators : Recovering(o)'
    BY <2>1, <2>4 DEF DeliveryInv, Recovering
  <2> QED
    BY <2>3, <2>4, <2>5, <2>6, <2>7, <2>8 DEF DeliveryInv, Types
<1> QED
  BY <1>1, <1>2, <1>3, <1>4, <1>5, <1>6 DEF WorkerStep

LEMMA OperatorKeeps ==
  ASSUME DeliveryInv, NEW o \in Operators, OperatorStep(o)
  PROVE  DeliveryInv'
<1>0. /\ StreamTypes /\ WorkerTypes /\ DbTypes /\ DlqTypes /\ ReplayTypes
      /\ StoredInOrder /\ SettledIsKept /\ MarkedIsApplied /\ DeadLettersKept
      /\ ReplayedIsNewer /\ (\A w \in Workers : InHand(w))
      /\ (\A p \in Operators : Recovering(p))
  BY DEF DeliveryInv, Types
<1>1. /\ UNCHANGED <<phase, job, num, inbox, startedAt, endedAt, roomOf, effects>>
      /\ Applied' = Applied
  BY DEF OperatorStep, Load, Republish, RepublishError, DeleteReplayed, AbortReplay,
         workerVars, dbVars, Applied
<1>2. WorkerTypes' /\ DbTypes' /\ MarkedIsApplied'
  BY <1>0, <1>1 DEF WorkerTypes, DbTypes, MarkedIsApplied
<1>3. CASE (\E d \in dlq : Load(o, d)) \/ AbortReplay(o)
  <2>1. /\ UNCHANGED <<copies, msg, delivered, dlq, burials, dlqWindow, replayed, replayWindow>>
        /\ \/ \E d \in dlq : replay' = [replay EXCEPT ![o] = "loaded"] /\ rec' = [rec EXCEPT ![o] = d]
           \/ StopReplay(o)
    BY <1>3 DEF Load, AbortReplay, streamVars, dlqVars
  <2>2. StreamTypes' /\ DlqTypes' /\ StoredInOrder' /\ DeadLettersKept' /\ ReplayedIsNewer'
    BY <1>0, <2>1 DEF StreamTypes, DlqTypes, StoredInOrder, DeadLettersKept, ReplayedIsNewer
  <2>3. SettledIsKept'
    BY <1>0, <1>1, <2>1 DEF SettledIsKept
  <2>4. ReplayTypes'
    BY <1>0, <2>1 DEF ReplayTypes, DlqTypes, StopReplay
  <2>5. \A p \in Operators : Recovering(p)'
    BY <1>0, <2>1 DEF Recovering, ReplayTypes, StopReplay
  <2>6. \A w \in Workers : InHand(w)'
    BY <1>0, <1>1, <2>1, StaysInHand
  <2> QED
    BY <1>2, <2>2, <2>3, <2>4, <2>5, <2>6 DEF DeliveryInv, Types
<1>4. CASE Republish(o) \/ RepublishError(o)
  <2>1. /\ replay[o] = "loaded" /\ UNCHANGED <<dlq, burials, dlqWindow>> /\ UNCHANGED dlqVars
        /\ \/ StoreReplay(rec[o]) /\ replay' = [replay EXCEPT ![o] = "published"] /\ UNCHANGED rec
           \/ /\ StoreReplay(rec[o]) \/ UNCHANGED <<streamVars, replayed, replayWindow>>
              /\ StopReplay(o)
    BY <1>4 DEF Republish, RepublishError, dlqVars
  <2>2. rec[o] \in dlq \union replayed /\ rec[o] \in Records
    BY <1>0, <2>1 DEF Recovering, DlqTypes, ReplayTypes
  <2>3. /\ StreamTypes' /\ StoredInOrder' /\ DeadLettersKept' /\ ReplayedIsNewer'
        /\ replayed' \subseteq Records /\ replayWindow' \subseteq Records
        /\ replayed \subseteq replayed'
        /\ StoreReplay(rec[o]) => rec[o] \in replayed'
        /\ \A m \in Messages : msg[m] # "absent" => msg'[m] = msg[m]
        /\ \A m \in Messages : msg'[m] = msg[m] \/ msg'[m] = "pending"
    <3>1. CASE StoreReplay(rec[o])
      BY <1>0, <2>1, <2>2, <3>1, StoreReplayFacts
    <3>2. CASE ~StoreReplay(rec[o])
      <4>1. UNCHANGED <<copies, msg, delivered, replayed, replayWindow>>
        BY <2>1, <3>2 DEF streamVars
      <4> QED
        BY <1>0, <2>1, <3>2, <4>1
           DEF StreamTypes, StoredInOrder, DeadLettersKept, ReplayedIsNewer, ReplayTypes
    <3> QED
      BY <3>1, <3>2
  <2>4. ReplayTypes'
    BY <1>0, <2>1, <2>3 DEF ReplayTypes, StopReplay
  <2>5. DlqTypes'
    BY <1>0, <2>1 DEF DlqTypes
  <2>6. SettledIsKept'
    BY <1>0, <1>1, <2>1, <2>3 DEF SettledIsKept
  <2>7. \A w \in Workers : InHand(w)'
    BY <1>0, <1>1, <2>1, <2>3, StaysInHand
  <2>8. \A p \in Operators : Recovering(p)'
    <3>1. CASE StoreReplay(rec[o]) /\ replay' = [replay EXCEPT ![o] = "published"] /\ UNCHANGED rec
      BY <1>0, <2>1, <2>3, <3>1 DEF Recovering, ReplayTypes
    <3>2. CASE StopReplay(o)
      BY <1>0, <2>1, <2>3, <3>2 DEF Recovering, ReplayTypes, StopReplay
    <3> QED
      BY <2>1, <3>1, <3>2
  <2> QED
    BY <1>2, <2>3, <2>4, <2>5, <2>6, <2>7, <2>8 DEF DeliveryInv, Types
<1>5. CASE DeleteReplayed(o)
  <2>1. /\ replay[o] = "published" /\ dlq' = dlq \ {rec[o]} /\ StopReplay(o)
        /\ UNCHANGED <<copies, msg, delivered, burials, dlqWindow, replayed, replayWindow>>
    BY <1>5 DEF DeleteReplayed, streamVars
  <2>2. rec[o] \in replayed
    BY <1>0, <2>1 DEF Recovering
  <2>3. dlq' \union replayed' = dlq \union replayed
    BY <2>1, <2>2
  <2>4. StreamTypes' /\ DlqTypes' /\ ReplayTypes'
    BY <1>0, <2>1 DEF StreamTypes, DlqTypes, ReplayTypes, StopReplay
  <2>5. StoredInOrder' /\ ReplayedIsNewer'
    BY <1>0, <2>1 DEF StoredInOrder, ReplayedIsNewer
  <2>6. DeadLettersKept'
    BY <1>0, <2>1, <2>3 DEF DeadLettersKept
  <2>7. SettledIsKept'
    BY <1>0, <1>1, <2>1 DEF SettledIsKept
  <2>8. \A w \in Workers : InHand(w)'
    BY <1>0, <1>1, <2>1, StaysInHand
  <2>9. \A p \in Operators : Recovering(p)'
    BY <1>0, <2>1, <2>3 DEF Recovering, ReplayTypes, StopReplay
  <2> QED
    BY <1>2, <2>4, <2>5, <2>6, <2>7, <2>8, <2>9 DEF DeliveryInv, Types
<1> QED
  BY <1>3, <1>4, <1>5 DEF OperatorStep

\* The duplicate windows close.
LEMMA WindowsKeep ==
  ASSUME DeliveryInv,
         (\E m \in Messages : CloseDlqWindow(m)) \/ (\E d \in Records : CloseReplayWindow(d))
  PROVE  DeliveryInv'
<1>1. /\ UNCHANGED <<copies, msg, delivered, phase, job, num, inbox, startedAt, endedAt, roomOf,
                     effects, dlq, burials, replay, rec, replayed>>
      /\ dlqWindow' \subseteq dlqWindow /\ replayWindow' \subseteq replayWindow
  BY DEF CloseDlqWindow, CloseReplayWindow, streamVars, workerVars, dbVars, dlqVars, replayVars
<1>2. Applied' = Applied
  BY <1>1 DEF Applied
<1>3. Types'
  BY <1>1 DEF DeliveryInv, Types, StreamTypes, WorkerTypes, DbTypes, DlqTypes, ReplayTypes
<1>4. StoredInOrder' /\ SettledIsKept' /\ MarkedIsApplied' /\ DeadLettersKept' /\ ReplayedIsNewer'
  BY <1>1, <1>2 DEF DeliveryInv, StoredInOrder, SettledIsKept, MarkedIsApplied, DeadLettersKept,
                    ReplayedIsNewer
<1>5. \A w \in Workers : InHand(w)'
  BY <1>1, <1>2, StaysInHand DEF DeliveryInv
<1>6. \A o \in Operators : Recovering(o)'
  BY <1>1 DEF DeliveryInv, Recovering
<1> QED
  BY <1>3, <1>4, <1>5, <1>6 DEF DeliveryInv

\* Every step keeps the invariant.
LEMMA StepKeeps == DeliveryInv /\ [Next]_vars => DeliveryInv'
<1> SUFFICES ASSUME DeliveryInv, [Next]_vars PROVE DeliveryInv'
  OBVIOUS
<1>1. CASE Next
  BY <1>1, OutsideKeeps, WorkerKeeps, OperatorKeeps, WindowsKeep DEF Next, Consume
<1>2. CASE UNCHANGED vars
  <2>1. UNCHANGED <<copies, msg, delivered, phase, job, num, inbox, startedAt, endedAt, roomOf,
                    effects, dlq, burials, dlqWindow, replay, rec, replayed, replayWindow>>
    BY <1>2 DEF vars, streamVars, workerVars, dbVars, dlqVars, replayVars
  <2>2. Applied' = Applied
    BY <2>1 DEF Applied
  <2> QED
    BY <2>1, <2>2 DEF DeliveryInv, Types, StreamTypes, WorkerTypes, DbTypes, DlqTypes,
       ReplayTypes, StoredInOrder, SettledIsKept, MarkedIsApplied, DeadLettersKept,
       ReplayedIsNewer, InHand, Recovering
<1> QED
  BY <1>1, <1>2

\* The invariant holds in every reachable state.
THEOREM Invariance == Spec => []DeliveryInv
  BY StepKeeps, Start, PTL DEF Spec

(***************************************************************************)
(* The state of stream, consumer, database and dead letters keeps its      *)
(* type.                                                                   *)
(***************************************************************************)
THEOREM TypeCorrect == Spec => []TypeOK
  BY Invariance, TypesSuffice, PTL DEF DeliveryInv

(***************************************************************************)
(* An event the stream accepted is applied, pending, or held by a dead     *)
(* letter, whatever fails and whoever replays (StartGameEventsConsumer,    *)
(* handleGameEventFailure, Replay): its newest copy cannot have been       *)
(* replayed.                                                               *)
(***************************************************************************)
THEOREM NothingIsStranded == Spec => []NothingStranded
<1>1. DeliveryInv => NothingStranded
  <2> SUFFICES ASSUME DeliveryInv, NEW e \in Events, copies[e] > 0, e \notin Applied,
                      ~ \E m \in Messages : m[1] = e /\ msg[m] = "pending"
               PROVE  \E d \in dlq : d[1][1] = e
    BY DEF NothingStranded
  <2> DEFINE last == <<e, copies[e]>>
  <2>1. copies[e] \in 1..MaxCopies[e]
    BY DEF DeliveryInv, Types, StreamTypes
  <2>2. last \in Messages /\ last[1] = e /\ last[2] = copies[e]
    BY <2>1, MessageFacts
  <2> HIDE DEF last
  <2>3. msg[last] \in {"absent", "pending", "acked", "termed"} /\ burials[last] \in Nat
        /\ burials[last] <= MaxRecords[e] /\ MaxRecords[e] \in Nat
    BY <2>2 DEF DeliveryInv, Types, StreamTypes, DlqTypes
  <2>4. msg[last] # "absent"
    BY <2>1, <2>2 DEF DeliveryInv, StoredInOrder
  <2>5. burials[last] > 0
    BY <2>2, <2>3, <2>4 DEF DeliveryInv, SettledIsKept
  <2>6. <<last, 1>> \in Records
    BY <2>2, <2>3, <2>5, RecordFacts
  <2>7. <<last, 1>>[1] = last /\ <<last, 1>>[2] = 1
    OBVIOUS
  <2>8. <<last, 1>> \in dlq \union replayed
    BY <2>3, <2>5, <2>6, <2>7 DEF DeliveryInv, DeadLettersKept
  <2>9. <<last, 1>> \notin replayed
    BY <2>1, <2>2, <2>7 DEF DeliveryInv, ReplayedIsNewer
  <2> QED
    BY <2>2, <2>7, <2>8, <2>9
<1> QED
  BY <1>1, Invariance, PTL

\* Nothing but a committed transaction changes sessions, and nothing but that and
\* the cleanup of the markers changes the inbox.
LEMMA CommitsOnly ==
  ASSUME DeliveryInv, [Next]_vars
  PROVE  \/ \E e \in Events : Commit(e)
         \/ /\ UNCHANGED <<startedAt, endedAt, roomOf, effects>>
            /\ UNCHANGED inbox \/ \E e \in Events : ForgetMarker(e)
<1>1. CASE \E w \in Workers : HandleOK(w) \/ HandleError(w)
  <2>1. PICK w \in Workers : HandleOK(w) \/ HandleError(w)
    BY <1>1
  <2>2. job[w][1] \in Events
    BY <2>1, MessageFacts DEF HandleOK, HandleError, DeliveryInv, InHand
  <2> QED
    BY <2>1, <2>2 DEF HandleOK, HandleError, dbVars
<1>2. CASE \E e \in Events : ForgetMarker(e)
  BY <1>2 DEF ForgetMarker
<1>3. CASE /\ ~ \E w \in Workers : HandleOK(w) \/ HandleError(w)
           /\ ~ \E e \in Events : ForgetMarker(e)
  <2>1. \A w \in Workers : WorkerStep(w) => UNCHANGED dbVars
    BY <1>3 DEF WorkerStep, Deliver, Ack, Nak, Bury, BuryError, Term, Drop
  <2>2. \A o \in Operators : OperatorStep(o) => UNCHANGED dbVars
    BY DEF OperatorStep, Load, Republish, RepublishError, DeleteReplayed, AbortReplay
  <2>3. UNCHANGED dbVars
    BY <1>3, <2>1, <2>2 DEF Next, Consume, Accept, CloseDlqWindow, CloseReplayWindow, vars
  <2> QED
    BY <2>3 DEF dbVars
<1> QED
  BY <1>1, <1>2, <1>3

(***************************************************************************)
(* While markers are kept, an event changes its session once, and exactly  *)
(* if it is marked (process, claimEvent): every change is made by a step   *)
(* that commits, and that step found no marker.                            *)
(***************************************************************************)
THEOREM AppliedOnce == Spec => []ExactlyOnce
<1> DEFINE Counted == ~MarkersExpire => \A e \in Events : effects[e] = IF e \in inbox THEN 1 ELSE 0
<1>1. Init => Counted
  BY DEF Init
<1>2. DeliveryInv /\ Counted /\ [Next]_vars => Counted'
  <2> SUFFICES ASSUME DeliveryInv, Counted, ~MarkersExpire, [Next]_vars PROVE Counted'
    OBVIOUS
  <2>1. UNCHANGED <<inbox, effects>> \/ \E e \in Events : Commit(e)
    <3>1. \A e \in Events : ~ForgetMarker(e)
      BY DEF ForgetMarker
    <3> QED
      BY <3>1, CommitsOnly
  <2>2. CASE UNCHANGED <<inbox, effects>>
    BY <2>2
  <2>3. ASSUME NEW e \in Events, Commit(e) PROVE Counted'
    <3>1. CASE UNCHANGED dbVars
      BY <3>1 DEF dbVars
    <3>2. CASE /\ e \notin inbox /\ inbox' = inbox \union {e}
               /\ effects' = [effects EXCEPT ![e] = Minimum(@ + 1, 2)]
      <4>1. effects \in [Events -> 0..2] /\ effects[e] = 0
        BY <3>2 DEF DeliveryInv, Types, DbTypes
      <4>2. Minimum(effects[e] + 1, 2) = 1
        BY <4>1 DEF Minimum
      <4>3. \A f \in Events : effects'[f] = IF f = e THEN 1 ELSE effects[f]
        BY <3>2, <4>1, <4>2
      <4> QED
        BY <3>2, <4>3
    <3> QED
      BY <2>3, <3>1, <3>2 DEF Commit
  <2> QED
    BY <2>1, <2>2, <2>3
<1>3. Counted => ExactlyOnce
  BY DEF ExactlyOnce
<1> QED
  BY <1>1, <1>2, <1>3, Invariance, PTL DEF Spec

-----------------------------------------------------------------------------
(***************************************************************************)
(* What enters the stream: only the relay brings in new events.            *)
(***************************************************************************)

\* A dead letter is of a message that the stream has stored.
LEMMA RecordIsOfStored ==
  ASSUME DeliveryInv, NEW d \in dlq \union replayed
  PROVE  d[1] \in Messages /\ d[1][1] \in Events /\ copies[d[1][1]] > 0
<1>1. d \in Records
  BY DEF DeliveryInv, Types, DlqTypes, ReplayTypes
<1>2. /\ d[1] \in Messages /\ d[1][1] \in Events /\ d[1][2] \in Nat /\ 1 <= d[1][2]
      /\ d[2] \in Nat /\ 1 <= d[2] /\ burials[d[1]] \in Nat /\ copies[d[1][1]] \in Nat
  BY <1>1, RecordFacts, MessageFacts DEF DeliveryInv, Types, DlqTypes, StreamTypes
<1>3. d[2] <= burials[d[1]]
  BY <1>1 DEF DeliveryInv, DeadLettersKept
<1>4. msg[d[1]] # "absent"
  BY <1>2, <1>3 DEF DeliveryInv, DeadLettersKept
<1>5. d[1][2] <= copies[d[1][1]]
  BY <1>2, <1>4 DEF DeliveryInv, StoredInOrder
<1> QED
  BY <1>2, <1>5

\* The stream may get further copies from operators, but no event it has not seen.
LEMMA NothingNew ==
  ASSUME DeliveryInv, Consume
  PROVE  \A e \in Events : copies[e] <= copies'[e] /\ (copies'[e] > 0 => copies[e] > 0)
<1>0. copies \in [Events -> Nat]
  BY DEF DeliveryInv, Types, StreamTypes
<1>1. CASE UNCHANGED copies
  BY <1>0, <1>1
<1>2. ASSUME NEW o \in Operators, Republish(o) \/ RepublishError(o)
      PROVE  \A e \in Events : copies[e] <= copies'[e] /\ (copies'[e] > 0 => copies[e] > 0)
  <2>1. rec[o] \in dlq \union replayed
    BY <1>2 DEF Republish, RepublishError, DeliveryInv, Recovering
  <2> DEFINE f == rec[o][1][1]
  <2>2. f \in Events /\ copies[f] > 0
    BY <2>1, RecordIsOfStored
  <2>3. copies' = copies \/ copies' = [copies EXCEPT ![f] = @ + 1]
    BY <1>2 DEF Republish, RepublishError, StoreReplay, Store, streamVars
  <2> HIDE DEF f
  <2> QED
    BY <1>0, <2>2, <2>3
<1>3. (\E e \in Events : ForgetMarker(e)) \/ (\E m \in Messages : CloseDlqWindow(m))
         \/ (\E d \in Records : CloseReplayWindow(d)) => UNCHANGED copies
  BY DEF ForgetMarker, CloseDlqWindow, CloseReplayWindow, streamVars
<1>4. \A w \in Workers : WorkerStep(w) => UNCHANGED copies
  BY DEF WorkerStep, Deliver, HandleOK, HandleError, Ack, Nak, Bury, BuryError, Term, Drop,
         streamVars
<1>5. \A o \in Operators :
         OperatorStep(o) => Republish(o) \/ RepublishError(o) \/ UNCHANGED copies
  BY DEF OperatorStep, Load, DeleteReplayed, AbortReplay, streamVars
<1> QED
  BY <1>1, <1>2, <1>3, <1>4, <1>5 DEF Consume

\* Only what the stream has stored is applied.
AppliedAreStored == \A e \in Applied : copies[e] > 0

\* A worker commits the event of a message that the stream has stored.
LEMMA CommitsStored ==
  ASSUME DeliveryInv, [Next]_vars
  PROVE  \A e \in Events : effects'[e] = effects[e] \/ copies[e] > 0
<1>0. copies \in [Events -> Nat] /\ effects \in [Events -> 0..2]
  BY DEF DeliveryInv, Types, StreamTypes, DbTypes
<1>1. ASSUME NEW w \in Workers, HandleOK(w) \/ HandleError(w)
      PROVE  \A e \in Events : effects'[e] = effects[e] \/ copies[e] > 0
  <2>1. job[w] \in Messages /\ msg[job[w]] # "absent"
    BY <1>1 DEF HandleOK, HandleError, DeliveryInv, InHand
  <2>2. job[w][1] \in Events /\ job[w][2] \in Nat /\ 1 <= job[w][2]
    BY <2>1, MessageFacts
  <2>3. copies[job[w][1]] > 0
    BY <1>0, <2>1, <2>2 DEF DeliveryInv, StoredInOrder
  <2>4. effects' = effects \/ effects' = [effects EXCEPT ![job[w][1]] = Minimum(@ + 1, 2)]
    BY <1>1 DEF HandleOK, HandleError, Commit, dbVars
  <2> QED
    BY <1>0, <2>2, <2>3, <2>4
<1>2. CASE ~ \E w \in Workers : HandleOK(w) \/ HandleError(w)
  <2>1. \A w \in Workers : WorkerStep(w) => UNCHANGED dbVars
    BY <1>2 DEF WorkerStep, Deliver, Ack, Nak, Bury, BuryError, Term, Drop
  <2>2. \A o \in Operators : OperatorStep(o) => UNCHANGED dbVars
    BY DEF OperatorStep, Load, Republish, RepublishError, DeleteReplayed, AbortReplay
  <2>3. UNCHANGED effects
    BY <2>1, <2>2
    DEF Next, Consume, Accept, ForgetMarker, CloseDlqWindow, CloseReplayWindow, vars, dbVars
  <2> QED
    BY <2>3
<1> QED
  BY <1>1, <1>2

(***************************************************************************)
(* Only events that the stream has accepted change sessions, also through  *)
(* dead letters and replays (process, Replay).                             *)
(***************************************************************************)
THEOREM OnlyStoredIsApplied == Spec => []AppliedAreStored
<1>1. Init => AppliedAreStored
  BY DEF Init, AppliedAreStored, Applied
<1>2. DeliveryInv /\ AppliedAreStored /\ [Next]_vars => AppliedAreStored'
  <2> SUFFICES ASSUME DeliveryInv, AppliedAreStored, [Next]_vars,
                      NEW e \in Events, effects'[e] > 0
               PROVE  copies'[e] > 0
    BY DEF AppliedAreStored, Applied
  <2>1. copies[e] \in Nat /\ copies[e] > 0
    BY CommitsStored DEF AppliedAreStored, Applied, DeliveryInv, Types, StreamTypes
  <2>2. CASE UNCHANGED vars
    BY <2>1, <2>2 DEF vars, streamVars
  <2>3. ASSUME NEW f \in Events, Accept(f) PROVE copies'[e] > 0
    BY <2>1, <2>3 DEF Accept, Store, DeliveryInv, Types, StreamTypes
  <2>4. CASE Consume
    <3>1. copies[e] <= copies'[e]
      BY <2>4, NothingNew
    <3>2. copies'[e] \in Nat
      <4>1. DeliveryInv'
        BY StepKeeps
      <4> QED
        BY <4>1 DEF DeliveryInv, Types, StreamTypes
    <3> QED
      BY <2>1, <3>1, <3>2
  <2> QED
    BY <2>2, <2>3, <2>4 DEF Next
<1> QED
  BY <1>1, <1>2, Invariance, PTL DEF Spec

-----------------------------------------------------------------------------
(***************************************************************************)
(* Sessions.  A committed event moves its session to the earlier of two    *)
(* times, so the order and the repetitions of commits do not matter.       *)
(***************************************************************************)

Seen(g, kind) == {e \in Applied \intersect kind : GameOf[e] = g}

Earliest(t, seen) ==
    IF seen = {} THEN t = NoTime
    ELSE (\E e \in seen : t = At[e]) /\ (\A e \in seen : t <= At[e])

Earlier(t, e) == IF t = NoTime THEN At[e] ELSE Minimum(t, At[e])

LEMMA EarlierIsEarliest ==
  ASSUME NEW seen \in SUBSET Events, NEW t \in Nat, NEW e \in Events, Earliest(t, seen)
  PROVE  Earliest(Earlier(t, e), seen \union {e}) /\ Earlier(t, e) # NoTime
<1> USE DEF NoTime
<1>1. \A f \in Events : At[f] \in Nat /\ At[f] # 0
  OBVIOUS
<1>2. CASE seen = {}
  BY <1>1, <1>2 DEF Earliest, Earlier
<1>3. CASE seen # {}
  <2>1. PICK f \in seen : t = At[f]
    BY <1>3 DEF Earliest
  <2>2. t # 0 /\ \A x \in seen : t <= At[x]
    BY <1>1, <1>3, <2>1 DEF Earliest
  <2>3. Earlier(t, e) = IF t <= At[e] THEN t ELSE At[e]
    BY <2>2 DEF Earlier, Minimum
  <2>4. CASE t <= At[e]
    BY <1>1, <2>1, <2>2, <2>3, <2>4 DEF Earliest
  <2>5. CASE ~(t <= At[e])
    BY <1>1, <2>1, <2>2, <2>3, <2>5 DEF Earliest
  <2> QED
    BY <2>4, <2>5
<1> QED
  BY <1>2, <1>3

SessionInv ==
    \A g \in Games :
        /\ Earliest(startedAt[g], Seen(g, Started))
        /\ Earliest(endedAt[g], Seen(g, Events \ Started))
        /\ endedAt[g] # NoTime => startedAt[g] # NoTime /\ endedAt[g] >= startedAt[g]
        /\ roomOf[g] # NoRoom => startedAt[g] # NoTime

LEMMA SessionCommit ==
  ASSUME DbTypes, MarkedIsApplied, SessionInv, NEW e \in Events, Commit(e)
  PROVE  SessionInv'
<1> USE DEF NoTime
<1>1. Applied' = Applied \union {e}
  BY CommitFacts
<1>2. DbTypes'
  BY CommitFacts
<1>3. CASE UNCHANGED dbVars
  BY <1>3 DEF dbVars, SessionInv, Seen, Applied
<1>4. CASE UpsertStarted(e) /\ e \in Started
  <2> SUFFICES ASSUME NEW g \in Games
               PROVE  /\ Earliest(startedAt'[g], Seen(g, Started)')
                      /\ Earliest(endedAt'[g], Seen(g, Events \ Started)')
                      /\ endedAt'[g] # NoTime => startedAt'[g] # NoTime /\ endedAt'[g] >= startedAt'[g]
                      /\ roomOf'[g] # NoRoom => startedAt'[g] # NoTime
    BY DEF SessionInv
  <2>0. /\ Earliest(startedAt[g], Seen(g, Started)) /\ Earliest(endedAt[g], Seen(g, Events \ Started))
        /\ endedAt[g] # NoTime => startedAt[g] # NoTime /\ endedAt[g] >= startedAt[g]
        /\ roomOf[g] # NoRoom => startedAt[g] # NoTime
    BY DEF SessionInv
  <2>1. Seen(g, Events \ Started)' = Seen(g, Events \ Started)
    BY <1>1, <1>4 DEF Seen
  <2>2. endedAt' = endedAt /\ startedAt[g] \in Nat /\ endedAt[g] \in Nat
    BY <1>4 DEF UpsertStarted, DbTypes
  <2>3. CASE g = GameOf[e]
    <3>1. Seen(g, Started)' = Seen(g, Started) \union {e}
      BY <1>1, <1>4, <2>3 DEF Seen
    <3>2. startedAt'[g] = Earlier(startedAt[g], e)
      BY <1>4, <2>3 DEF UpsertStarted, Earlier, DbTypes
    <3>3. Seen(g, Started) \in SUBSET Events
      BY DEF Seen, Applied
    <3>4. Earliest(startedAt'[g], Seen(g, Started)') /\ startedAt'[g] # NoTime
      <4>1. /\ Earliest(Earlier(startedAt[g], e), Seen(g, Started) \union {e})
            /\ Earlier(startedAt[g], e) # NoTime
        BY <2>0, <2>2, <3>3, EarlierIsEarliest
      <4> QED
        BY <3>1, <3>2, <4>1
    <3>5. startedAt[g] # NoTime => Earlier(startedAt[g], e) <= startedAt[g]
      BY <2>2 DEF Earlier, Minimum
    <3>6. At[e] \in Nat /\ startedAt'[g] \in Nat
      BY <1>2 DEF DbTypes
    <3> QED
      BY <2>0, <2>1, <2>2, <3>2, <3>4, <3>5, <3>6
  <2>4. CASE g # GameOf[e]
    <3>1. Seen(g, Started)' = Seen(g, Started)
      BY <1>1, <2>4 DEF Seen
    <3>2. startedAt'[g] = startedAt[g] /\ roomOf'[g] = roomOf[g]
      BY <1>4, <2>4 DEF UpsertStarted, DbTypes
    <3> QED
      BY <2>0, <2>1, <2>2, <3>1, <3>2
  <2> QED
    BY <2>3, <2>4
<1>5. CASE UpdateEnded(e) /\ e \notin Started
  <2> SUFFICES ASSUME NEW g \in Games
               PROVE  /\ Earliest(startedAt'[g], Seen(g, Started)')
                      /\ Earliest(endedAt'[g], Seen(g, Events \ Started)')
                      /\ endedAt'[g] # NoTime => startedAt'[g] # NoTime /\ endedAt'[g] >= startedAt'[g]
                      /\ roomOf'[g] # NoRoom => startedAt'[g] # NoTime
    BY DEF SessionInv
  <2>0. /\ Earliest(startedAt[g], Seen(g, Started)) /\ Earliest(endedAt[g], Seen(g, Events \ Started))
        /\ endedAt[g] # NoTime => startedAt[g] # NoTime /\ endedAt[g] >= startedAt[g]
        /\ roomOf[g] # NoRoom => startedAt[g] # NoTime
    BY DEF SessionInv
  <2>1. Seen(g, Started)' = Seen(g, Started)
    BY <1>1, <1>5 DEF Seen
  <2>2. startedAt' = startedAt /\ roomOf' = roomOf /\ endedAt[g] \in Nat
    BY <1>5 DEF UpdateEnded, DbTypes
  <2>3. CASE g = GameOf[e]
    <3>1. Seen(g, Events \ Started)' = Seen(g, Events \ Started) \union {e}
      BY <1>1, <1>5, <2>3 DEF Seen
    <3>2. endedAt'[g] = Earlier(endedAt[g], e) /\ endedAt'[g] >= startedAt[g]
      BY <1>5, <2>3 DEF UpdateEnded, Earlier, DbTypes
    <3>3. Seen(g, Events \ Started) \in SUBSET Events
      BY DEF Seen, Applied
    <3>4. Earliest(endedAt'[g], Seen(g, Events \ Started)')
      <4>1. Earliest(Earlier(endedAt[g], e), Seen(g, Events \ Started) \union {e})
        BY <2>0, <2>2, <3>3, EarlierIsEarliest
      <4> QED
        BY <3>1, <3>2, <4>1
    <3>5. roomOf[g] # NoRoom
      BY <1>5, <2>3 DEF UpdateEnded
    <3> QED
      BY <2>0, <2>1, <2>2, <3>2, <3>4, <3>5
  <2>4. CASE g # GameOf[e]
    <3>1. Seen(g, Events \ Started)' = Seen(g, Events \ Started)
      BY <1>1, <2>4 DEF Seen
    <3>2. endedAt'[g] = endedAt[g]
      BY <1>5, <2>4 DEF UpdateEnded, DbTypes
    <3> QED
      BY <2>0, <2>1, <2>2, <3>1, <3>2
  <2> QED
    BY <2>3, <2>4
<1> QED
  BY <1>3, <1>4, <1>5 DEF Commit

\* The room of a session is that of a start applied to it.
LEMMA RoomCommit ==
  ASSUME DbTypes, MarkedIsApplied, NEW e \in Events, Commit(e),
         \A g \in Games : RoomOfStart(g)
  PROVE  \A g \in Games : RoomOfStart(g)'
<1>1. Applied' = Applied \union {e}
  BY CommitFacts
<1> SUFFICES ASSUME NEW g \in Games PROVE RoomOfStart(g)'
  OBVIOUS
<1>2. RoomOfStart(g) <=> IF Seen(g, Started) = {} THEN roomOf[g] = NoRoom
                         ELSE \E f \in Seen(g, Started) : roomOf[g] = RoomOf[f]
  BY DEF RoomOfStart, Seen
<1>3. RoomOfStart(g)' <=> IF Seen(g, Started)' = {} THEN roomOf'[g] = NoRoom
                          ELSE \E f \in Seen(g, Started)' : roomOf'[g] = RoomOf[f]
  BY DEF RoomOfStart, Seen
<1>4. CASE Seen(g, Started)' = Seen(g, Started) /\ roomOf'[g] = roomOf[g]
  BY <1>2, <1>3, <1>4
<1>5. CASE e \in Started /\ GameOf[e] = g /\ roomOf'[g] = RoomOf[e]
  <2>1. e \in Seen(g, Started)'
    BY <1>1, <1>5 DEF Seen
  <2> QED
    BY <1>3, <1>5, <2>1
<1>6. CASE UNCHANGED dbVars
  BY <1>4, <1>6 DEF dbVars, Seen, Applied
<1>7. CASE UpsertStarted(e) /\ e \in Started
  <2>1. GameOf[e] # g => Seen(g, Started)' = Seen(g, Started) /\ roomOf'[g] = roomOf[g]
    BY <1>1, <1>7 DEF Seen, UpsertStarted, DbTypes
  <2>2. GameOf[e] = g => roomOf'[g] = RoomOf[e]
    BY <1>7 DEF UpsertStarted, DbTypes
  <2> QED
    BY <1>4, <1>5, <1>7, <2>1, <2>2
<1>8. CASE UpdateEnded(e) /\ e \notin Started
  BY <1>1, <1>4, <1>8 DEF Seen, UpdateEnded
<1> QED
  BY <1>6, <1>7, <1>8 DEF Commit

(***************************************************************************)
(* A session shows the earliest start and the earliest end of the events   *)
(* applied to it, in whatever order and however often they were applied,   *)
(* also when markers expire, and the room of one of its starts             *)
(* (ProcessGameStarted, ProcessGameEnded).                                 *)
(***************************************************************************)
THEOREM SessionsAreEarliest == Spec => []SessionsReflectEvents
<1>1. Init => SessionInv
  BY DEF Init, SessionInv, Seen, Applied, Earliest
<1>2. DeliveryInv /\ SessionInv /\ [Next]_vars => SessionInv'
  <2> SUFFICES ASSUME DeliveryInv, SessionInv, [Next]_vars PROVE SessionInv'
    OBVIOUS
  <2>1. CASE \E e \in Events : Commit(e)
    BY <2>1, SessionCommit DEF DeliveryInv, Types
  <2>2. CASE UNCHANGED <<startedAt, endedAt, roomOf, effects>>
    BY <2>2 DEF SessionInv, Seen, Applied
  <2> QED
    BY <2>1, <2>2, CommitsOnly
<1> DEFINE RoomInv == \A g \in Games : RoomOfStart(g)
<1>3. Init => RoomInv
  BY DEF Init, RoomOfStart, Applied
<1>4. DeliveryInv /\ RoomInv /\ [Next]_vars => RoomInv'
  <2> SUFFICES ASSUME DeliveryInv, RoomInv, [Next]_vars PROVE RoomInv'
    OBVIOUS
  <2>1. CASE \E e \in Events : Commit(e)
    BY <2>1, RoomCommit DEF DeliveryInv, Types
  <2>2. CASE UNCHANGED <<startedAt, endedAt, roomOf, effects>>
    BY <2>2 DEF RoomOfStart, Applied
  <2> QED
    BY <2>1, <2>2, CommitsOnly
<1>5. SessionInv /\ RoomInv => SessionsReflectEvents
  BY DEF SessionInv, SessionsReflectEvents, EarliestOf, Earliest, Seen
<1> QED
  BY <1>1, <1>2, <1>3, <1>4, <1>5, Invariance, PTL DEF Spec

-----------------------------------------------------------------------------
(***************************************************************************)
(* The abstract handoff.                                                   *)
(***************************************************************************)

LEMMA RecoveryStep == DeliveryInv /\ [Next]_vars => [Recovery!Next]_(Recovery!vars)
<1> SUFFICES ASSUME DeliveryInv, [Next]_vars PROVE [Recovery!Next]_(Recovery!vars)
  OBVIOUS
<1> USE DEF Recovery!Next, Recovery!vars, Recovery!Offer, Recovery!Take, Recovery!Release
<1>0. dlq \subseteq Records
  BY DEF DeliveryInv, Types, DlqTypes
<1>1. CASE UNCHANGED <<dlq, replayed>>
  BY <1>1
<1>2. ASSUME NEW w \in Workers, Bury(w) \/ BuryError(w) PROVE [Recovery!Next]_(Recovery!vars)
  <2>1. /\ phase[w] = "failed" /\ UNCHANGED <<msg, replayed>>
        /\ StoreDeadLetter(job[w]) \/ UNCHANGED dlqVars
    BY <1>2 DEF Bury, BuryError, streamVars, replayVars
  <2>2. job[w] \in Messages /\ msg[job[w]] # "absent"
    BY <2>1 DEF DeliveryInv, InHand
  <2>3. dlq' = dlq \/ \E d \in Records : d \notin dlq /\ dlq' = dlq \union {d}
    <3>1. CASE StoreDeadLetter(job[w])
      BY <2>1, <2>2, <3>1, StoreDeadLetterFacts DEF DeliveryInv, Types
    <3>2. CASE UNCHANGED dlqVars
      BY <3>2 DEF dlqVars
    <3> QED
      BY <2>1, <3>1, <3>2
  <2> QED
    BY <2>1, <2>3
<1>3. ASSUME NEW o \in Operators, Republish(o) \/ RepublishError(o)
      PROVE  [Recovery!Next]_(Recovery!vars)
  <2>1. /\ UNCHANGED dlq /\ replay[o] = "loaded"
        /\ StoreReplay(rec[o]) \/ UNCHANGED replayed
    BY <1>3 DEF Republish, RepublishError, dlqVars
  <2>2. rec[o] \in dlq \union replayed
    BY <2>1 DEF DeliveryInv, Recovering
  <2>3. replayed' = replayed \/ replayed' = replayed \union {rec[o]}
    BY <2>1 DEF StoreReplay
  <2>4. CASE rec[o] \in dlq
    BY <1>0, <2>1, <2>3, <2>4
  <2>5. CASE rec[o] \in replayed
    <3>1. replayed' = replayed
      BY <2>3, <2>5
    <3> QED
      BY <2>1, <3>1
  <2> QED
    BY <2>2, <2>4, <2>5
<1>4. ASSUME NEW o \in Operators, DeleteReplayed(o) PROVE [Recovery!Next]_(Recovery!vars)
  <2>1. /\ dlq' = dlq \ {rec[o]} /\ UNCHANGED replayed /\ rec[o] \in replayed
    BY <1>4 DEF DeleteReplayed, DeliveryInv, Recovering
  <2>2. CASE rec[o] \in dlq
    BY <1>0, <2>1, <2>2
  <2>3. CASE rec[o] \notin dlq
    <3>1. dlq' = dlq
      BY <2>1, <2>3
    <3> QED
      BY <2>1, <3>1
  <2> QED
    BY <2>2, <2>3
<1>5. \A e \in Events : Accept(e) \/ ForgetMarker(e) => UNCHANGED <<dlq, replayed>>
  BY DEF Accept, ForgetMarker, dlqVars, replayVars
<1>6. \A w \in Workers : WorkerStep(w) => Bury(w) \/ BuryError(w) \/ UNCHANGED <<dlq, replayed>>
  BY DEF WorkerStep, Deliver, HandleOK, HandleError, Ack, Nak, Term, Drop, dlqVars, replayVars
<1>7. \A o \in Operators : OperatorStep(o) =>
         \/ Republish(o) \/ RepublishError(o) \/ DeleteReplayed(o)
         \/ UNCHANGED <<dlq, replayed>>
  BY DEF OperatorStep, Load, AbortReplay, dlqVars
<1>8. (\E m \in Messages : CloseDlqWindow(m)) \/ (\E d \in Records : CloseReplayWindow(d))
         => UNCHANGED <<dlq, replayed>>
  BY DEF CloseDlqWindow, CloseReplayWindow, dlqVars, replayVars
<1>9. UNCHANGED vars => UNCHANGED <<dlq, replayed>>
  BY DEF vars, dlqVars, replayVars
<1> QED
  BY <1>1, <1>2, <1>3, <1>4, <1>5, <1>6, <1>7, <1>8, <1>9 DEF Next, Consume

(***************************************************************************)
(* The replay implements the abstract handoff: a dead letter is deleted    *)
(* only after the stream has stored its event again, whatever the          *)
(* operators do at once (DeadLetterReplayService.Replay).                  *)
(***************************************************************************)
THEOREM ReplayImplementsHandoff == Spec => ReplaysBeforeDeleting
<1>1. Init => Recovery!Init
  BY DEF Init, Recovery!Init
<1> QED
  BY <1>1, RecoveryStep, Invariance, PTL DEF Spec, ReplaysBeforeDeleting, Recovery!Spec

\* The events with a pending copy, and those applied or stored as a dead letter.
Owed == {m[1] : m \in {n \in Messages : msg[n] = "pending"}}
Kept == Applied \union {m[1] : m \in {n \in Messages : burials[n] > 0}}

HandoffStep ==
    \/ UNCHANGED <<Owed, Kept>>
    \/ \E e \in Events :
          \/ e \notin Owed /\ Owed' = Owed \union {e} /\ UNCHANGED Kept
          \/ e \in Owed /\ Kept' = Kept \union {e} /\ UNCHANGED Owed
          \/ e \in Owed /\ e \in Kept /\ Owed' = Owed \ {e} /\ UNCHANGED Kept

\* What is in a worker's hand is still owed, or kept already.
LEMMA HandIsOwedOrKept ==
  ASSUME DeliveryInv, NEW m \in Messages, msg[m] # "absent"
  PROVE  m[1] \in Events /\ m[1] \in Owed \union Kept
<1>1. msg[m] \in {"pending", "acked", "termed"}
  BY DEF DeliveryInv, Types, StreamTypes
<1>2. m[1] \in Events
  BY MessageFacts
<1>3. CASE msg[m] = "pending"
  BY <1>2, <1>3 DEF Owed
<1>4. CASE msg[m] = "acked"
  BY <1>2, <1>4 DEF DeliveryInv, SettledIsKept, Kept
<1>5. CASE msg[m] = "termed"
  BY <1>2, <1>5 DEF DeliveryInv, SettledIsKept, Kept
<1> QED
  BY <1>1, <1>2, <1>3, <1>4, <1>5

\* An event that becomes kept was owed.
LEMMA KeptStep ==
  ASSUME DeliveryInv, UNCHANGED msg, NEW m \in Messages, msg[m] # "absent",
         Kept' = Kept \/ Kept' = Kept \union {m[1]}
  PROVE  HandoffStep
<1>1. Owed' = Owed
  BY DEF Owed
<1>2. m[1] \in Events /\ m[1] \in Owed \union Kept
  BY HandIsOwedOrKept
<1>3. CASE m[1] \in Kept
  <2>1. Kept' = Kept
    BY <1>3
  <2> QED
    BY <1>1, <2>1 DEF HandoffStep
<1>4. CASE m[1] \in Owed
  BY <1>1, <1>2, <1>4 DEF HandoffStep
<1> QED
  BY <1>2, <1>3, <1>4

\* A copy that is stored makes its event owed, unless it is already.
LEMMA OwedStep ==
  ASSUME NEW e \in Events, UNCHANGED <<effects, burials>>,
         \A m \in Messages : msg[m] # "absent" => msg'[m] = msg[m],
         \A m \in Messages : msg'[m] = msg[m] \/ (msg'[m] = "pending" /\ m[1] = e)
  PROVE  HandoffStep
<1>1. Kept' = Kept
  BY DEF Kept, Applied
<1>2. Owed \subseteq Owed' /\ Owed' \subseteq Owed \union {e}
  BY DEF Owed
<1>3. CASE e \in Owed \/ e \notin Owed'
  <2>1. Owed' \subseteq Owed
    BY <1>2, <1>3
  <2>2. Owed' = Owed
    BY <1>2, <2>1
  <2> QED
    BY <1>1, <2>2 DEF HandoffStep
<1>4. CASE e \notin Owed /\ e \in Owed'
  <2>1. Owed \union {e} \subseteq Owed'
    BY <1>2, <1>4
  <2>2. Owed' = Owed \union {e}
    BY <1>2, <2>1
  <2> QED
    BY <1>1, <1>4, <2>2 DEF HandoffStep
<1> QED
  BY <1>3, <1>4

LEMMA DeliveryStep == DeliveryInv /\ [Next]_vars => HandoffStep
<1> SUFFICES ASSUME DeliveryInv, [Next]_vars PROVE HandoffStep
  OBVIOUS
<1>0. /\ StreamTypes /\ WorkerTypes /\ DbTypes /\ DlqTypes /\ ReplayTypes
      /\ StoredInOrder /\ SettledIsKept /\ MarkedIsApplied /\ DeadLettersKept
      /\ ReplayedIsNewer /\ (\A w \in Workers : InHand(w))
      /\ (\A p \in Operators : Recovering(p))
  BY DEF DeliveryInv, Types
<1>1. CASE UNCHANGED <<msg, effects, burials>>
  BY <1>1 DEF HandoffStep, Owed, Kept, Applied
<1>2. ASSUME NEW e \in Events, Accept(e) PROVE HandoffStep
  <2>1. Store(e) /\ UNCHANGED <<effects, burials>>
    BY <1>2 DEF Accept, dbVars, dlqVars
  <2>2. /\ \A m \in Messages : msg[m] # "absent" => msg'[m] = msg[m]
        /\ \A m \in Messages : msg'[m] = msg[m] \/ (msg'[m] = "pending" /\ m[1] = e)
    BY <1>0, <2>1, StoreFacts
  <2> QED
    BY <2>1, <2>2, OwedStep
<1>3. ASSUME NEW o \in Operators, Republish(o) \/ RepublishError(o) PROVE HandoffStep
  <2>1. /\ replay[o] = "loaded" /\ UNCHANGED dlqVars
        /\ UNCHANGED <<effects, burials>>
        /\ StoreReplay(rec[o]) \/ UNCHANGED msg
    BY <1>3 DEF Republish, RepublishError, dbVars, dlqVars, streamVars
  <2>2. CASE UNCHANGED msg
    BY <1>1, <2>1, <2>2
  <2>3. CASE StoreReplay(rec[o])
    <3>1. rec[o] \in dlq \union replayed /\ rec[o] \in Records
      BY <1>0, <2>1 DEF Recovering, DlqTypes, ReplayTypes
    <3>2. rec[o][1][1] \in Events
      BY <3>1, RecordFacts, MessageFacts
    <3>3. /\ \A m \in Messages : msg[m] # "absent" => msg'[m] = msg[m]
          /\ \A m \in Messages : msg'[m] = msg[m] \/ (msg'[m] = "pending" /\ m[1] = rec[o][1][1])
      BY <1>0, <2>1, <2>3, <3>1, StoreReplayFacts
    <3> QED
      BY <2>1, <3>2, <3>3, OwedStep
  <2> QED
    BY <2>1, <2>2, <2>3
<1>4. ASSUME NEW w \in Workers, HandleOK(w) \/ HandleError(w) PROVE HandoffStep
  <2>1. /\ phase[w] = "handle" /\ UNCHANGED <<msg, burials>>
        /\ Commit(job[w][1]) \/ UNCHANGED dbVars
    BY <1>4 DEF HandleOK, HandleError, streamVars, dlqVars
  <2>2. job[w] \in Messages /\ msg[job[w]] # "absent" /\ job[w][1] \in Events
    BY <1>0, <2>1, MessageFacts DEF InHand
  <2>3. Applied' = Applied \/ Applied' = Applied \union {job[w][1]}
    <3>1. CASE Commit(job[w][1])
      BY <1>0, <2>2, <3>1, CommitFacts
    <3>2. CASE UNCHANGED dbVars
      BY <3>2 DEF dbVars, Applied
    <3> QED
      BY <2>1, <3>1, <3>2
  <2>4. Kept' = Kept \/ Kept' = Kept \union {job[w][1]}
    BY <2>1, <2>3 DEF Kept
  <2> QED
    BY <2>1, <2>2, <2>4, KeptStep
<1>5. ASSUME NEW w \in Workers, Bury(w) \/ BuryError(w) PROVE HandoffStep
  <2>1. /\ phase[w] = "failed" /\ UNCHANGED <<msg, effects, replayed>>
        /\ StoreDeadLetter(job[w]) \/ UNCHANGED dlqVars
    BY <1>5 DEF Bury, BuryError, streamVars, dbVars, replayVars
  <2>2. job[w] \in Messages /\ msg[job[w]] # "absent"
    BY <1>0, <2>1 DEF InHand
  <2>3. CASE UNCHANGED dlqVars
    BY <1>1, <2>1, <2>3 DEF dlqVars
  <2>4. CASE StoreDeadLetter(job[w])
    <3>1. /\ burials'[job[w]] > 0
          /\ \A n \in Messages : n # job[w] => burials'[n] = burials[n]
      BY <1>0, <2>1, <2>2, <2>4, StoreDeadLetterFacts
    <3>2. Applied' = Applied
      BY <2>1 DEF Applied
    <3> DEFINE Buried == {m \in Messages : burials[m] > 0}
    <3>3. Buried' = Buried \union {job[w]}
      BY <2>2, <3>1
    <3>4. Kept = Applied \union {m[1] : m \in Buried}
      BY DEF Kept
    <3>5. Kept' = Applied' \union {m[1] : m \in Buried'}
      BY DEF Kept
    <3> HIDE DEF Buried
    <3>6. {m[1] : m \in Buried \union {job[w]}} = {m[1] : m \in Buried} \union {job[w][1]}
      OBVIOUS
    <3>7. Kept' = Kept \union {job[w][1]}
      BY <3>2, <3>3, <3>4, <3>5, <3>6
    <3> QED
      BY <2>1, <2>2, <3>7, KeptStep
  <2> QED
    BY <2>1, <2>3, <2>4
<1>6. ASSUME NEW w \in Workers, Ack(w) \/ Term(w) PROVE HandoffStep
  <2>1. PICK how \in {"acked", "termed"} :
          /\ Settle(job[w], how)
          /\ phase[w] = (IF how = "acked" THEN "ack" ELSE "buried")
          /\ UNCHANGED <<copies, delivered, effects, burials>>
    BY <1>6 DEF Ack, Term, dbVars, dlqVars
  <2>2. /\ job[w] \in Messages /\ msg[job[w]] # "absent"
        /\ how = "acked" => job[w][1] \in Applied
        /\ how = "termed" => burials[job[w]] > 0
    BY <1>0, <2>1 DEF InHand
  <2>3. \A n \in Messages : n # job[w] => msg'[n] = msg[n]
    BY <1>0, <2>1, <2>2, SettleFacts
  <2>4. Kept' = Kept /\ job[w][1] \in Kept /\ job[w][1] \in Events
    BY <2>1, <2>2, MessageFacts DEF Kept, Applied
  <2>5. msg'[job[w]] # "pending" \/ msg' = msg
    BY <1>0, <2>1, <2>2 DEF Settle, StreamTypes
  <2>6. CASE Owed' = Owed
    BY <2>4, <2>6 DEF HandoffStep
  <2>7. CASE Owed' # Owed
    <3>1. msg'[job[w]] # "pending"
      BY <2>5, <2>7 DEF Owed
    <3>2. Owed' \subseteq Owed /\ Owed \subseteq Owed' \union {job[w][1]}
      BY <2>3, <3>1 DEF Owed
    <3>3. job[w][1] \in Owed /\ Owed' = Owed \ {job[w][1]}
      BY <2>7, <3>2
    <3> QED
      BY <2>4, <3>3 DEF HandoffStep
  <2> QED
    BY <2>6, <2>7
<1>7. \A e \in Events : ForgetMarker(e) => UNCHANGED <<msg, effects, burials>>
  BY DEF ForgetMarker, streamVars, dlqVars
<1>8. \A w \in Workers : WorkerStep(w) =>
         \/ HandleOK(w) \/ HandleError(w) \/ Bury(w) \/ BuryError(w) \/ Ack(w) \/ Term(w)
         \/ UNCHANGED <<msg, effects, burials>>
  BY DEF WorkerStep, Deliver, Nak, Drop, streamVars, dbVars, dlqVars
<1>9. \A o \in Operators : OperatorStep(o) =>
         Republish(o) \/ RepublishError(o) \/ UNCHANGED <<msg, effects, burials>>
  BY DEF OperatorStep, Load, DeleteReplayed, AbortReplay, streamVars, dbVars, dlqVars
<1>10. (\E m \in Messages : CloseDlqWindow(m)) \/ (\E d \in Records : CloseReplayWindow(d))
          => UNCHANGED <<msg, effects, burials>>
  BY DEF CloseDlqWindow, CloseReplayWindow, streamVars, dbVars, dlqVars
<1>11. UNCHANGED vars => UNCHANGED <<msg, effects, burials>>
  BY DEF vars, streamVars, dbVars, dlqVars
<1> QED
  BY <1>1, <1>2, <1>3, <1>4, <1>5, <1>6, <1>7, <1>8, <1>9, <1>10, <1>11 DEF Next, Consume

(***************************************************************************)
(* The stream and its consumer implement the abstract handoff: a message   *)
(* stops being pending only when its event was applied or a dead letter    *)
(* holds it (StartGameEventsConsumerWithOptions, handleGameEventFailure).  *)
(***************************************************************************)
THEOREM ConsumerImplementsHandoff == Spec => DeliversOrBuries
<1>1. Init => Delivery!Init
  BY DEF Init, Delivery!Init, Applied
<1>2. HandoffStep => [Delivery!Next]_(Delivery!vars)
  BY DEF HandoffStep, Owed, Kept, Delivery!Next, Delivery!vars, Delivery!Offer, Delivery!Take,
         Delivery!Release
<1> QED
  BY <1>1, <1>2, DeliveryStep, Invariance, PTL DEF Spec, DeliversOrBuries, Delivery!Spec
=============================================================================
