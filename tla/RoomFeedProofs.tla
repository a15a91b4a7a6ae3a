--------------------------- MODULE RoomFeedProofs ---------------------------
(***************************************************************************)
(* Proofs about RoomFeed, for any number of instances, clients and changes *)
(* of the room, whether or not NATS loses announcements.                   *)
(*                                                                         *)
(* The argument: while an instance has nothing on its way to it            *)
(* (~Pending), the room is the one its last broadcast read, because every  *)
(* step that changes the room makes every instance pending and only a      *)
(* broadcast of the room as it then is ends that (CastIsCurrent).  A       *)
(* client that has read its first value then has the room, or is still to  *)
(* be reached by that broadcast: it was in the map before it read, so the  *)
(* broadcast listed it unless it read later (ViewIsCurrent).               *)
(***************************************************************************)
EXTENDS RoomFeed, HubProofs

\* Something about the room is on its way to instance i, or was lost.
Pending(i) == behind[i] \/ inbox[i] > 0 \/ \E j \in Instances : unsent[j] > 0

\* What the client of c sees once its handler has written what it has read.
Shown(c) == IF stage[c] = "loaded" THEN first[c] ELSE view[c]

\* The broadcast of instance i, which carries the room as it is, will reach c.
ToldNext(i, c) == job[i].value = room /\ (job[i].listed => c \in job[i].left)

CastIsCurrent ==
    \A i \in Instances :
        room # NoValue /\ ~Pending(i) /\ ~Idle(i) => job[i].value = room

ViewIsCurrent ==
    \A c \in Conns \ overtaken :
        /\ stage[c] \in {"loaded", "open"} /\ c \notin closed \union absent
        /\ room # NoValue /\ ~Pending(InstanceOf[c])
        => Shown(c) = room \/ ToldNext(InstanceOf[c], c)

FeedInv == TypeOK /\ HubInv /\ CastIsCurrent /\ ViewIsCurrent

USE HubAssumption, RoomFeedAssumption

\* The initial state satisfies the inductive invariant.
LEMMA InitFeedInv == Init => FeedInv
<1> SUFFICES ASSUME Init PROVE FeedInv
  OBVIOUS
<1>1. HubInv
  BY HubInitInv DEF Init
<1>2. TypeOK
  BY <1>1 DEF Init, TypeOK, HubInv
<1>3. CastIsCurrent /\ ViewIsCurrent
  BY DEF Init, CastIsCurrent, ViewIsCurrent
<1> QED
  BY <1>1, <1>2, <1>3 DEF FeedInv

\* A step that leaves the hub alone keeps the invariant if an instance it leaves
\* with nothing pending had nothing pending before, and the same room.
LEMMA SilentStep ==
    ASSUME FeedInv, TypeOK', UNCHANGED hubVars,
           \A i \in Instances :
              room' # NoValue /\ ~Pending(i)' => room' = room /\ ~Pending(i)
    PROVE  FeedInv'
<1>1. HubInv'
  BY HubNextInv DEF FeedInv
<1>2. CastIsCurrent'
  BY DEF FeedInv, CastIsCurrent, Idle, hubVars
<1>3. ViewIsCurrent'
  BY DEF FeedInv, ViewIsCurrent, Shown, ToldNext, hubVars, handlerVars
<1> QED
  BY <1>1, <1>2, <1>3 DEF FeedInv

\* What RoomService does to the room keeps the invariant: save before publish.
LEMMA ServiceInv ==
    ASSUME FeedInv,
           \/ CreateRoom \/ ChangeInSilence \/ DeleteRoom
           \/ \E i \in Instances : Change(i) \/ Publish(i)
    PROVE  FeedInv'
<1> USE DEF FeedInv, TypeOK
<1>1. CASE CreateRoom
  <2>1. TypeOK' /\ \A i \in Instances : Pending(i)'
    BY <1>1 DEF CreateRoom, Store, Everywhere, Pending, HubTypeOK, hubVars, handlerVars
  <2> QED
    BY <1>1, <2>1, SilentStep DEF CreateRoom
<1>2. CASE ChangeInSilence
  <2>1. TypeOK' /\ \A i \in Instances : Pending(i)'
    BY <1>2 DEF ChangeInSilence, Store, Everywhere, Pending, HubTypeOK, hubVars, handlerVars
  <2> QED
    BY <1>2, <2>1, SilentStep DEF ChangeInSilence
<1>3. CASE DeleteRoom
  <2>1. TypeOK' /\ room' = NoValue
    BY <1>3 DEF DeleteRoom, HubTypeOK, hubVars, handlerVars
  <2> QED
    BY <1>3, <2>1, SilentStep DEF DeleteRoom
<1>4. ASSUME NEW i \in Instances, Change(i) PROVE FeedInv'
  <2>1. TypeOK' /\ unsent'[i] > 0
    BY <1>4 DEF Change, Store, HubTypeOK, hubVars, handlerVars
  <2> QED
    BY <1>4, <2>1, SilentStep DEF Change, Pending
<1>5. ASSUME NEW i \in Instances, Publish(i) PROVE FeedInv'
  <2>1. TypeOK' /\ \A j \in Instances : Pending(j)'
    <3>1. TypeOK'
      BY <1>5 DEF Publish, HubTypeOK, hubVars, handlerVars
    <3>2. \A j \in Instances : Pending(j)'
      BY <1>5 DEF Publish, Pending
    <3> QED
      BY <3>1, <3>2
  <2> QED
    BY <1>5, <2>1, SilentStep DEF Publish
<1> QED
  BY <1>1, <1>2, <1>3, <1>4, <1>5

\* The consumption of an announcement keeps the invariant: it reads the room again.
LEMMA ConsumeInv ==
    ASSUME FeedInv, NEW i \in Instances, Consume(i) \/ ConsumeError(i)
    PROVE  FeedInv'
<1> USE DEF FeedInv
<1>1. CASE ConsumeError(i)
  <2>1. TypeOK' /\ Pending(i)' /\ \A j \in Instances \ {i} : Pending(j)' = Pending(j)
    BY <1>1 DEF ConsumeError, Pending, TypeOK, HubTypeOK, hubVars, handlerVars
  <2> QED
    BY <1>1, <2>1, SilentStep DEF ConsumeError
<1>2. CASE Consume(i) /\ room = NoValue
  <2>1. TypeOK' /\ UNCHANGED hubVars /\ room' = NoValue
    BY <1>2 DEF Consume, TypeOK, HubTypeOK, hubVars, handlerVars
  <2> QED
    BY <2>1, SilentStep
<1>3. CASE Consume(i) /\ room # NoValue
  <2>1. room \in Values /\ BeginCast(i, room) /\ UNCHANGED <<room, changes, unsent>>
    BY <1>3 DEF Consume, TypeOK
  <2>2. HubInv'
    BY <2>1, HubNextInv DEF HubNext
  <2>3. TypeOK'
    <3>1. inbox' = [inbox EXCEPT ![i] = @ - 1] /\ inbox[i] > 0
          /\ behind' \in [Instances -> BOOLEAN]
      BY <1>3 DEF Consume, TypeOK
    <3> QED
      BY <2>1, <2>2, <3>1 DEF TypeOK, HubInv
  <2>4. /\ job'[i].value = room /\ ~job'[i].listed
        /\ \A j \in Instances \ {i} : job'[j] = job[j] /\ Pending(j)' = Pending(j)
    BY <1>3, <2>1 DEF Consume, BeginCast, Idle, NoJob, Pending, TypeOK, HubTypeOK
  <2>5. CastIsCurrent'
    BY <2>1, <2>4 DEF CastIsCurrent, Idle
  <2>6. ViewIsCurrent'
    BY <2>1, <2>4 DEF ViewIsCurrent, ToldNext, Shown, BeginCast, handlerVars, TypeOK, HubTypeOK
  <2> QED
    BY <2>2, <2>3, <2>5, <2>6
<1> QED
  BY <1>1, <1>2, <1>3 DEF Consume

\* A step of the handler of a connection keeps the invariant: the client is in
\* the map before it reads the room.
LEMMA ClientInv ==
    ASSUME FeedInv, NEW c \in Conns, UNCHANGED feedVars,
           \/ Connect(c) \/ Refuse(c) \/ Handle(c) \/ PeerGoes(c)
           \/ room # NoValue /\ ReadFirst(c, room)
    PROVE  FeedInv'
<1> USE DEF FeedInv
<1>1. HubInv'
  BY HubNextInv DEF HubNext, TypeOK
<1>2. TypeOK'
  BY <1>1 DEF TypeOK, HubInv, feedVars
<1>3. job' = job /\ \A i \in Instances : Pending(i)' = Pending(i)
  BY DEF Connect, Refuse, Handle, PeerGoes, ReadFirst, WriteFirst, ReadEnds, HandlerLeaves, HandlerReturns, Close,
         feedVars, Pending
<1>4. CastIsCurrent'
  BY <1>3 DEF CastIsCurrent, Idle, feedVars
<1>5. ViewIsCurrent'
  <2>1. ASSUME NEW d \in Conns \ {c}
        PROVE  Shown(d)' = Shown(d) /\ stage'[d] = stage[d]
    BY <2>1 DEF Shown, Connect, Refuse, Handle, PeerGoes, ReadFirst, WriteFirst, WriteOK,
                WriteFails, ReadEnds, HandlerLeaves, HandlerReturns, Close, handlerVars, TypeOK, HubTypeOK
  <2>2. /\ overtaken' = overtaken /\ closed \subseteq closed' /\ absent \subseteq absent'
        /\ room' = room
    BY DEF Connect, Refuse, Handle, PeerGoes, ReadFirst, WriteFirst, ReadEnds, HandlerLeaves, HandlerReturns, Close,
           Forget, feedVars
  <2>3. \/ stage'[c] \notin {"loaded", "open"}
        \/ Shown(c)' = room
        \/ Shown(c)' = Shown(c) /\ stage[c] \in {"loaded", "open"}
        \/ c \in absent'
    BY DEF Shown, Connect, Refuse, Handle, PeerGoes, ReadFirst, WriteFirst, WriteOK,
           WriteFails, ReadEnds, HandlerLeaves, HandlerReturns, Close, handlerVars, TypeOK, HubTypeOK
  <2> QED
    BY <1>3, <2>1, <2>2, <2>3 DEF ViewIsCurrent, ToldNext
<1> QED
  BY <1>1, <1>2, <1>4, <1>5

\* A step of the broadcast keeps the invariant: the list holds every client that
\* has read its first value.
LEMMA BroadcastInv ==
    ASSUME FeedInv, NEW i \in Instances, Broadcast(i)
    PROVE  FeedInv'
<1> USE DEF FeedInv
<1>1. HubInv'
  BY HubNextInv DEF Broadcast, HubNext
<1>2. TypeOK'
  BY <1>1 DEF TypeOK, HubInv, Broadcast, feedVars
<1>3. room' = room /\ \A j \in Instances : Pending(j)' = Pending(j)
  BY DEF Broadcast, Pending, feedVars
<1>4. CASE ListClients(i)
  <2>1. /\ job'[i].value = job[i].value /\ job'[i].left = members \intersect At(i)
        /\ \A j \in Instances \ {i} : job'[j] = job[j]
        /\ ~Idle(i) /\ ~job[i].listed
    BY <1>4 DEF ListClients, Idle, NoJob, TypeOK, HubTypeOK
  <2>2. CastIsCurrent'
    BY <1>3, <2>1 DEF CastIsCurrent, Idle
  <2>3. ViewIsCurrent'
    BY <1>3, <1>4, <2>1 DEF ViewIsCurrent, ToldNext, Shown, ListClients, handlerVars, HubInv,
          MembersAreServed, DroppedAreLost, At, TypeOK, HubTypeOK
  <2> QED
    BY <1>1, <1>2, <2>2, <2>3
<1>5. CASE EndCast(i)
  <2>1. /\ Idle(i)' /\ job[i].listed /\ job[i].left = {}
        /\ \A j \in Instances \ {i} : job'[j] = job[j]
    BY <1>5 DEF EndCast, Idle, TypeOK, HubTypeOK
  <2>2. CastIsCurrent'
    BY <1>3, <2>1 DEF CastIsCurrent, Idle
  <2>3. ViewIsCurrent'
    BY <1>3, <1>5, <2>1 DEF ViewIsCurrent, ToldNext, Shown, EndCast, handlerVars,
          TypeOK, HubTypeOK
  <2> QED
    BY <1>1, <1>2, <2>2, <2>3
<1>6. ASSUME NEW c \in Conns, CastTo(i, c) PROVE FeedInv'
  <2>1. /\ job'[i].value = job[i].value /\ job'[i].left = job[i].left \ {c}
        /\ job'[i].listed = job[i].listed
        /\ \A j \in Instances \ {i} : job'[j] = job[j]
        /\ ~Idle(i) /\ InstanceOf[c] = i
    BY <1>6 DEF CastTo, Idle, NoJob, HubInv, JobShape, At, TypeOK, HubTypeOK
  <2>2. CastIsCurrent'
    BY <1>3, <2>1 DEF CastIsCurrent, Idle
  <2>3. /\ \A d \in Conns \ {c} : Shown(d)' = Shown(d)
        /\ stage' = stage /\ overtaken \subseteq overtaken' /\ closed \subseteq closed'
        /\ absent' = absent
    BY <1>6 DEF CastTo, Shown, WriteOK, WriteFails, Drop, Forget, handlerVars, TypeOK, HubTypeOK
  <2>4. \/ c \in overtaken' \union closed' \union absent'
        \/ stage[c] # "loaded" /\ Shown(c)' = job[i].value
    BY <1>6 DEF CastTo, Shown, WriteOK, WriteFails, Drop, Forget, handlerVars, TypeOK, HubTypeOK
  <2>5. ViewIsCurrent'
    BY <1>3, <2>1, <2>3, <2>4 DEF ViewIsCurrent, ToldNext, CastIsCurrent
  <2> QED
    BY <1>1, <1>2, <2>2, <2>5
<1>7. ASSUME NEW c \in At(i), CloseDropped(c) PROVE FeedInv'
  <2>1. /\ UNCHANGED <<job, stage, first, view, overtaken, absent>> /\ closed \subseteq closed'
        /\ \A d \in Conns : Shown(d)' = Shown(d)
    BY <1>7 DEF CloseDropped, Close, Shown, handlerVars
  <2>2. CastIsCurrent'
    BY <1>3, <2>1 DEF CastIsCurrent, Idle
  <2>3. ViewIsCurrent'
    BY <1>3, <2>1 DEF ViewIsCurrent, ToldNext
  <2> QED
    BY <1>1, <1>2, <2>2, <2>3
<1> QED
  BY <1>4, <1>5, <1>6, <1>7 DEF Broadcast, Cast

\* A restart keeps the invariant: its clients are gone, and the other instances
\* are owed what it had not published.
LEMMA RestartInv ==
    ASSUME FeedInv, NEW i \in Instances, Restart(i)
    PROVE  FeedInv'
<1> USE DEF FeedInv
<1>1. HubInv'
  BY HubNextInv DEF Restart, HubNext
<1>2. TypeOK'
  <2>1. unsent' \in [Instances -> 0..MaxUnsent] /\ inbox' \in [Instances -> Nat]
    BY DEF Restart, TypeOK
  <2>2. behind' \in [Instances -> BOOLEAN]
    <3>1. \A j \in Instances :
             (IF j = i THEN FALSE ELSE behind[j] \/ unsent[i] > 0) \in BOOLEAN
      BY Zenon DEF TypeOK
    <3> QED
      BY <3>1, Zenon DEF Restart
  <2> QED
    BY <1>1, <2>1, <2>2 DEF TypeOK, HubInv, Restart
<1>3. /\ room' = room /\ Idle(i)'
      /\ \A j \in Instances \ {i} : job'[j] = job[j] /\ (Pending(j) => Pending(j)')
  <2>1. room' = room /\ Idle(i)' /\ \A j \in Instances \ {i} : job'[j] = job[j]
    BY DEF Restart, StopHub, Idle, TypeOK, HubTypeOK
  <2>2. ASSUME NEW j \in Instances \ {i}, Pending(j) PROVE Pending(j)'
    <3>1. behind'[j] = (behind[j] \/ unsent[i] > 0) /\ inbox'[j] = inbox[j]
          /\ \A k \in Instances \ {i} : unsent'[k] = unsent[k]
      BY DEF Restart, TypeOK
    <3>2. CASE behind[j] \/ inbox[j] > 0 \/ unsent[i] > 0
      BY <3>1, <3>2 DEF Pending
    <3>3. ASSUME NEW k \in Instances \ {i}, unsent[k] > 0 PROVE Pending(j)'
      BY <3>1, <3>3 DEF Pending
    <3> QED
      BY <2>2, <3>2, <3>3 DEF Pending
  <2> QED
    BY <2>1, <2>2
<1>4. CastIsCurrent'
  BY <1>3 DEF CastIsCurrent, Idle
<1>5. ViewIsCurrent'
  BY <1>3 DEF ViewIsCurrent, ToldNext, Shown, Restart, StopHub, At, TypeOK, HubTypeOK
<1> QED
  BY <1>1, <1>2, <1>4, <1>5

\* The inductive invariant holds in every state.
THEOREM FeedInvariance == Spec => []FeedInv
<1>1. FeedInv /\ [Next]_vars => FeedInv'
  <2> SUFFICES ASSUME FeedInv, [Next]_vars PROVE FeedInv'
    OBVIOUS
  <2>1. CASE UNCHANGED vars
    <3>1. TypeOK' /\ UNCHANGED hubVars /\ room' = room
          /\ \A i \in Instances : Pending(i)' = Pending(i)
      BY <2>1 DEF vars, hubVars, handlerVars, feedVars, FeedInv, TypeOK, HubTypeOK, Pending
    <3> QED
      BY <3>1, SilentStep
  <2>2. ASSUME NEW c \in Conns, ConnectClient(c) \/ RefuseClient(c) \/ Serve(c)
        PROVE  FeedInv'
    BY <2>2, ClientInv DEF ConnectClient, RefuseClient, Serve
  <2>3. ASSUME NEW c \in Conns, PeerGoes(c), UNCHANGED feedVars
        PROVE  FeedInv'
    BY <2>3, ClientInv
  <2>4. ASSUME NEW i \in Instances, Consume(i) \/ ConsumeError(i) \/ Broadcast(i) \/ Restart(i)
        PROVE  FeedInv'
    BY <2>4, ConsumeInv, BroadcastInv, RestartInv
  <2>5. ASSUME NEW i \in Instances, Change(i) \/ Publish(i) PROVE FeedInv'
    BY <2>5, ServiceInv
  <2>6. CASE CreateRoom \/ ChangeInSilence \/ DeleteRoom
    BY <2>6, ServiceInv
  <2>7. CASE Next
    <3>1. CASE \E i \in Instances :
                 Change(i) \/ Publish(i) \/ Consume(i) \/ ConsumeError(i)
                 \/ Broadcast(i) \/ Restart(i)
      BY <2>4, <2>5, <3>1
    <3>2. CASE \E c \in Conns : ConnectClient(c) \/ RefuseClient(c) \/ Serve(c)
      BY <2>2, <3>2
    <3>3. CASE \E c \in Conns : PeerGoes(c) /\ UNCHANGED feedVars
      BY <2>3, <3>3
    <3> QED
      BY <2>6, <2>7, <3>1, <3>2, <3>3 DEF Next
  <2> QED
    BY <2>1, <2>7
<1> QED
  BY <1>1, InitFeedInv, PTL DEF Spec

(***************************************************************************)
(* A client with nothing on its way to it sees the room as it is stored,   *)
(* except one whose first snapshot was overtaken by a broadcast            *)
(* (HandleWebSocket, handleRoomUpdated, publishRoomUpdated).               *)
(***************************************************************************)
THEOREM QuietClientsAreCurrent == Spec => []QuietMeansCurrent
<1>1. FeedInv => QuietMeansCurrent
  <2> SUFFICES ASSUME FeedInv, NEW c \in Conns \ overtaken, Watching(c),
                      Quiet(InstanceOf[c]), room # NoValue
               PROVE  view[c] = room
    BY DEF QuietMeansCurrent
  <2>1. ~Pending(InstanceOf[c])
    BY DEF Quiet, Pending, FeedInv, TypeOK
  <2>2. ~ToldNext(InstanceOf[c], c)
    BY DEF Quiet, Idle, NoJob, ToldNext
  <2> QED
    BY <2>1, <2>2 DEF Watching, FeedInv, ViewIsCurrent, Shown
<1> QED
  BY <1>1, FeedInvariance, PTL

(***************************************************************************)
(* The state of the feed and of its hub has its declared type.             *)
(***************************************************************************)
THEOREM FeedTypes == Spec => []TypeOK
<1>1. FeedInv => TypeOK
  BY DEF FeedInv
<1> QED
  BY <1>1, FeedInvariance, PTL

(***************************************************************************)
(* The map of the hub is exact in the composed system too (removeClient    *)
(* called by a handler and by a failed broadcast).                         *)
(***************************************************************************)
THEOREM FeedMembership == Spec => []MembersAreServed
<1>1. FeedInv => MembersAreServed
  BY DEF FeedInv, HubInv
<1> QED
  BY <1>1, FeedInvariance, PTL

\* To the hub, every step is one of its own or none.
LEMMA FeedHubStep == TypeOK /\ [Next]_vars => [HubNext]_hubVars
<1> SUFFICES ASSUME TypeOK, [Next]_vars PROVE [HubNext]_hubVars
  OBVIOUS
<1>1. CASE UNCHANGED vars
  BY <1>1 DEF vars
<1>2. CASE CreateRoom \/ ChangeInSilence \/ DeleteRoom
  BY <1>2 DEF CreateRoom, ChangeInSilence, DeleteRoom
<1>3. ASSUME NEW i \in Instances, Change(i) \/ Publish(i) \/ ConsumeError(i)
      PROVE  [HubNext]_hubVars
  BY <1>3 DEF Change, Publish, ConsumeError
<1>4. ASSUME NEW i \in Instances, Consume(i) PROVE [HubNext]_hubVars
  BY <1>4 DEF Consume, TypeOK, HubNext
<1>5. ASSUME NEW i \in Instances, Broadcast(i) \/ Restart(i) PROVE [HubNext]_hubVars
  BY <1>5 DEF Broadcast, Restart, HubNext
<1>6. ASSUME NEW c \in Conns,
             ConnectClient(c) \/ RefuseClient(c) \/ Serve(c) \/ PeerGoes(c)
      PROVE  [HubNext]_hubVars
  BY <1>6 DEF ConnectClient, RefuseClient, Serve, HubNext, TypeOK
<1> QED
  BY <1>1, <1>2, <1>3, <1>4, <1>5, <1>6 DEF Next

(***************************************************************************)
(* The feed of a room is a hub: the room, its announcements and the        *)
(* restarts only decide which values are shown and when, so whatever holds *)
(* of the hub alone holds here (HandleWebSocket, BroadcastRoomUpdate).     *)
(***************************************************************************)
THEOREM FeedImplementsHub == Spec => HubSpec
<1>1. Init => HubInit
  BY DEF Init
<1> QED
  BY <1>1, FeedHubStep, FeedTypes, PTL DEF Spec, HubSpec
=============================================================================
