------------------------------ MODULE RoomFeed ------------------------------
(***************************************************************************)
(* What the clients of one room see of it: the announcement of a change    *)
(* over Core NATS (RoomService), its consumption by every instance         *)
(* (internal/consumers/room_consumer.go) and the broadcast to the clients  *)
(* (Hub).                                                                  *)
(*                                                                         *)
(* A change is saved under the mutex of the service and announced after    *)
(* the mutex is released.  The announcement carries the room's id only:    *)
(* the room is read again when it is consumed.  The value of a room is the *)
(* number of the change that produced it; the store is read atomically     *)
(* (RoomStore is about its races).                                         *)
(***************************************************************************)
EXTENDS Hub, Naturals

CONSTANTS
    MaxChanges,     \* bound on the changes of the room
    MaxUnsent,      \* bound on the announcements an instance owes
    MayLose         \* may NATS lose an announcement?

ASSUME RoomFeedAssumption ==
    /\ MaxChanges \in Nat /\ MaxUnsent \in Nat
    /\ MayLose \in BOOLEAN
    /\ Values = 1..MaxChanges

VARIABLES
    room,           \* the stored room, NoValue if there is none
    changes,        \* changes made so far
    unsent,         \* announcements each instance owes: saved, not yet published
    inbox,          \* announcements waiting at each instance
    behind          \* history: no announcement will tell the instance of a change

feedVars == <<room, changes, unsent, inbox, behind>>
vars == <<hubVars, feedVars>>

TypeOK ==
    /\ HubTypeOK
    /\ room \in Values \union {NoValue}
    /\ changes \in 0..MaxChanges
    /\ unsent \in [Instances -> 0..MaxUnsent]
    /\ inbox \in [Instances -> Nat]
    /\ behind \in [Instances -> BOOLEAN]

Init ==
    /\ HubInit
    /\ room = NoValue /\ changes = 0
    /\ unsent = [i \in Instances |-> 0]
    /\ inbox = [i \in Instances |-> 0]
    /\ behind = [i \in Instances |-> FALSE]

Everywhere == [i \in Instances |-> TRUE]

-----------------------------------------------------------------------------
(***************************************************************************)
(* RoomService of instance i.                                              *)
(***************************************************************************)

Store ==
    /\ changes < MaxChanges
    /\ changes' = changes + 1
    /\ room' = changes + 1

\* CreateRoom saves an empty room and announces nothing.
CreateRoom ==
    /\ room = NoValue
    /\ Store
    /\ behind' = Everywhere
    /\ UNCHANGED <<hubVars, unsent, inbox>>

\* AddPlayer, SyncFromChampSelect, ToggleSpellByRiotId, RefreshCooldowns up to
\* the release of the mutex.
Change(i) ==
    /\ room # NoValue /\ unsent[i] < MaxUnsent
    /\ Store
    /\ unsent' = [unsent EXCEPT ![i] = @ + 1]
    /\ UNCHANGED <<hubVars, inbox, behind>>

\* The change is saved and never announced: the commit was reported as an error,
\* or the same refresh failed at a later room and dropped its list of rooms.
ChangeInSilence ==
    /\ room # NoValue
    /\ Store
    /\ behind' = Everywhere
    /\ UNCHANGED <<hubVars, unsent, inbox>>

\* cleanupOldRooms.
DeleteRoom ==
    /\ room # NoValue
    /\ room' = NoValue
    /\ UNCHANGED <<hubVars, changes, unsent, inbox, behind>>

\* publishRoomUpdated, whoever of the instance's goroutines runs first.  Core
\* NATS delivers at most once to each subscriber.
Publish(i) ==
    /\ unsent[i] > 0
    /\ unsent' = [unsent EXCEPT ![i] = @ - 1]
    /\ \E D \in SUBSET Instances :
          /\ MayLose \/ D = Instances
          /\ inbox' = [j \in Instances |-> IF j \in D THEN inbox[j] + 1 ELSE inbox[j]]
          /\ behind' = [j \in Instances |-> behind[j] \/ j \notin D]
    /\ UNCHANGED <<hubVars, room, changes>>

-----------------------------------------------------------------------------
(***************************************************************************)
(* RoomConsumer of instance i, and the clients' handlers.                  *)
(***************************************************************************)

\* Mutant of Consume: announcements that queued up behind a broadcast are dropped.
ConsumeDropping(i) ==
    /\ inbox[i] > 0
    /\ inbox' = [inbox EXCEPT ![i] = 0]
    /\ \/ /\ Idle(i) /\ room # NoValue
          /\ BeginCast(i, room)
          /\ behind' = [behind EXCEPT ![i] = FALSE]
       \/ ~Idle(i) /\ UNCHANGED <<hubVars, behind>>
    /\ UNCHANGED <<room, changes, unsent>>

\* handleRoomUpdated reads the room as it is now; a missing room is skipped.
Consume(i) ==
    /\ inbox[i] > 0 /\ Idle(i)
    /\ inbox' = [inbox EXCEPT ![i] = @ - 1]
    /\ \/ /\ room # NoValue
          /\ BeginCast(i, room)
          /\ behind' = [behind EXCEPT ![i] = FALSE]
       \/ room = NoValue /\ UNCHANGED <<hubVars, behind>>
    /\ UNCHANGED <<room, changes, unsent>>

\* The room cannot be read: the announcement is dropped.
ConsumeError(i) ==
    /\ inbox[i] > 0 /\ Idle(i)
    /\ inbox' = [inbox EXCEPT ![i] = @ - 1]
    /\ behind' = [behind EXCEPT ![i] = TRUE]
    /\ UNCHANGED <<hubVars, room, changes, unsent>>

\* HandleWebSocket up to its first write: the client is registered, then the
\* room is read.
ConnectClient(c) ==
    /\ \/ Connect(c)
       \/ room # NoValue /\ ReadFirst(c, room)
    /\ UNCHANGED feedVars

\* GetRoomSnapshot finds no room, or fails.
RefuseClient(c) == Refuse(c) /\ UNCHANGED feedVars

\* Instance i stops and starts again; what its services owed is never published.
Restart(i) ==
    /\ StopHub(i)
    /\ unsent' = [unsent EXCEPT ![i] = 0]
    /\ inbox' = [inbox EXCEPT ![i] = 0]
    /\ behind' = [j \in Instances |-> IF j = i THEN FALSE ELSE behind[j] \/ unsent[i] > 0]
    /\ UNCHANGED <<room, changes>>

-----------------------------------------------------------------------------

Serve(c) == Handle(c) /\ UNCHANGED feedVars

\* A connected client gets its first read or is turned away.
Answer(c) == stage[c] = "registered" /\ (ConnectClient(c) \/ RefuseClient(c))

Broadcast(i) == Cast(i) /\ UNCHANGED feedVars

Next ==
    \/ CreateRoom \/ ChangeInSilence \/ DeleteRoom
    \/ \E i \in Instances :
          Change(i) \/ Publish(i) \/ Consume(i) \/ ConsumeError(i)
          \/ Broadcast(i) \/ Restart(i)
    \/ \E c \in Conns :
          \/ ConnectClient(c) \/ RefuseClient(c) \/ Serve(c)
          \/ PeerGoes(c) /\ UNCHANGED feedVars

Spec == Init /\ [][Next]_vars

\* Goroutines that are ready run; a read of the room ends; a client that has
\* gone is noticed by the read deadline.
Fairness ==
    /\ \A i \in Instances : WF_vars(Publish(i)) /\ WF_vars(Broadcast(i))
                            /\ WF_vars(Consume(i) \/ ConsumeError(i))
    /\ \A c \in Conns : WF_vars(Serve(c))
                        /\ WF_vars(Answer(c))

FairSpec == Spec /\ Fairness

-----------------------------------------------------------------------------
(***************************************************************************)
(* Properties.                                                             *)
(***************************************************************************)

\* The client is there, has its first value and is still broadcast to.
Watching(c) == stage[c] = "open" /\ c \notin closed \union absent

\* Nothing about the room is on its way to instance i, and nothing was lost.
Quiet(i) ==
    /\ ~behind[i] /\ inbox[i] = 0 /\ Idle(i)
    /\ \A j \in Instances : unsent[j] = 0

(***************************************************************************)
(* When no announcement is on its way and none was lost, every client of   *)
(* the room sees the room as it is stored, except one whose first snapshot *)
(* was overtaken by a broadcast.  It rests on the order of three things:   *)
(* save before publish, register before the first read, and read again at  *)
(* consumption (HandleWebSocket, handleRoomUpdated, publishRoomUpdated).   *)
(***************************************************************************)
QuietMeansCurrent ==
    \A c \in Conns \ overtaken :
        Watching(c) /\ Quiet(InstanceOf[c]) /\ room # NoValue => view[c] = room

(***************************************************************************)
(* The same of every client: "WebSocket clients receive a snapshot when    *)
(* connecting; later room updates supersede earlier updates" (ADR 001).    *)
(* The code writes a snapshot after the newer update that overtook it      *)
(* (HandleWebSocket reads at line 81 and writes at line 100).              *)
(***************************************************************************)
SnapshotNeverOverridesUpdate ==
    \A c \in Conns :
        Watching(c) /\ Quiet(InstanceOf[c]) /\ room # NoValue => view[c] = room

(***************************************************************************)
(* A client that has gone is eventually out of the map and its connection  *)
(* closed, whether its handler or a broadcast notices, and whichever of    *)
(* them closes it (HandleWebSocket's read deadline and pings,              *)
(* removeClient).                                                          *)
(***************************************************************************)
GoneAreForgotten == \A c \in Conns : c \in absent ~> c \notin members /\ c \in closed

(***************************************************************************)
(* Once the room stops changing, its clients are eventually shown its last *)
(* state and stay with it, unless an announcement was lost or their first  *)
(* snapshot overtaken (RoomConsumer.handleRoomUpdated).                    *)
(***************************************************************************)
EventuallyCurrent ==
    \A c \in Conns :
        <>[](Watching(c) /\ c \notin overtaken /\ ~behind[InstanceOf[c]] /\ room # NoValue
                => view[c] = room)
=============================================================================
