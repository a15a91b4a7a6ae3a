---------------------------- MODULE CurrentRoom ----------------------------
(***************************************************************************)
(* Which room is the current one: the poller that follows the League       *)
(* client's champion selects (internal/services/lol_client_service.go),    *)
(* the current room kept in the memory of each RoomService                 *)
(* (internal/services/room_service.go), its announcement over Core NATS    *)
(* and what the clients of /ws/current-room are shown (Hub).               *)
(*                                                                         *)
(* Every champion select has a room of its own (BuildRoomId), so rooms are *)
(* numbered like selects.  Only the instance on the host of the League     *)
(* client can read its lockfile; the pollers of the others do nothing.     *)
(***************************************************************************)
EXTENDS Hub, Naturals, Sequences

CONSTANTS
    Poller,         \* the instance on the host of the League client
    None,           \* the empty room id
    MaxSelects,     \* bound on the champion selects
    MaxPicks,       \* bound on the players of each select
    MayLose         \* may NATS lose an announcement?

Selects == 1..MaxSelects

ASSUME CurrentRoomAssumption ==
    /\ Poller \in Instances
    /\ MaxSelects \in Nat /\ MaxPicks \in [Selects -> Nat \ {0}]
    /\ MayLose \in BOOLEAN
    /\ None \notin Selects
    /\ Values = Selects \union {None}

VARIABLES
    select,         \* the champion select going on, 0 if none
    selects,        \* selects so far
    picks,          \* the players of the present select, a number per change
    running,        \* does the League client answer?
    saved,          \* the players stored in the room of each select, 0 if none
    current,        \* currentRoomID of each instance
    pc,             \* where the poller stands in its tick
    seen,           \* the select and players its tick has read
    owed,           \* the room id it is about to announce
    inbox,          \* announcements waiting at each instance
    behind,         \* history: current changed and the instance will not be told
    lastSync,       \* history: the select the last tick found or made in sync
    forgotten,      \* history: a room was stored and its current id was not kept
    orphaned        \* history: the poller's current room was deleted behind its back

clientVars == <<select, selects, picks, running>>
pollVars == <<pc, seen, owed>>
historyVars == <<behind, lastSync, forgotten, orphaned>>
roomVars == <<clientVars, saved, current, pollVars, inbox, historyVars>>
vars == <<hubVars, roomVars>>

NothingSeen == [select |-> 0, picks |-> 0]

TypeOK ==
    /\ HubTypeOK
    /\ select \in 0..MaxSelects /\ selects \in 0..MaxSelects
    /\ picks \in Nat
    /\ running \in BOOLEAN
    /\ saved \in [Selects -> Nat]
    /\ current \in [Instances -> Values]
    /\ pc \in {"idle", "sync", "set", "clear", "announce"}
    /\ seen \in [select : 0..MaxSelects, picks : Nat]
    /\ owed \in Values
    /\ inbox \in [Instances -> Seq(Values)]
    /\ behind \in [Instances -> BOOLEAN]
    /\ lastSync \in 0..MaxSelects
    /\ forgotten \in BOOLEAN /\ orphaned \in BOOLEAN

Init ==
    /\ HubInit
    /\ select = 0 /\ selects = 0 /\ picks = 0 /\ running = TRUE
    /\ saved = [k \in Selects |-> 0]
    /\ current = [i \in Instances |-> None]
    /\ pc = "idle" /\ seen = NothingSeen /\ owed = None
    /\ inbox = [i \in Instances |-> <<>>]
    /\ behind = [i \in Instances |-> FALSE]
    /\ lastSync = 0 /\ forgotten = FALSE /\ orphaned = FALSE

-----------------------------------------------------------------------------
(***************************************************************************)
(* The League client.                                                      *)
(***************************************************************************)

OpenSelect ==
    /\ select = 0 /\ selects < MaxSelects
    /\ selects' = selects + 1 /\ select' = selects + 1 /\ picks' = 1
    /\ UNCHANGED <<hubVars, running, saved, current, pollVars, inbox, historyVars>>

\* Another champion or spell is picked.
Pick ==
    /\ select # 0 /\ picks < MaxPicks[select]
    /\ picks' = picks + 1
    /\ UNCHANGED <<hubVars, select, selects, running, saved, current, pollVars, inbox,
                   historyVars>>

CloseSelect ==
    /\ select # 0
    /\ select' = 0 /\ picks' = 0
    /\ UNCHANGED <<hubVars, selects, running, saved, current, pollVars, inbox, historyVars>>

\* The client is closed or started; nothing answers while it is closed.
Toggle ==
    /\ running' = ~running
    /\ UNCHANGED <<hubVars, select, selects, picks, saved, current, pollVars, inbox,
                   historyVars>>

-----------------------------------------------------------------------------
(***************************************************************************)
(* One tick of StartChampSelectSync.  It is the only caller of             *)
(* SetCurrentRoomID and ClearCurrentRoomID, so changes are announced in    *)
(* the order in which they are made.                                       *)
(***************************************************************************)

GoTo(p) == pc' = p

EndTick(k) == GoTo("idle") /\ seen' = NothingSeen /\ lastSync' = k

\* Mutant of PollElsewhere: the current room is kept.
PollElsewhereKeeps ==
    /\ pc = "idle" /\ running /\ select = 0
    /\ EndTick(0)
    /\ UNCHANGED <<hubVars, clientVars, owed, saved, current, inbox, behind, forgotten,
                   orphaned>>

\* Outside champion select: GetCurrentRoomID, and ClearCurrentRoomID if there is one.
PollElsewhere ==
    /\ pc = "idle" /\ running /\ select = 0
    /\ IF current[Poller] = None THEN EndTick(0) /\ UNCHANGED owed
       ELSE /\ GoTo("clear")
            /\ owed' = current[Poller]
            /\ UNCHANGED <<seen, lastSync>>
    /\ UNCHANGED <<hubVars, clientVars, saved, current, inbox, behind, forgotten, orphaned>>

\* In champion select: the session is read, CreateRoom makes sure of the room.
PollSelect ==
    /\ pc = "idle" /\ running /\ select # 0
    /\ GoTo("sync")
    /\ seen' = [select |-> select, picks |-> picks]
    /\ UNCHANGED <<hubVars, clientVars, saved, current, owed, inbox, historyVars>>

\* ReplacePlayers finds the stored players equal: SyncFromChampSelect returns
\* before it sets the current room.
SyncUnchanged ==
    /\ pc = "sync"
    /\ saved[seen.select] = seen.picks
    /\ EndTick(seen.select)
    /\ UNCHANGED <<hubVars, clientVars, saved, current, owed, inbox, behind, forgotten,
                   orphaned>>

\* ReplacePlayers saves the players; the update of the room is announced.
SyncSaved ==
    /\ pc = "sync"
    /\ saved[seen.select] # seen.picks
    /\ saved' = [saved EXCEPT ![seen.select] = seen.picks]
    /\ GoTo("set")
    /\ UNCHANGED <<hubVars, clientVars, current, seen, owed, inbox, historyVars>>

\* The room cannot be read or saved; the transaction may have been committed.
SyncError ==
    /\ pc = "sync"
    /\ EndTick(0)
    /\ \/ UNCHANGED <<saved, forgotten>>
       \/ /\ saved[seen.select] # seen.picks
          /\ saved' = [saved EXCEPT ![seen.select] = seen.picks]
          /\ forgotten' = (current[Poller] # seen.select)
    /\ UNCHANGED <<hubVars, clientVars, current, owed, inbox, behind, orphaned>>

\* Mutant of SetCurrentRoomID: only the first room is set.
SetCurrentRoomIDOnce ==
    /\ pc = "set"
    /\ IF current[Poller] # None
       THEN EndTick(seen.select) /\ UNCHANGED <<current, owed, behind>>
       ELSE /\ current' = [current EXCEPT ![Poller] = seen.select]
            /\ owed' = seen.select
            /\ behind' = [behind EXCEPT ![Poller] = FALSE]
            /\ GoTo("announce")
            /\ UNCHANGED <<seen, lastSync>>
    /\ forgotten' = FALSE /\ orphaned' = FALSE
    /\ UNCHANGED <<hubVars, clientVars, saved, inbox>>

SetCurrentRoomID ==
    /\ pc = "set"
    /\ IF current[Poller] = seen.select
       THEN EndTick(seen.select) /\ UNCHANGED <<current, owed, behind>>
       ELSE /\ current' = [current EXCEPT ![Poller] = seen.select]
            /\ owed' = seen.select
            /\ behind' = [behind EXCEPT ![Poller] = FALSE]
            /\ GoTo("announce")
            /\ UNCHANGED <<seen, lastSync>>
    /\ forgotten' = FALSE /\ orphaned' = FALSE
    /\ UNCHANGED <<hubVars, clientVars, saved, inbox>>

\* The room id it was called with may have been cleared by the cleanup.
ClearCurrentRoomID ==
    /\ pc = "clear"
    /\ owed' = None
    /\ IF current[Poller] # owed
       THEN EndTick(0) /\ UNCHANGED <<current, behind, orphaned>>
       ELSE /\ current' = [current EXCEPT ![Poller] = None]
            /\ behind' = [behind EXCEPT ![Poller] = FALSE]
            /\ orphaned' = FALSE
            /\ GoTo("announce")
            /\ UNCHANGED <<seen, lastSync>>
    /\ UNCHANGED <<hubVars, clientVars, saved, inbox, forgotten>>

\* Mutant of PublishCurrentRoomChanged: the announcement is not sent to itself.
PublishCurrentRoomChangedToOthers ==
    /\ pc = "announce"
    /\ inbox' = [i \in Instances |-> IF i # Poller THEN Append(inbox[i], owed) ELSE inbox[i]]
    /\ owed' = None
    /\ EndTick(seen.select)
    /\ UNCHANGED <<hubVars, clientVars, saved, current, behind, forgotten, orphaned>>

\* publishCurrentRoomChanged, after the mutex is released; the tick is over.
PublishCurrentRoomChanged ==
    /\ pc = "announce"
    /\ \E D \in SUBSET Instances :
          /\ MayLose \/ D = Instances
          /\ inbox' = [i \in Instances |->
                         IF i \in D THEN Append(inbox[i], owed) ELSE inbox[i]]
          /\ behind' = [i \in Instances |-> behind[i] \/ i \notin D]
    /\ owed' = None
    /\ EndTick(seen.select)
    /\ UNCHANGED <<hubVars, clientVars, saved, current, forgotten, orphaned>>

-----------------------------------------------------------------------------
(***************************************************************************)
(* The rest of the instances.                                              *)
(***************************************************************************)

\* Mutant of CleanupRoom: the current room is left alone.
CleanupRoomOnly(i, k) ==
    /\ saved[k] # 0 /\ k # select /\ k # seen.select
    /\ saved' = [saved EXCEPT ![k] = 0]
    /\ UNCHANGED <<hubVars, clientVars, current, pollVars, inbox, historyVars>>

\* cleanupOldRooms of instance i deletes room k, unused for three hours, and
\* clears i's current room without announcing it.  A deletion that was made but
\* is reported as an error ends the cleanup before that, and the room is not
\* listed again.
CleanupRoom(i, k) ==
    /\ saved[k] # 0 /\ k # select /\ k # seen.select
    /\ saved' = [saved EXCEPT ![k] = 0]
    /\ \/ /\ current[i] = k
          /\ current' = [current EXCEPT ![i] = None]
          /\ behind' = [behind EXCEPT ![i] = TRUE]
          /\ orphaned' = IF current[Poller] = k THEN i # Poller ELSE orphaned
       \/ /\ UNCHANGED <<current, behind>>
          /\ orphaned' = (orphaned \/ current[Poller] = k)
    /\ UNCHANGED <<hubVars, clientVars, pollVars, inbox, lastSync, forgotten>>

\* handleCurrentRoomChanged.
Consume(i) ==
    /\ inbox[i] # <<>>
    /\ BeginCast(i, Head(inbox[i]))
    /\ inbox' = [inbox EXCEPT ![i] = Tail(@)]
    /\ UNCHANGED <<clientVars, saved, current, pollVars, historyVars>>

\* HandleCurrentRoomWebSocket: registered, then GetCurrentRoomID of its own instance.
ConnectClient(c) ==
    /\ \/ Connect(c)
       \/ ReadFirst(c, current[InstanceOf[c]])
    /\ UNCHANGED roomVars

\* Instance i stops and starts again with an empty memory.
Restart(i) ==
    /\ StopHub(i)
    /\ current' = [current EXCEPT ![i] = None]
    /\ inbox' = [inbox EXCEPT ![i] = <<>>]
    /\ behind' = [behind EXCEPT ![i] = FALSE]
    /\ IF i = Poller
       THEN /\ pc' = "idle" /\ seen' = NothingSeen /\ owed' = None
            /\ lastSync' = 0
            /\ forgotten' = TRUE /\ orphaned' = FALSE
       ELSE UNCHANGED <<pollVars, lastSync, forgotten, orphaned>>
    /\ UNCHANGED <<clientVars, saved>>

-----------------------------------------------------------------------------

Serve(c) == Handle(c) /\ UNCHANGED roomVars

Broadcast(i) == Cast(i) /\ UNCHANGED roomVars

Tick ==
    \/ PollElsewhere \/ PollSelect
    \/ SyncUnchanged \/ SyncSaved \/ SyncError
    \/ SetCurrentRoomID \/ ClearCurrentRoomID \/ PublishCurrentRoomChanged

Next ==
    \/ OpenSelect \/ Pick \/ CloseSelect \/ Toggle
    \/ Tick
    \/ \E i \in Instances :
          Consume(i) \/ Broadcast(i) \/ Restart(i) \/ \E k \in Selects : CleanupRoom(i, k)
    \/ \E c \in Conns : ConnectClient(c) \/ Serve(c) \/ (PeerGoes(c) /\ UNCHANGED roomVars)

Spec == Init /\ [][Next]_vars

\* The ticker ticks, goroutines run, and the database does not fail for ever.
Fairness ==
    /\ WF_vars(Tick) /\ SF_vars(SyncSaved) /\ SF_vars(SyncUnchanged)
    /\ \A i \in Instances : WF_vars(Consume(i)) /\ WF_vars(Broadcast(i))
    /\ \A c \in Conns : WF_vars(Serve(c)) /\ WF_vars(stage[c] # "new" /\ ConnectClient(c))

FairSpec == Spec /\ Fairness

-----------------------------------------------------------------------------
(***************************************************************************)
(* Properties.                                                             *)
(***************************************************************************)

Watching(c) == stage[c] = "open" /\ c \notin closed \union absent

\* Nothing about the current room is on its way to instance i, and nothing was lost.
Quiet(i) == ~behind[i] /\ inbox[i] = <<>> /\ Idle(i) /\ pc # "announce"

(***************************************************************************)
(* The clients of the polling instance see its current room once nothing   *)
(* is on its way, whenever they connected (SetCurrentRoomID,               *)
(* publishCurrentRoomChanged, HandleCurrentRoomWebSocket); those whose     *)
(* first value was overtaken by a broadcast are excepted.                  *)
(***************************************************************************)
QuietMeansCurrent ==
    \A c \in At(Poller) \ overtaken :
        Watching(c) /\ Quiet(Poller) => view[c] = current[Poller]

(***************************************************************************)
(* A tick that ended without an error leaves the room of the champion      *)
(* select it saw as the current room, unless the current room had been     *)
(* forgotten before (StartChampSelectSync, SyncFromChampSelect).           *)
(***************************************************************************)
SyncedIsCurrentUnlessForgotten ==
    pc = "idle" /\ lastSync # 0 /\ lastSync = select /\ ~forgotten
        => current[Poller] = select

(***************************************************************************)
(* The same without exception: GET /api/current-room "Returns the room     *)
(* currently synchronized with the League Client" (room_handler.go).  An   *)
(* instance restarted during champion select finds the players unchanged,  *)
(* and SyncFromChampSelect returns before it sets the current room.        *)
(***************************************************************************)
SyncedIsCurrent ==
    pc = "idle" /\ lastSync # 0 /\ lastSync = select => current[Poller] = select

(***************************************************************************)
(* The current room is a stored room, even while the League client is      *)
(* closed and nobody clears it, however ticks, failing saves and cleanups  *)
(* follow each other (cleanupOldRooms, clearCurrentRoomIDLocked), unless   *)
(* its deletion by the polling instance was reported as an error or        *)
(* another instance deleted it.                                            *)
(***************************************************************************)
CurrentRoomExists ==
    ~orphaned => \A k \in Selects : current[Poller] = k => saved[k] # 0

(***************************************************************************)
(* A client that connects after an announcement recovers the latest state  *)
(* ("clients recover the latest state from PostgreSQL/Redis when           *)
(* reconnecting", readME.md), whatever instance it reaches.  The current   *)
(* room is kept in the memory of the polling instance only.                *)
(***************************************************************************)
ReconnectingRecovers ==
    \A c \in Conns \ overtaken :
        Watching(c) /\ Quiet(InstanceOf[c]) /\ pc = "idle" => view[c] = current[Poller]

(***************************************************************************)
(* While the League client keeps answering, the clients of the polling     *)
(* instance eventually show the room of the champion select, and no room   *)
(* once there is none, unless an announcement was lost or the current room *)
(* forgotten (StartChampSelectSync).                                       *)
(***************************************************************************)
EventuallyShown ==
    <>[]running =>
        \A c \in At(Poller) :
            <>[](Watching(c) /\ c \notin overtaken /\ ~behind[Poller] /\ ~forgotten
                    => view[c] = IF select = 0 THEN None ELSE select)
=============================================================================
