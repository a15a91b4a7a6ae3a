-------------------------------- MODULE Hub --------------------------------
(***************************************************************************)
(* The WebSocket hub (internal/websocket): the connections of one kind on  *)
(* every application instance, the goroutine that serves each of them and  *)
(* the goroutine that broadcasts to them.  RoomFeed extends it for the     *)
(* connections of one room and CurrentRoom for those of /ws/current-room.  *)
(*                                                                         *)
(* A connection is used once: a client that reconnects takes another one.  *)
(* The hub's mutex covers the set of members only; a first value is read   *)
(* and every message is written without it.                                *)
(***************************************************************************)
EXTENDS FiniteSets

CONSTANTS
    Conns,          \* connections
    Instances,      \* application instances
    InstanceOf,     \* the instance that serves each connection
    Values,         \* what is shown to clients
    NoValue         \* nothing shown, nothing to broadcast

ASSUME HubAssumption ==
    /\ InstanceOf \in [Conns -> Instances]
    /\ NoValue \notin Values

VARIABLES
    stage,          \* where the handler of each connection stands
    members,        \* connections in the hub's map
    dropped,        \* connections a broadcast has taken out and not closed yet
    closed,         \* connections the server has closed
    absent,         \* connections whose client has gone, noticed or not
    first,          \* the first value its handler has read
    view,           \* the last value its client has received
    job,            \* the broadcast of each instance
    overtaken       \* history: a broadcast was written between the read of
                    \* the first value and its write

handlerVars == <<stage, first>>
hubVars == <<handlerVars, members, dropped, closed, absent, view, job, overtaken>>

At(i) == {c \in Conns : InstanceOf[c] = i}

NoJob == [value |-> NoValue, listed |-> FALSE, left |-> {}]

Idle(i) == job[i] = NoJob

HubTypeOK ==
    /\ stage \in [Conns -> {"new", "registered", "loaded", "open", "leaving", "gone"}]
    /\ members \subseteq Conns
    /\ dropped \subseteq Conns
    /\ closed \subseteq Conns
    /\ absent \subseteq Conns
    /\ overtaken \subseteq Conns
    /\ first \in [Conns -> Values \union {NoValue}]
    /\ view \in [Conns -> Values \union {NoValue}]
    /\ job \in [Instances -> [value : Values \union {NoValue},
                              listed : BOOLEAN,
                              left : SUBSET Conns]]

HubInit ==
    /\ stage = [c \in Conns |-> "new"]
    /\ members = {} /\ dropped = {} /\ closed = {} /\ absent = {} /\ overtaken = {}
    /\ first = [c \in Conns |-> NoValue]
    /\ view = [c \in Conns |-> NoValue]
    /\ job = [i \in Instances |-> NoJob]

-----------------------------------------------------------------------------
(***************************************************************************)
(* Writing to a connection and removing it.  removeClient and              *)
(* removeCurrentRoomClient are two steps: the connection leaves the map    *)
(* under the hub's mutex, and is closed once the mutex is released and the *)
(* write that goes on has ended.                                           *)
(***************************************************************************)

Forget(c) == members' = members \ {c}

Close(c) == closed' = closed \union {c}

\* Client.WriteMessage succeeds: the kernel may take the bytes for a client
\* that has gone.
WriteOK(c, v) ==
    /\ c \notin closed
    /\ view' = IF c \in absent THEN view ELSE [view EXCEPT ![c] = v]

\* It fails: the server has closed the connection, or the client has gone (one
\* too slow for the write deadline counts as gone).
WriteFails(c) == c \in closed \union absent /\ UNCHANGED view

-----------------------------------------------------------------------------
(***************************************************************************)
(* The handler of a connection, one goroutine each.                        *)
(***************************************************************************)

\* Upgrade and addClient.
Connect(c) ==
    /\ stage[c] = "new"
    /\ stage' = [stage EXCEPT ![c] = "registered"]
    /\ members' = members \union {c}
    /\ UNCHANGED <<dropped, closed, absent, first, view, job, overtaken>>

\* The first value v is read, without the hub's mutex.
ReadFirst(c, v) ==
    /\ stage[c] = "registered"
    /\ stage' = [stage EXCEPT ![c] = "loaded"]
    /\ first' = [first EXCEPT ![c] = v]
    /\ UNCHANGED <<members, dropped, closed, absent, view, job, overtaken>>

HandlerLeaves(c) ==
    /\ stage' = [stage EXCEPT ![c] = "leaving"]
    /\ Forget(c)
    /\ UNCHANGED <<dropped, closed, absent, first, job, overtaken>>

\* The handler closes what it has taken out of the map and returns.
HandlerReturns(c) ==
    /\ stage[c] = "leaving"
    /\ stage' = [stage EXCEPT ![c] = "gone"]
    /\ Close(c)
    /\ UNCHANGED <<members, dropped, absent, first, view, job, overtaken>>

\* There is no first value (the room is missing, or cannot be read).
Refuse(c) == stage[c] = "registered" /\ HandlerLeaves(c) /\ UNCHANGED view

WriteFirst(c) ==
    /\ stage[c] = "loaded"
    /\ \/ /\ WriteOK(c, first[c])
          /\ stage' = [stage EXCEPT ![c] = "open"]
          /\ UNCHANGED <<members, dropped, closed, absent, first, job, overtaken>>
       \/ WriteFails(c) /\ HandlerLeaves(c)

\* Mutant of ReadEnds: without a read deadline a lost client is not noticed.
ReadEndsIfClosed(c) ==
    /\ stage[c] = "open"
    /\ c \in closed
    /\ HandlerLeaves(c) /\ UNCHANGED view

\* ReadMessage fails once the client has gone (its close frame, the read
\* deadline without a pong, TCP keep-alive) or the server has closed the
\* connection; the deferred removal runs.
ReadEnds(c) ==
    /\ stage[c] = "open"
    /\ c \in closed \union absent
    /\ HandlerLeaves(c) /\ UNCHANGED view

\* The browser leaves, or the network between it and the server breaks.
PeerGoes(c) ==
    /\ stage[c] \notin {"new", "gone"} /\ c \notin absent
    /\ absent' = absent \union {c}
    /\ UNCHANGED <<handlerVars, members, dropped, closed, view, job, overtaken>>

-----------------------------------------------------------------------------
(***************************************************************************)
(* The broadcast of an instance.  A NATS subscription runs its callback in *)
(* one goroutine, so an instance has one broadcast at a time.              *)
(***************************************************************************)

\* The callback holds v and is about to call the hub.
BeginCast(i, v) ==
    /\ Idle(i)
    /\ job' = [job EXCEPT ![i].value = v]
    /\ UNCHANGED <<handlerVars, members, dropped, closed, absent, view, overtaken>>

\* getRoomClients, getCurrentRoomClients: the list is taken under the mutex.
ListClients(i) ==
    /\ job[i].value # NoValue /\ ~job[i].listed
    /\ job' = [job EXCEPT ![i] = [@ EXCEPT !.listed = TRUE,
                                           !.left = members \intersect At(i)]]
    /\ UNCHANGED <<handlerVars, members, dropped, closed, absent, view, overtaken>>

\* The write to c fails: c is taken out, to be closed before the next client's turn.
Drop(c) == WriteFails(c) /\ Forget(c) /\ dropped' = dropped \union {c}

\* Mutants of CastTo: the loop ends at the first client that cannot be written;
\* such a client is never closed.
CastToFirstFailure(i, c) ==
    /\ c \in job[i].left /\ dropped \intersect At(i) = {}
    /\ \/ /\ WriteOK(c, job[i].value)
          /\ job' = [job EXCEPT ![i].left = @ \ {c}]
          /\ UNCHANGED <<members, dropped>>
       \/ Drop(c) /\ job' = [job EXCEPT ![i].left = {}]
    /\ overtaken' = IF stage[c] = "loaded" THEN overtaken \union {c} ELSE overtaken
    /\ UNCHANGED <<handlerVars, closed, absent>>
CastToLeavesOpen(i, c) ==
    /\ c \in job[i].left
    /\ job' = [job EXCEPT ![i].left = @ \ {c}]
    /\ \/ WriteOK(c, job[i].value) /\ UNCHANGED members
       \/ WriteFails(c) /\ Forget(c)
    /\ overtaken' = IF stage[c] = "loaded" THEN overtaken \union {c} ELSE overtaken
    /\ UNCHANGED <<handlerVars, dropped, closed, absent>>

\* The next client of the list, in the order of a map.
CastTo(i, c) ==
    /\ c \in job[i].left /\ dropped \intersect At(i) = {}
    /\ job' = [job EXCEPT ![i].left = @ \ {c}]
    /\ \/ WriteOK(c, job[i].value) /\ UNCHANGED <<members, dropped>>
       \/ Drop(c)
    /\ overtaken' = IF stage[c] = "loaded" THEN overtaken \union {c} ELSE overtaken
    /\ UNCHANGED <<handlerVars, closed, absent>>

CloseDropped(c) ==
    /\ c \in dropped
    /\ dropped' = dropped \ {c}
    /\ Close(c)
    /\ UNCHANGED <<handlerVars, members, absent, view, job, overtaken>>

EndCast(i) ==
    /\ job[i].listed /\ job[i].left = {} /\ dropped \intersect At(i) = {}
    /\ job' = [job EXCEPT ![i] = NoJob]
    /\ UNCHANGED <<handlerVars, members, dropped, closed, absent, view, overtaken>>

\* The process of instance i stops: its connections and its broadcast go with it.
StopHub(i) ==
    /\ stage' = [c \in Conns |-> IF c \in At(i) /\ stage[c] # "new" THEN "gone" ELSE stage[c]]
    /\ members' = members \ At(i)
    /\ dropped' = dropped \ At(i)
    /\ closed' = closed \union {c \in At(i) : stage[c] # "new"}
    /\ job' = [job EXCEPT ![i] = NoJob]
    /\ UNCHANGED <<absent, first, view, overtaken>>

-----------------------------------------------------------------------------

Handle(c) == WriteFirst(c) \/ ReadEnds(c) \/ HandlerReturns(c)

Cast(i) ==
    \/ ListClients(i) \/ EndCast(i)
    \/ \E c \in Conns : CastTo(i, c)
    \/ \E c \in At(i) : CloseDropped(c)

HubNext ==
    \/ \E c \in Conns : Connect(c) \/ Refuse(c) \/ Handle(c) \/ PeerGoes(c)
    \/ \E c \in Conns, v \in Values : ReadFirst(c, v)
    \/ \E i \in Instances, v \in Values : BeginCast(i, v)
    \/ \E i \in Instances : Cast(i) \/ StopHub(i)

\* The hub alone, whatever is shown to its clients.
HubSpec == HubInit /\ [][HubNext]_hubVars

(***************************************************************************)
(* The map holds exactly the connections that a handler still serves and   *)
(* nobody has closed or is about to close, though both the handler and a   *)
(* failed broadcast remove a connection, in two steps each that interleave *)
(* in any order (removeClient, BroadcastRoomUpdate, HandleWebSocket):      *)
(* nobody is broadcast to for ever, nobody waits for broadcasts that will  *)
(* not come, and no connection stays open that nobody serves.              *)
(***************************************************************************)
MembersAreServed ==
    /\ members =
          {c \in Conns : stage[c] \in {"registered", "loaded", "open"}} \ (closed \union dropped)
    /\ \A c \in Conns : stage[c] = "gone" => c \in closed
=============================================================================
