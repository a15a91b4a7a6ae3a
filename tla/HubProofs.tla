----------------------------- MODULE HubProofs -----------------------------
(***************************************************************************)
(* Proofs about Hub, for any set of connections and instances and whatever *)
(* values are shown.                                                       *)
(*                                                                         *)
(* The argument: whoever takes a connection out of the map still has to    *)
(* close it (stage "leaving" of its handler, dropped of a broadcast), and  *)
(* closing moves it from there to closed; a connection that has not been   *)
(* upgraded yet cannot be on the list of a broadcast, so none is taken out *)
(* or closed before it enters the map (NewAreUntouched).                   *)
(***************************************************************************)
EXTENDS Hub, TLAPS

\* No broadcast knows of a connection that has not entered the map.
NewAreUntouched ==
    \A c \in Conns : stage[c] = "new" =>
        /\ c \notin members \union closed \union dropped
        /\ \A i \in Instances : c \notin job[i].left

\* A broadcast lists clients of its own instance, and one without a value is idle.
JobShape ==
    \A i \in Instances :
        /\ job[i].left \subseteq At(i)
        /\ job[i].value = NoValue => Idle(i)

\* A broadcast takes out only clients it could not write to.
DroppedAreLost == dropped \subseteq closed \union absent

Jobs == [value : Values \union {NoValue}, listed : BOOLEAN, left : SUBSET Conns]

HubInv == HubTypeOK /\ MembersAreServed /\ NewAreUntouched /\ JobShape /\ DroppedAreLost

USE HubAssumption

\* The initial state of the hub satisfies its inductive invariant.
LEMMA HubInitInv == HubInit => HubInv
  BY DEF HubInit, HubInv, HubTypeOK, MembersAreServed, NewAreUntouched, DroppedAreLost, JobShape, NoJob, Idle, At

\* What a step of the broadcast of instance i leaves: its job j, the others as they were.
LEMMA JobStep ==
    ASSUME HubTypeOK, NEW i \in Instances, NEW j \in Jobs, job' = [job EXCEPT ![i] = j]
    PROVE  /\ job' \in [Instances -> Jobs]
           /\ job'[i] = j
           /\ \A k \in Instances \ {i} : job'[k] = job[k]
  BY DEF HubTypeOK, Jobs

\* The handler of a connection, from the upgrade to its return, keeps the invariant
\* (HandleWebSocket, HandleCurrentRoomWebSocket).
LEMMA HandlerInv ==
    ASSUME HubInv, NEW c \in Conns,
           \/ Connect(c) \/ Refuse(c) \/ Handle(c) \/ PeerGoes(c)
           \/ \E v \in Values : ReadFirst(c, v)
    PROVE  HubInv'
<1> USE DEF HubInv, HubTypeOK, handlerVars
<1>1. CASE Connect(c)
  BY <1>1 DEF Connect, MembersAreServed, NewAreUntouched, DroppedAreLost, JobShape, Idle, NoJob, At
<1>2. CASE \E v \in Values : ReadFirst(c, v)
  BY <1>2 DEF ReadFirst, MembersAreServed, NewAreUntouched, DroppedAreLost, JobShape, Idle, NoJob, At
<1>3. CASE PeerGoes(c)
  BY <1>3 DEF PeerGoes, MembersAreServed, NewAreUntouched, DroppedAreLost, JobShape, Idle, NoJob, At
<1>4. ASSUME HandlerLeaves(c), stage[c] \notin {"new", "gone"}, UNCHANGED view
      PROVE  HubInv'
  BY <1>4 DEF HandlerLeaves, Forget, MembersAreServed, NewAreUntouched, DroppedAreLost, JobShape, Idle, NoJob, At
<1>5. CASE Refuse(c)
  BY <1>4, <1>5 DEF Refuse
<1>6. CASE ReadEnds(c)
  BY <1>4, <1>6 DEF ReadEnds
<1>7. CASE WriteFirst(c)
  <2>1. CASE WriteFails(c) /\ HandlerLeaves(c)
    BY <1>4, <1>7, <2>1 DEF WriteFirst, WriteFails
  <2>2. CASE ~(WriteFails(c) /\ HandlerLeaves(c))
    <3>1. /\ stage[c] = "loaded" /\ c \notin closed
          /\ stage' = [stage EXCEPT ![c] = "open"]
          /\ view' \in [Conns -> Values \union {NoValue}]
          /\ UNCHANGED <<members, dropped, closed, absent, first, job, overtaken>>
      BY <1>7, <2>2 DEF WriteFirst, WriteOK
    <3>2. HubTypeOK'
      BY <3>1
    <3>3. MembersAreServed' /\ NewAreUntouched' /\ DroppedAreLost'
      BY <3>1 DEF MembersAreServed, NewAreUntouched, DroppedAreLost
    <3>4. JobShape'
      BY <3>1 DEF JobShape, Idle, NoJob, At
    <3> QED
      BY <3>2, <3>3, <3>4
  <2> QED
    BY <2>1, <2>2
<1>8. CASE HandlerReturns(c)
  BY <1>8 DEF HandlerReturns, Close, MembersAreServed, NewAreUntouched, DroppedAreLost, JobShape, Idle, NoJob, At
<1> QED
  BY <1>1, <1>2, <1>3, <1>5, <1>6, <1>7, <1>8 DEF Handle

\* A write of a broadcast keeps the invariant, whether it succeeds or removes
\* the client (BroadcastRoomUpdate, BroadcastCurrentRoom).
LEMMA CastToInv ==
    ASSUME HubInv, NEW i \in Instances, NEW c \in Conns, CastTo(i, c)
    PROVE  HubInv'
<1> USE DEF HubInv, HubTypeOK, handlerVars
<1>1. stage[c] # "new" /\ job[i].value \in Values /\ job[i] \in Jobs
  BY DEF CastTo, NewAreUntouched, DroppedAreLost, JobShape, Idle, NoJob, Jobs
<1> DEFINE j == [job[i] EXCEPT !.left = @ \ {c}]
<1>2. /\ job' \in [Instances -> Jobs] /\ job'[i] = j
      /\ \A k \in Instances \ {i} : job'[k] = job[k]
  <2>1. j \in Jobs /\ job' = [job EXCEPT ![i] = j]
    BY <1>1 DEF CastTo, Jobs
  <2> QED
    BY <2>1, JobStep
<1>3. HubTypeOK'
  BY <1>1, <1>2 DEF CastTo, WriteOK, WriteFails, Drop, Forget, Jobs
<1>4. MembersAreServed'
  BY <1>1 DEF CastTo, WriteOK, WriteFails, Drop, Forget, MembersAreServed
<1>5. NewAreUntouched' /\ DroppedAreLost'
  BY <1>1, <1>2 DEF CastTo, WriteOK, WriteFails, Drop, Forget, NewAreUntouched, DroppedAreLost
<1>6. JobShape'
  <2>1. j.left \subseteq job[i].left /\ j.value # NoValue
    BY <1>1 DEF Jobs
  <2> QED
    BY <1>1, <1>2, <2>1 DEF JobShape, Idle, At
<1> QED
  BY <1>3, <1>4, <1>5, <1>6

\* A broadcast that closes the client it has taken out keeps the invariant
\* (removeClient, removeCurrentRoomClient).
LEMMA CloseDroppedInv ==
    ASSUME HubInv, NEW c \in Conns, CloseDropped(c)
    PROVE  HubInv'
  BY DEF CloseDropped, Close, handlerVars, HubInv, HubTypeOK, MembersAreServed,
         NewAreUntouched, DroppedAreLost, JobShape, Idle, At

\* A broadcast that begins, takes its list or ends, and a process that stops,
\* keep the invariant.
LEMMA InstanceInv ==
    ASSUME HubInv, NEW i \in Instances,
           \/ ListClients(i) \/ EndCast(i) \/ StopHub(i)
           \/ \E v \in Values : BeginCast(i, v)
    PROVE  HubInv'
<1> USE DEF HubInv, HubTypeOK, handlerVars
<1>1. ASSUME NEW j \in Jobs, job' = [job EXCEPT ![i] = j],
             j.left \subseteq members \intersect At(i), j.value = NoValue => j = NoJob,
             UNCHANGED <<handlerVars, members, dropped, closed, absent, view, overtaken>>
      PROVE  HubInv'
  <2>1. /\ job' \in [Instances -> Jobs] /\ job'[i] = j
        /\ \A k \in Instances \ {i} : job'[k] = job[k]
    BY <1>1, JobStep
  <2>2. HubTypeOK' /\ MembersAreServed'
    BY <1>1, <2>1 DEF MembersAreServed, Jobs
  <2>3. NewAreUntouched' /\ DroppedAreLost'
    BY <1>1, <2>1 DEF NewAreUntouched, DroppedAreLost
  <2>4. JobShape'
    BY <1>1, <2>1 DEF JobShape, Idle, At
  <2> QED
    BY <2>2, <2>3, <2>4
<1>2. CASE ListClients(i)
  <2> DEFINE j == [job[i] EXCEPT !.listed = TRUE, !.left = members \intersect At(i)]
  <2>1. j \in Jobs /\ j.left = members \intersect At(i) /\ j.value # NoValue
    BY <1>2 DEF ListClients, Jobs
  <2> QED
    BY <1>1, <1>2, <2>1 DEF ListClients
<1>3. CASE EndCast(i)
  <2>1. NoJob \in Jobs /\ NoJob.left = {}
    BY DEF NoJob, Jobs
  <2> QED
    BY <1>1, <1>3, <2>1 DEF EndCast
<1>4. CASE StopHub(i)
  BY <1>4 DEF StopHub, MembersAreServed, NewAreUntouched, DroppedAreLost, JobShape, Idle, NoJob, At
<1>5. CASE \E v \in Values : BeginCast(i, v)
  <2>1. PICK v \in Values : BeginCast(i, v)
    BY <1>5
  <2> DEFINE j == [NoJob EXCEPT !.value = v]
  <2>2. job' = [job EXCEPT ![i] = j]
    BY <2>1 DEF BeginCast, Idle
  <2>3. NoJob \in Jobs /\ NoJob.left = {}
    BY DEF NoJob, Jobs
  <2>4. j \in Jobs /\ j.left = {} /\ j.value # NoValue
    BY <2>3 DEF Jobs
  <2> QED
    BY <1>1, <2>1, <2>2, <2>4 DEF BeginCast
<1> QED
  BY <1>2, <1>3, <1>4, <1>5

\* Every step of the hub keeps the invariant.
LEMMA HubNextInv == HubInv /\ [HubNext]_hubVars => HubInv'
<1> SUFFICES ASSUME HubInv, [HubNext]_hubVars PROVE HubInv'
  OBVIOUS
<1>1. CASE UNCHANGED hubVars
  BY <1>1 DEF hubVars, handlerVars, HubInv, HubTypeOK, MembersAreServed, NewAreUntouched,
              DroppedAreLost, JobShape, Idle, At
<1>2. CASE HubNext
  BY <1>2, HandlerInv, CastToInv, CloseDroppedInv, InstanceInv DEF HubNext, Cast, At
<1> QED
  BY <1>1, <1>2

\* The inductive invariant of the hub holds in every state.
THEOREM HubInvariance == HubSpec => []HubInv
  BY HubInitInv, HubNextInv, PTL DEF HubSpec

(***************************************************************************)
(* The map of the hub is exact whatever is shown to its clients: the       *)
(* handler and a failed broadcast may remove a connection, in two steps    *)
(* each and in any order, and none is left in the map served by nobody, or *)
(* out of it and open with nobody about to close it (removeClient,         *)
(* removeCurrentRoomClient).                                               *)
(***************************************************************************)
THEOREM HubMembership == HubSpec => []MembersAreServed
<1>1. HubInv => MembersAreServed
  BY DEF HubInv
<1> QED
  BY <1>1, HubInvariance, PTL
=============================================================================
