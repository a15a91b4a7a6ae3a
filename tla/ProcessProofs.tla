--------------------------- MODULE ProcessProofs ---------------------------
(***************************************************************************)
(* Proofs about the two programs: Process (the application), for any sets  *)
(* of requests, WebSocket handlers and loops, and any bound on the fetched *)
(* events, and ChampionCatalog (the champion service and its client), for  *)
(* any members, champions and number of picks.                             *)
(*                                                                         *)
(* Process: where main stands determines what is open (OpenByStep)         *)
(* and which goroutines may be busy (BusyByStep): requests only while the  *)
(* server runs or shuts down, events only until the consumer has closed or *)
(* main has given up on it, loops only once Run has begun.                 *)
(*                                                                         *)
(* ChampionCatalog: where the champion service stands determines what it   *)
(* reports and that its catalog is loaded (ServiceByStage); a call belongs *)
(* to one member of a running synchronization (CallByStage), which keeps   *)
(* the names it collects under the session it has read (PlayersBySession). *)
(***************************************************************************)
EXTENDS Process, ChampionCatalog, TLAPS

\* What is open, from where main stands, but for a NATS connection given up.
OpenByStep ==
    /\ main \in Connections \union {"streams"} => open \subseteq {"db", "redis", "nats"}
    /\ main \in {"subscribe", "consume", "run", "serving", "shutdown", "drain events",
                 "draining", "close grpc"} => open \in {Connections, Connections \ {"nats"}}
    /\ main \in {"streams", "grpc", "subscribe", "consume", "run", "serving", "shutdown",
                 "drain events", "draining", "close grpc", "close nats"} /\ ~Receiving => lost
    /\ main \in {"close nats", "close redis", "close db", "wait db", "exited"}
          => "grpc" \notin open
    /\ main \in {"close redis", "close db", "wait db", "exited"} /\ "nats" \in open => draining
    /\ main \in {"close db", "wait db", "exited"} => "redis" \notin open
    /\ main \in {"wait db", "exited"} => "db" \notin open
    /\ draining => main \in {"close redis", "close db", "wait db", "exited"}

\* What New opens is opened in this order.
OpenInOrder ==
    /\ main = "db" => open = {}
    /\ main = "redis" => open = {"db"}
    /\ main = "nats" => open = {"db", "redis"}
    /\ main \in {"streams", "grpc"} => open \in {{"db", "redis", "nats"}, {"db", "redis"}}
    /\ main = "unwind" =>
          open \in {{}, {"db"}, {"db", "redis"}, {"db", "redis", "nats"},
                    {"db", "redis", "grpc"}, Connections}

\* Who may be busy, from where main stands.
BusyByStep ==
    /\ main \in Starting \union {"unwind", "run"} => http = "off" /\ ticking = {}
    /\ main \in Starting \union {"unwind"} => consumer = "off"
    /\ http = "on" => main = "serving"
    /\ http = "closing" => main \in {"shutdown", "killed"}
    /\ Busy(Requests) => main \in {"serving", "shutdown", "killed"}
    /\ main \in {"shutdown"} \union Closing => signal
    /\ main \in Starting \union {"unwind", "run"} => ~Busy(Tickers)
    /\ main \in {"run", "serving", "shutdown", "drain events"} => consumer = "on"
    /\ main \in {"close grpc", "close nats", "close redis", "close db", "wait db"} /\ ~gaveUp
          => consumer = "closed"
    /\ consumer \in {"off", "closed"} => backlog = 0 /\ using["events"] = "none"

ProcInv ==
    /\ TypeOK /\ OpenByStep /\ OpenInOrder /\ BusyByStep
    /\ ConnectionsOutliveTheirUsers /\ NormalExitIsClean

USE ProcessAssumption

\* The initial state satisfies the inductive invariant.
LEMMA InitProcInv == Init => ProcInv
<1> SUFFICES ASSUME Init PROVE ProcInv
  OBVIOUS
<1>1. TypeOK
  <2>1. backlog \in 0..MaxBacklog /\ using \in [Workers -> Connections \union {"none"}]
    BY DEF Init
  <2> QED
    BY <2>1 DEF Init, TypeOK, Starting
<1>2. OpenByStep /\ OpenInOrder
  BY DEF Init, OpenByStep, OpenInOrder, Connections
<1>3. \A w \in Workers : using[w] = "none"
  BY DEF Init
<1>4. BusyByStep
  BY <1>3 DEF Init, BusyByStep, Busy, Starting, Closing, Workers, Callbacks
<1>5. ConnectionsOutliveTheirUsers /\ NormalExitIsClean
  BY DEF Init, ConnectionsOutliveTheirUsers, NormalExitIsClean
<1> QED
  BY <1>1, <1>2, <1>4, <1>5 DEF ProcInv

\* New keeps the invariant, also where one of its steps fails.
LEMMA NewInv == ProcInv /\ New => ProcInv'
<1> SUFFICES ASSUME ProcInv, New PROVE ProcInv'
  OBVIOUS
<1> USE DEF ProcInv, TypeOK, OpenByStep, OpenInOrder, BusyByStep, Busy, Starting, Closing,
            Ended, Connections, ConnectionsOutliveTheirUsers, NormalExitIsClean, LeftOpen,
            GoTo, Receiving
<1>1. CASE OpenConnection
  <2>1. TypeOK'
    BY <1>1 DEF OpenConnection
  <2>2. OpenByStep'
    BY <1>1, ZenonT(30) DEF OpenConnection
  <2>3. OpenInOrder'
    BY <1>1 DEF OpenConnection
  <2>4. BusyByStep'
    BY <1>1 DEF OpenConnection
  <2>5. ConnectionsOutliveTheirUsers' /\ NormalExitIsClean'
    BY <1>1 DEF OpenConnection
  <2> HIDE DEF TypeOK, OpenByStep, OpenInOrder, BusyByStep, ConnectionsOutliveTheirUsers,
               NormalExitIsClean
  <2> QED
    BY <2>1, <2>2, <2>3, <2>4, <2>5
<1>2. CASE EnsureStreams
  BY <1>2 DEF EnsureStreams
<1>7. CASE Subscribe
  BY <1>7 DEF Subscribe
<1>8. CASE SubscribeFails
  BY <1>8 DEF SubscribeFails
<1>3. CASE StartGameEventsConsumer
  BY <1>3 DEF StartGameEventsConsumer
<1>4. CASE StartServing
  BY <1>4 DEF StartServing
<1>5. CASE StartFails
  BY <1>5 DEF StartFails
<1>6. CASE Unwind
  <2>1. TypeOK'
    BY <1>6 DEF Unwind
  <2>2. OpenByStep'
    BY <1>6 DEF Unwind
  <2>3. OpenInOrder'
    BY <1>6 DEF Unwind
  <2>4. BusyByStep'
    BY <1>6 DEF Unwind
  <2>5. ConnectionsOutliveTheirUsers' /\ NormalExitIsClean'
    BY <1>6 DEF Unwind
  <2> HIDE DEF TypeOK, OpenByStep, OpenInOrder, BusyByStep, ConnectionsOutliveTheirUsers,
               NormalExitIsClean
  <2> QED
    BY <2>1, <2>2, <2>3, <2>4, <2>5
<1> QED
  BY <1>1, <1>2, <1>3, <1>4, <1>5, <1>6, <1>7, <1>8 DEF New, Start

\* Run keeps the invariant.
LEMMA RunInv == ProcInv /\ Run => ProcInv'
<1> SUFFICES ASSUME ProcInv, Run PROVE ProcInv'
  OBVIOUS
<1> USE DEF ProcInv, TypeOK, OpenByStep, OpenInOrder, BusyByStep, Busy, Starting, Closing,
            Ended, Connections, ConnectionsOutliveTheirUsers, NormalExitIsClean, LeftOpen,
            GoTo, Receiving
<1>1. CASE ServeFails
  BY <1>1 DEF ServeFails
<1>2. CASE BeginShutdown
  BY <1>2 DEF BeginShutdown
<1>3. CASE EndShutdown
  BY <1>3 DEF EndShutdown
<1>4. CASE ShutdownTimesOut
  BY <1>4 DEF ShutdownTimesOut
<1> QED
  BY <1>1, <1>2, <1>3, <1>4 DEF Run

\* Close keeps the invariant: each connection is closed after its users are done.
LEMMA CloseInv == ProcInv /\ Close => ProcInv'
<1> SUFFICES ASSUME ProcInv, Close PROVE ProcInv'
  OBVIOUS
<1> USE DEF ProcInv, TypeOK, OpenByStep, OpenInOrder, BusyByStep, Busy, Starting, Closing,
            Ended, Connections, ConnectionsOutliveTheirUsers, NormalExitIsClean, LeftOpen,
            GoTo, Receiving
<1>1. CASE BeginDrain
  BY <1>1 DEF BeginDrain
<1>2. CASE EndDrain
  BY <1>2 DEF EndDrain
<1>7. CASE DrainTimesOut
  BY <1>7 DEF DrainTimesOut
<1>3. CASE CloseGrpc
  BY <1>3 DEF CloseGrpc
<1>4. CASE DrainNats
  BY <1>4 DEF DrainNats
<1>5. CASE CloseRedis
  <2>1. TypeOK'
    BY <1>5 DEF CloseRedis
  <2>2. OpenByStep' /\ OpenInOrder'
    BY <1>5 DEF CloseRedis
  <2>3. BusyByStep'
    BY <1>5 DEF CloseRedis
  <2>4. ConnectionsOutliveTheirUsers' /\ NormalExitIsClean'
    BY <1>5 DEF CloseRedis
  <2> QED
    BY <2>1, <2>2, <2>3, <2>4
<1>8. CASE CloseDB
  <2>1. TypeOK'
    BY <1>8 DEF CloseDB
  <2>2. OpenByStep' /\ OpenInOrder'
    BY <1>8 DEF CloseDB
  <2>3. BusyByStep'
    BY <1>8 DEF CloseDB
  <2>4. ConnectionsOutliveTheirUsers' /\ NormalExitIsClean'
    BY <1>8 DEF CloseDB
  <2> QED
    BY <2>1, <2>2, <2>3, <2>4
<1>6. CASE Exit
  <2>1. main = "wait db" /\ main' = "exited" /\ UNCHANGED <<open, draining, using>>
    BY <1>6 DEF Exit
  <2>2. LeftOpen' = {}
    <3>1. open \subseteq {"nats"}
      BY <2>1
    <3>2. "nats" \in open => draining
      BY <2>1
    <3> QED
      BY <2>1, <3>1, <3>2
  <2>3. TypeOK' /\ OpenByStep' /\ OpenInOrder' /\ BusyByStep'
    BY <1>6 DEF Exit
  <2>4. ConnectionsOutliveTheirUsers' /\ NormalExitIsClean'
    BY <1>6, <2>2 DEF Exit
  <2> QED
    BY <2>3, <2>4
<1> QED
  BY <1>1, <1>2, <1>3, <1>4, <1>5, <1>6, <1>7, <1>8 DEF Close

\* The bound on the fetched events: one more below it, one less above zero.
LEMMA OneMoreOrLess ==
    ASSUME NEW b \in 0..MaxBacklog
    PROVE  /\ 0 \in 0..MaxBacklog
           /\ b < MaxBacklog => b + 1 \in 0..MaxBacklog
           /\ b > 0 => b - 1 \in 0..MaxBacklog
  OBVIOUS

\* While main stands still, so does what depends on it alone.
LEMMA MainStill ==
    ASSUME ProcInv, UNCHANGED mainVars
    PROVE  OpenByStep' /\ OpenInOrder'
<1>1. OpenByStep'
  BY DEF ProcInv, OpenByStep, Receiving, mainVars
<1>2. OpenInOrder'
  BY DEF ProcInv, OpenInOrder, mainVars
<1> QED
  BY <1>1, <1>2

\* The type of the state, as a step of a goroutine leaves it.
LEMMA WorkerTypes ==
    ASSUME TypeOK, UNCHANGED <<mainVars, signal>>,
           using' \in [Workers -> Connections \union {"none"}], cut' \subseteq Workers,
           backlog' \in 0..MaxBacklog, consumer' \in {"off", "on", "draining", "closed"}
    PROVE  TypeOK'
  BY DEF TypeOK, mainVars

\* A goroutine that turns to a connection keeps the invariant.
LEMMA UseInv ==
    ASSUME ProcInv, NEW w \in Workers, NEW r \in Connections, Use(w, r)
    PROVE  ProcInv'
<1> USE DEF ProcInv, Busy, Ended
<1>1. /\ UNCHANGED <<mainVars, consumer, signal>> /\ main \notin Ended
      /\ \A v \in Workers \ {w} : using'[v] = using[v]
      /\ using' \in [Workers -> Connections \union {"none"}]
  BY DEF Use, TypeOK
<1>2. using[w] = "none" => MayBegin(w)
  BY DEF Use, TypeOK
<1>3. CASE w \in Requests
  <2>1. w \notin Tickers /\ w # "events" /\ w # "rooms"
    BY <1>3 DEF Callbacks
  <2>2. Busy(Requests) \/ http \in {"on", "closing"}
    BY <1>2, <1>3 DEF MayBegin
  <2>3. main \in {"serving", "shutdown"}
    BY <1>1, <2>2 DEF BusyByStep
  <2>4. r \notin open => r = "nats" /\ lost
    BY <2>3 DEF OpenByStep, Connections, Receiving
  <2>5. cut' = cut /\ backlog' = backlog
    <3>1. CASE r \in open
      BY <2>1, <3>1 DEF Use, TypeOK
    <3>2. CASE r \notin open
      BY <2>1, <2>4, <3>2 DEF Use, TypeOK
    <3> QED
      BY <3>1, <3>2
  <2>6. TypeOK' /\ OpenByStep' /\ OpenInOrder'
    BY <1>1, <2>5, MainStill, WorkerTypes DEF TypeOK
  <2>7. BusyByStep'
    BY <1>1, <2>1, <2>3, <2>5 DEF BusyByStep, mainVars, Starting, Closing, Workers, Callbacks
  <2>8. ConnectionsOutliveTheirUsers' /\ NormalExitIsClean'
    BY <1>1, <2>3, <2>5 DEF mainVars, ConnectionsOutliveTheirUsers, NormalExitIsClean
  <2> QED
    BY <2>6, <2>7, <2>8
<1>4. CASE w = "events"
  <2>1. w \notin Requests /\ w \notin Tickers
    BY <1>4 DEF Callbacks
  <2>2. consumer \notin {"off", "closed"} /\ backlog' \in 0..MaxBacklog
    <3>1. CASE using[w] = "none"
      <4>1. backlog > 0
        BY <1>2, <1>4, <3>1 DEF MayBegin
      <4>2. backlog' = backlog - 1
        BY <1>4, <3>1 DEF Use
      <4>3. backlog' \in 0..MaxBacklog
        BY <4>1, <4>2, OneMoreOrLess DEF TypeOK
      <4>4. consumer \in {"off", "closed"} => backlog = 0
        BY DEF BusyByStep
      <4> QED
        <5> HIDE DEF ProcInv
        <5> QED
          BY <4>1, <4>3, <4>4
    <3>2. CASE using[w] # "none"
      BY <1>4, <3>2 DEF Use, BusyByStep, TypeOK
    <3> QED
      BY <3>1, <3>2
  <2>3. "events" \in cut' => gaveUp'
    <3>1. CASE gaveUp \/ cut' = cut
      BY <1>1, <3>1 DEF mainVars, ConnectionsOutliveTheirUsers
    <3>2. CASE ~gaveUp /\ cut' # cut
      <4>1. r \notin open /\ ~(r = "nats" /\ lost)
        BY <3>2 DEF Use, TypeOK
      <4>2. main \notin {"close nats", "close redis", "close db", "wait db"}
        BY <2>2, <3>2 DEF BusyByStep
      <4> QED
        BY <1>1, <2>2, <4>1, <4>2 DEF TypeOK, BusyByStep, OpenByStep, Starting, Closing,
                                      Connections, Receiving
    <3> QED
      BY <3>1, <3>2
  <2>4. cut' \subseteq Workers /\ (cut' \ cut) \subseteq {"events"}
    BY <1>4 DEF Use, TypeOK
  <2>5. TypeOK' /\ OpenByStep' /\ OpenInOrder'
    BY <1>1, <2>2, <2>4, MainStill, WorkerTypes DEF TypeOK
  <2>6. BusyByStep'
    BY <1>1, <2>1, <2>2 DEF BusyByStep, mainVars, Starting, Closing, Workers, Callbacks
  <2>7. ConnectionsOutliveTheirUsers' /\ NormalExitIsClean'
    BY <1>1, <1>4, <2>1, <2>3, <2>4 DEF mainVars, ConnectionsOutliveTheirUsers, NormalExitIsClean
  <2> QED
    BY <2>5, <2>6, <2>7
<1>5. CASE w = "rooms" \/ w \in Sockets
  <2>1. w \notin Requests /\ w \notin Tickers /\ w # "events"
    BY <1>5 DEF Callbacks
  <2>2. backlog' = backlog /\ cut' \subseteq Workers /\ (cut' \ cut) \subseteq {w}
    BY <2>1 DEF Use, TypeOK
  <2>3. TypeOK' /\ OpenByStep' /\ OpenInOrder'
    BY <1>1, <2>2, MainStill, WorkerTypes DEF TypeOK
  <2>4. BusyByStep'
    BY <1>1, <2>1, <2>2 DEF BusyByStep, mainVars, Starting, Closing, Workers, Callbacks
  <2>5. ConnectionsOutliveTheirUsers' /\ NormalExitIsClean'
    BY <1>1, <2>1, <2>2 DEF mainVars, ConnectionsOutliveTheirUsers, NormalExitIsClean
  <2> QED
    BY <2>3, <2>4, <2>5
<1>6. CASE w \in Tickers
  <2>1. w \notin Requests /\ w # "events"
    BY <1>6 DEF Callbacks
  <2>2. main \notin Starting \union {"unwind", "run"}
    BY <1>2, <1>6 DEF MayBegin, BusyByStep
  <2>3. signal \/ (r \notin open => r = "nats" /\ lost)
    BY <1>1, <2>2 DEF TypeOK, BusyByStep, OpenByStep, Closing, Connections, Receiving
  <2>4. backlog' = backlog /\ cut' \subseteq Workers /\ (cut' \ cut) \subseteq {w}
        /\ (cut' # cut => r \notin open /\ ~(r = "nats" /\ lost))
    BY <2>1 DEF Use, TypeOK
  <2>5. TypeOK' /\ OpenByStep' /\ OpenInOrder'
    BY <1>1, <2>4, MainStill, WorkerTypes DEF TypeOK
  <2>6. BusyByStep'
    BY <1>1, <2>1, <2>2, <2>4 DEF BusyByStep, mainVars, Workers, Callbacks
  <2>7. ConnectionsOutliveTheirUsers' /\ NormalExitIsClean'
    BY <1>1, <2>1, <2>3, <2>4 DEF mainVars, ConnectionsOutliveTheirUsers, NormalExitIsClean
  <2> QED
    BY <2>5, <2>6, <2>7
<1> QED
  BY <1>3, <1>4, <1>5, <1>6 DEF Workers, Callbacks

\* What the other goroutines, the library and the operating system do keeps the
\* invariant.
LEMMA OthersInv ==
    ASSUME ProcInv,
           \/ \E w \in Workers : Finish(w)
           \/ \E w \in Tickers : TickerReturns(w)
           \/ Fetch \/ ConsumerCloses \/ NatsCloses \/ NatsGivesUp \/ Signal
    PROVE  ProcInv'
<1> USE DEF ProcInv, TypeOK, OpenByStep, OpenInOrder, BusyByStep, Busy, Starting, Closing,
            Ended, Connections, ConnectionsOutliveTheirUsers, NormalExitIsClean, LeftOpen,
            mainVars, Receiving
<1>1. ASSUME NEW w \in Workers, Finish(w) PROVE ProcInv'
  <2>1. /\ UNCHANGED <<mainVars, consumer, backlog, signal, cut>> /\ main \notin Ended
        /\ using' \in [Workers -> Connections \union {"none"}]
        /\ \A v \in Workers : using'[v] \in {using[v], "none"}
    BY <1>1 DEF Finish
  <2>2. TypeOK' /\ OpenByStep' /\ OpenInOrder'
    <3> HIDE DEF ProcInv, TypeOK, OpenByStep, OpenInOrder, mainVars
    <3>1. TypeOK
      BY DEF ProcInv
    <3> QED
      BY <2>1, <3>1, MainStill, WorkerTypes DEF TypeOK
  <2>3. BusyByStep'
    BY <2>1 DEF Workers, Callbacks
  <2>4. ConnectionsOutliveTheirUsers' /\ NormalExitIsClean'
    BY <2>1
  <2> QED
    BY <2>2, <2>3, <2>4
<1>2. ASSUME NEW w \in Tickers, TickerReturns(w) PROVE ProcInv'
  <2>1. TypeOK'
    BY <1>2, ZenonT(30) DEF TickerReturns
  <2>2. OpenByStep' /\ OpenInOrder'
    <3>1. UNCHANGED <<main, open, draining, lost>>
      BY <1>2 DEF TickerReturns
    <3> HIDE DEF TypeOK, BusyByStep, ConnectionsOutliveTheirUsers, NormalExitIsClean
    <3> QED
      BY <3>1
  <2>3. BusyByStep'
    BY <1>2 DEF TickerReturns
  <2>4. ConnectionsOutliveTheirUsers' /\ NormalExitIsClean'
    BY <1>2 DEF TickerReturns
  <2> HIDE DEF TypeOK, OpenByStep, OpenInOrder, BusyByStep, ConnectionsOutliveTheirUsers,
               NormalExitIsClean
  <2> QED
    BY <2>1, <2>2, <2>3, <2>4
<1>3. CASE Fetch
  <2>1. TypeOK'
    <3> HIDE DEF ProcInv, TypeOK, mainVars
    <3>1. TypeOK
      BY DEF ProcInv
    <3>2. backlog' \in 0..MaxBacklog
      <4>1. backlog \in 0..MaxBacklog /\ backlog < MaxBacklog /\ backlog' = backlog + 1
        BY <1>3, <3>1 DEF Fetch, TypeOK
      <4> QED
        BY <4>1, OneMoreOrLess
    <3> QED
      BY <1>3, <3>1, <3>2, WorkerTypes DEF Fetch, TypeOK
  <2>2. OpenByStep' /\ OpenInOrder'
    BY <1>3 DEF Fetch
  <2>3. BusyByStep'
    BY <1>3 DEF Fetch
  <2>4. ConnectionsOutliveTheirUsers' /\ NormalExitIsClean'
    BY <1>3 DEF Fetch
  <2> QED
    BY <2>1, <2>2, <2>3, <2>4
<1>4. CASE ConsumerCloses
  <2>1. TypeOK'
    BY <1>4 DEF ConsumerCloses
  <2>2. OpenByStep' /\ OpenInOrder'
    BY <1>4 DEF ConsumerCloses
  <2>3. BusyByStep'
    BY <1>4 DEF ConsumerCloses
  <2>4. ConnectionsOutliveTheirUsers' /\ NormalExitIsClean'
    BY <1>4 DEF ConsumerCloses
  <2> QED
    BY <2>1, <2>2, <2>3, <2>4
<1>5. CASE NatsCloses \/ NatsGivesUp
  <2>1. /\ open' = open \ {"nats"} /\ backlog' = 0 /\ "nats" \in open /\ main \notin Ended
        /\ UNCHANGED <<main, draining, subscribed, consumer, http, ticking, using, signal,
                       gaveUp, cut>>
    BY <1>5 DEF NatsCloses, NatsGivesUp, CloseNats
  <2>2. lost' \in BOOLEAN /\ (lost' \/ draining)
    <3> HIDE DEF ProcInv
    <3>1. CASE NatsCloses
      <4>1. draining /\ lost' = lost
        BY <3>1 DEF NatsCloses
      <4>2. lost \in BOOLEAN
        BY DEF ProcInv
      <4> QED
        BY <4>1, <4>2, Zenon
    <3>2. CASE NatsGivesUp
      BY <3>2 DEF NatsGivesUp
    <3> QED
      BY <1>5, <3>1, <3>2
  <2>3. TypeOK'
    <3>1. TypeOK
      BY DEF ProcInv
    <3> HIDE DEF ProcInv, OpenByStep, OpenInOrder, BusyByStep, ConnectionsOutliveTheirUsers,
                 NormalExitIsClean
    <3> QED
      <4>1. backlog \in 0..MaxBacklog
        BY <3>1
      <4>2. backlog' \in 0..MaxBacklog
        BY <2>1, <4>1, OneMoreOrLess
      <4> QED
        BY <2>1, <2>2, <3>1, <4>2, ZenonT(30)
  <2>4. OpenByStep' /\ OpenInOrder'
    <3> HIDE DEF TypeOK, BusyByStep, ConnectionsOutliveTheirUsers, NormalExitIsClean
    <3> QED
      BY <2>1, <2>2
  <2>5. BusyByStep'
    BY <2>1
  <2>6. ConnectionsOutliveTheirUsers' /\ NormalExitIsClean'
    BY <2>1
  <2> QED
    BY <2>3, <2>4, <2>5, <2>6
<1>6. CASE Signal
  <2>1. TypeOK'
    BY <1>6 DEF Signal
  <2>2. OpenByStep' /\ OpenInOrder'
    BY <1>6 DEF Signal
  <2>3. BusyByStep'
    BY <1>6 DEF Signal
  <2>4. ConnectionsOutliveTheirUsers' /\ NormalExitIsClean'
    BY <1>6 DEF Signal
  <2> QED
    BY <2>1, <2>2, <2>3, <2>4
<1> QED
  BY <1>1, <1>2, <1>3, <1>4, <1>5, <1>6

\* The inductive invariant holds in every state.
THEOREM ProcInvariance == Spec => []ProcInv
<1>1. ProcInv /\ [Next]_vars => ProcInv'
  <2> SUFFICES ASSUME ProcInv, [Next]_vars PROVE ProcInv'
    OBVIOUS
  <2>1. CASE UNCHANGED vars
    <3>1. OpenByStep' /\ OpenInOrder'
      BY <2>1, MainStill DEF vars
    <3>2. TypeOK'
      BY <2>1, WorkerTypes DEF vars, ProcInv, TypeOK
    <3>3. BusyByStep'
      BY <2>1 DEF vars, mainVars, ProcInv, BusyByStep, Busy
    <3>4. ConnectionsOutliveTheirUsers' /\ NormalExitIsClean'
      BY <2>1 DEF vars, mainVars, ProcInv, ConnectionsOutliveTheirUsers, NormalExitIsClean,
                  LeftOpen
    <3> QED
      BY <3>1, <3>2, <3>3, <3>4 DEF ProcInv
  <2>2. CASE New \/ Run \/ Close
    BY <2>2, NewInv, RunInv, CloseInv
  <2>3. CASE \E w \in Workers, r \in Connections : Use(w, r)
    BY <2>3, UseInv
  <2>4. CASE \/ \E w \in Workers : Finish(w)
             \/ \E w \in Tickers : TickerReturns(w)
             \/ Fetch \/ ConsumerCloses \/ NatsCloses \/ NatsGivesUp \/ Signal
    BY <2>4, OthersInv
  <2> QED
    BY <2>1, <2>2, <2>3, <2>4 DEF Next
<1> QED
  BY <1>1, InitProcInv, PTL DEF Spec

(***************************************************************************)
(* The state of the process has its declared type.                         *)
(***************************************************************************)
THEOREM ProcessTypes == Spec => []TypeOK
<1>1. ProcInv => TypeOK
  BY DEF ProcInv
<1> QED
  BY <1>1, ProcInvariance, PTL

(***************************************************************************)
(* The process closes no connection under a request, under an event whose  *)
(* consumer was drained in time, or under a loop that has not been told to *)
(* stop, also when the NATS library has closed its own (Close's order;     *)
(* Run's wait for requests).                                               *)
(***************************************************************************)
THEOREM NothingCutShort == Spec => []ConnectionsOutliveTheirUsers
<1>1. ProcInv => ConnectionsOutliveTheirUsers
  BY DEF ProcInv
<1> QED
  BY <1>1, ProcInvariance, PTL

(***************************************************************************)
(* A process that ends because New failed or because it was asked to       *)
(* leaves no connection open and no database work unfinished (New's        *)
(* unwinding, Close).                                                      *)
(***************************************************************************)
THEOREM CleanExit == Spec => []NormalExitIsClean
<1>1. ProcInv => NormalExitIsClean
  BY DEF ProcInv
<1> QED
  BY <1>1, ProcInvariance, PTL

-----------------------------------------------------------------------------

\* Where the champion service stands, what it holds and what it reports.
ServiceByStage ==
    /\ service \in {"down", "loading", "versioned", "loaded"} => health = "unreachable"
    /\ service \in {"leaving", "stopping"} => health = "NOT_SERVING"
    /\ service = "serving" => health = "SERVING"
    /\ service = "listening" => health \in {"unreachable", "SERVING"}
    /\ service \in {"loaded", "listening", "serving", "leaving", "stopping"}
          => catalog = versioned

\* A call is made for one member during a synchronization, and handled by a
\* service that has begun to serve.
CallByStage ==
    /\ call = "none" => asked = {}
    /\ call # "none" => syncing /\ \E m \in Members \ todo : asked = {m}
    /\ call = "handled" \/ ghost => service \in {"serving", "leaving", "stopping"}

\* The players being collected, and those of the room.
PlayersBySession ==
    /\ syncing => seen \in sessions
    /\ \A m \in Members : names[m] \in {seen[m], Unknown}
    /\ PlayersAreOneSession

\* No champion is known before Data Dragon has released it.
ReleasedFirst ==
    /\ versioned \subseteq released /\ catalog \subseteq released
    /\ \A m \in Members :
          names[m] \in released \union {Unknown} /\ stored.names[m] \in released \union {Unknown}

CatalogInv ==
    CatalogTypeOK /\ ServiceByStage /\ CallByStage /\ PlayersBySession /\ ReleasedFirst

USE CatalogAssumption

\* The state keeps its declared type.
LEMMA CatalogTypes == CatalogTypeOK /\ [CatalogNext]_catalogVars => CatalogTypeOK'
<1> SUFFICES ASSUME CatalogTypeOK, [CatalogNext]_catalogVars PROVE CatalogTypeOK'
  OBVIOUS
<1> USE DEF CatalogTypeOK, serviceVars, worldVars, syncVars, callVars
<1>1. NoPicks \in Picks /\ NoNames \in [Members -> Names]
  BY DEF NoPicks, NoNames, Picks, Names
<1>2. CASE Release \/ Pick \/ Settle
  <2>1. CASE Release
    BY <2>1 DEF Release
  <2>2. CASE Pick
    BY <2>2 DEF Pick, Picks
  <2>3. CASE Settle
    BY <2>3 DEF Settle
  <2> QED
    BY <1>2, <2>1, <2>2, <2>3
<1>3. CASE Service \/ Leave \/ GracefulStop \/ ServiceFails
  <2>1. CASE Gone
    BY <2>1 DEF Gone
  <2>2. CASE StartService \/ LoadLatestVersion \/ LoadChampions \/ Listen
    BY <2>2 DEF StartService, LoadLatestVersion, LoadChampions, Listen, rest
  <2>3. CASE Serve \/ Leave \/ GracefulStop
    BY <2>3 DEF Serve, Leave, GracefulStop, rest
  <2> QED
    BY <1>3, <2>1, <2>2, <2>3 DEF Service, Stopped, StopTimesOut, ServiceFails
<1>4. CASE Sync
  <2>1. CASE BeginSync
    BY <1>1, <2>1 DEF BeginSync
  <2>2. ASSUME NEW m \in Members, Ask(m) PROVE CatalogTypeOK'
    BY <2>2 DEF Ask, syncRest
  <2>3. CASE ReplacePlayers
    BY <1>1, <2>3 DEF ReplacePlayers, Abandon
  <2>4. CASE ReplaceFails
    <3>1. CASE stored' = stored
      BY <1>1, <2>4, <3>1 DEF ReplaceFails, Abandon
    <3>2. CASE stored' = [champions |-> seen, names |-> names]
      BY <1>1, <2>4, <3>2 DEF ReplaceFails, Abandon
    <3> QED
      BY <2>4, <3>1, <3>2 DEF ReplaceFails
  <2>5. CASE Unavailable
    BY <1>1, <2>5 DEF Unavailable, FallBack, EndCall, Abandon, syncRest
  <2>6. CASE DeadlineExceeded
    BY <1>1, <2>6 DEF DeadlineExceeded, FallBack, EndCall, Abandon, syncRest
  <2> QED
    BY <1>4, <2>1, <2>2, <2>3, <2>4, <2>5, <2>6 DEF Sync
<1>5. CASE GetChampion
  <2>1. names' \in [Members -> Names]
    BY <1>5 DEF GetChampion, Names
  <2> QED
    BY <1>5, <2>1 DEF GetChampion, EndCall, syncRest
<1>6. CASE Accept \/ EndGhost
  <2>1. CASE Accept
    BY <2>1 DEF Accept, syncRest
  <2>2. CASE EndGhost
    BY <2>2 DEF EndGhost, syncRest
  <2> QED
    BY <1>6, <2>1, <2>2
<1>7. CASE Cancel
  BY <1>7 DEF Cancel
<1>8. CASE RestartApp
  BY <1>8 DEF RestartApp
<1>9. CASE UNCHANGED catalogVars
  BY <1>9 DEF catalogVars
<1> QED
  BY <1>2, <1>3, <1>4, <1>5, <1>6, <1>7, <1>8, <1>9 DEF CatalogNext

\* The service goes through its stages in order.
LEMMA ServiceStages == ServiceByStage /\ [CatalogNext]_catalogVars => ServiceByStage'
<1> SUFFICES ASSUME ServiceByStage, [CatalogNext]_catalogVars PROVE ServiceByStage'
  OBVIOUS
<1> USE DEF ServiceByStage
<1>1. CASE UNCHANGED serviceVars
  BY <1>1 DEF serviceVars
<1>2. CASE Service \/ Leave \/ GracefulStop \/ ServiceFails
  <2>1. CASE Gone
    BY <2>1 DEF Gone
  <2>2. CASE StartService \/ LoadLatestVersion \/ LoadChampions \/ Listen
    BY <2>2 DEF StartService, LoadLatestVersion, LoadChampions, Listen
  <2>3. CASE Serve \/ Leave \/ GracefulStop
    BY <2>3 DEF Serve, Leave, GracefulStop
  <2> QED
    BY <1>2, <2>1, <2>2, <2>3 DEF Service, Stopped, StopTimesOut, ServiceFails
<1> QED
  BY <1>1, <1>2
  DEF CatalogNext, catalogVars, Release, Pick, Settle, Sync, BeginSync, Ask, ReplacePlayers,
      ReplaceFails, Unavailable, DeadlineExceeded, Accept, GetChampion, EndGhost, Cancel,
      RestartApp, syncRest

\* A call belongs to one member, whoever gives up first.
LEMMA CallStages ==
  CatalogTypeOK /\ CallByStage /\ [CatalogNext]_catalogVars => CallByStage'
<1> SUFFICES ASSUME CatalogTypeOK, CallByStage, [CatalogNext]_catalogVars PROVE CallByStage'
  OBVIOUS
<1> USE DEF CallByStage, serviceVars, syncVars, callVars
<1>1. CASE UNCHANGED <<service, syncing, todo, callVars>>
  BY <1>1
<1>2. CASE Service \/ Leave \/ GracefulStop \/ ServiceFails
  <2>1. CASE Gone
    BY <2>1 DEF Gone
  <2>2. CASE StartService \/ LoadLatestVersion \/ LoadChampions \/ Listen
    BY <2>2 DEF StartService, LoadLatestVersion, LoadChampions, Listen, rest
  <2>3. CASE Serve \/ Leave \/ GracefulStop
    BY <2>3 DEF Serve, Leave, GracefulStop, rest
  <2> QED
    BY <1>2, <2>1, <2>2, <2>3 DEF Service, Stopped, StopTimesOut, ServiceFails
<1>3. CASE BeginSync \/ ReplacePlayers \/ ReplaceFails
  BY <1>3 DEF BeginSync, ReplacePlayers, ReplaceFails, AllAsked, Abandon, syncRest
<1>4. ASSUME NEW m \in Members, Ask(m) PROVE CallByStage'
  BY <1>4 DEF Ask, syncRest
<1>5. CASE Unavailable
  BY <1>5 DEF Unavailable, FallBack, EndCall, syncRest
<1>6. CASE DeadlineExceeded
  BY <1>6 DEF DeadlineExceeded, FallBack, EndCall, syncRest
<1>7. CASE Accept \/ GetChampion \/ EndGhost
  BY <1>7 DEF Accept, GetChampion, EndGhost, EndCall, syncRest
<1> QED
  BY <1>1, <1>2, <1>3, <1>4, <1>5, <1>6, <1>7
  DEF CatalogNext, catalogVars, Release, Pick, Settle, Sync, Cancel, RestartApp, serviceVars

\* The players are collected under the session that was read first.
LEMMA PlayersStay ==
  CatalogTypeOK /\ PlayersBySession /\ [CatalogNext]_catalogVars => PlayersBySession'
<1> SUFFICES ASSUME CatalogTypeOK, PlayersBySession, [CatalogNext]_catalogVars
             PROVE PlayersBySession'
  OBVIOUS
<1> USE DEF PlayersBySession, PlayersAreOneSession, syncVars
<1>1. CASE UNCHANGED <<syncVars, stored, sessions>>
  BY <1>1
<1>2. CASE BeginSync
  BY <1>2 DEF BeginSync, NoNames
<1>3. ASSUME NEW m \in Members, Ask(m) PROVE PlayersBySession'
  BY <1>3 DEF Ask, syncRest
<1>4. CASE GetChampion
  BY <1>4 DEF GetChampion, syncRest
<1>5. CASE Abandon /\ UNCHANGED <<stored, sessions>>
  BY <1>5 DEF Abandon, NoNames
<1>6. CASE ReplacePlayers \/ ReplaceFails
  BY <1>6 DEF ReplacePlayers, ReplaceFails, AllAsked, Abandon, NoNames
<1>7. CASE Unavailable \/ DeadlineExceeded
  BY <1>1, <1>5, <1>7 DEF Unavailable, DeadlineExceeded, FallBack, syncRest
<1>8. CASE Service \/ Leave \/ GracefulStop \/ ServiceFails
  BY <1>1, <1>8
  DEF Service, StartService, LoadLatestVersion, LoadChampions, Listen, Serve, Leave,
      GracefulStop, Stopped, StopTimesOut, ServiceFails, Gone, rest
<1> QED
  BY <1>1, <1>2, <1>3, <1>4, <1>6, <1>7, <1>8
  DEF CatalogNext, catalogVars, Release, Pick, Settle, Sync, Accept, EndGhost, Cancel,
      RestartApp, syncRest

\* Data Dragon only adds champions, and names come from the catalog.
LEMMA ReleasesStay ==
  CatalogTypeOK /\ ReleasedFirst /\ [CatalogNext]_catalogVars => ReleasedFirst'
<1> SUFFICES ASSUME CatalogTypeOK, ReleasedFirst, [CatalogNext]_catalogVars
             PROVE ReleasedFirst'
  OBVIOUS
<1> USE DEF ReleasedFirst, syncVars, serviceVars, worldVars
<1>1. CASE UNCHANGED <<released, versioned, catalog, names, stored>>
  BY <1>1
<1>2. CASE Release
  BY <1>2 DEF Release
<1>3. CASE Service \/ Leave \/ GracefulStop \/ ServiceFails
  BY <1>3
  DEF Service, StartService, LoadLatestVersion, LoadChampions, Listen, Serve, Leave,
      GracefulStop, Stopped, StopTimesOut, ServiceFails, Gone, rest
<1>4. CASE /\ names' = NoNames \/ names' = names
           /\ stored'.names = stored.names \/ stored'.names = names
           /\ UNCHANGED <<released, versioned, catalog>>
  BY <1>4 DEF NoNames
<1>5. CASE Sync
  <2>1. CASE BeginSync \/ ReplacePlayers \/ ReplaceFails
    BY <1>4, <2>1 DEF BeginSync, ReplacePlayers, ReplaceFails, Abandon, syncRest
  <2>2. CASE Unavailable \/ DeadlineExceeded \/ \E m \in Members : Ask(m)
    BY <1>4, <2>2 DEF Unavailable, DeadlineExceeded, FallBack, Ask, Abandon, syncRest
  <2> QED
    BY <1>5, <2>1, <2>2 DEF Sync
<1>6. CASE GetChampion
  BY <1>6 DEF GetChampion, syncRest
<1> QED
  BY <1>1, <1>2, <1>3, <1>5, <1>6
  DEF CatalogNext, catalogVars, Pick, Settle, Accept, EndGhost, Cancel, RestartApp, syncRest

\* The inductive invariant holds in every state.
THEOREM CatalogInvariance == CatalogSpec => []CatalogInv
<1>1. CatalogInit => CatalogInv
  <2> SUFFICES ASSUME CatalogInit PROVE CatalogInv
    OBVIOUS
  <2>1. CatalogTypeOK
    <3>1. NoPicks \in Picks /\ NoNames \in [Members -> Names]
      BY DEF NoPicks, NoNames, Picks, Names
    <3>2. 0 \in 0..MaxPicks
      OBVIOUS
    <3> QED
      BY <3>1, <3>2 DEF CatalogInit, CatalogTypeOK
  <2>2. ServiceByStage /\ CallByStage
    BY DEF CatalogInit, ServiceByStage, CallByStage
  <2>3. PlayersBySession /\ ReleasedFirst
    BY DEF CatalogInit, PlayersBySession, PlayersAreOneSession, ReleasedFirst, NoPicks, NoNames
  <2> QED
    BY <2>1, <2>2, <2>3 DEF CatalogInv
<1>2. CatalogInv /\ [CatalogNext]_catalogVars => CatalogInv'
  BY CatalogTypes, ServiceStages, CallStages, PlayersStay, ReleasesStay DEF CatalogInv
<1> QED
  BY <1>1, <1>2, PTL DEF CatalogSpec

(***************************************************************************)
(* The state of the champion service and of the synchronization has its    *)
(* declared type: what a member is stored under is always a name.          *)
(***************************************************************************)
THEOREM CatalogTypeCorrect == CatalogSpec => []CatalogTypeOK
<1>1. CatalogInv => CatalogTypeOK
  BY DEF CatalogInv
<1> QED
  BY <1>1, CatalogInvariance, PTL

(***************************************************************************)
(* SERVING is reported only while connections are accepted and the catalog *)
(* is loaded (main of the champion service).                               *)
(***************************************************************************)
THEOREM HonestHealth == CatalogSpec => []ServingIsHonest
<1>1. CatalogInv => ServingIsHonest
  BY DEF CatalogInv, CatalogTypeOK, ServiceByStage, ServingIsHonest
<1> QED
  BY <1>1, CatalogInvariance, PTL

(***************************************************************************)
(* The players of the room come whole from one session, each with his own  *)
(* champion or Unknown (SyncFromChampSelect, ReplacePlayers).              *)
(***************************************************************************)
THEOREM OneSession == CatalogSpec => []PlayersAreOneSession
<1>1. CatalogInv => PlayersAreOneSession
  BY DEF CatalogInv, PlayersBySession
<1> QED
  BY <1>1, CatalogInvariance, PTL

(***************************************************************************)
(* Every answer to a call comes from a catalog that was loaded whole, also *)
(* when the service is asked to stop meanwhile (GetChampion, Load), and    *)
(* goes to a synchronization that still runs.                              *)
(***************************************************************************)
AnswersFromLoadedCatalog ==
    [][GetChampion => syncing /\ catalog = versioned
                      /\ service \in {"serving", "leaving", "stopping"}]_catalogVars

THEOREM LoadedAnswers == CatalogSpec => AnswersFromLoadedCatalog
<1>1. CatalogInv /\ GetChampion => syncing /\ catalog = versioned
                                   /\ service \in {"serving", "leaving", "stopping"}
  BY DEF CatalogInv, ServiceByStage, CallByStage, GetChampion
<1> QED
  BY <1>1, CatalogInvariance, PTL DEF AnswersFromLoadedCatalog

(***************************************************************************)
(* Every name of the room is Unknown or a champion that Data Dragon has    *)
(* released, whatever became of the service that loaded it (Load,          *)
(* GetChampion, SyncFromChampSelect).                                      *)
(***************************************************************************)
NamesAreReleased == \A m \in Members : stored.names[m] \in released \union {Unknown}

THEOREM ReleasedNames == CatalogSpec => []NamesAreReleased
<1>1. CatalogInv => NamesAreReleased
  BY DEF CatalogInv, ReleasedFirst, NamesAreReleased
<1> QED
  BY <1>1, CatalogInvariance, PTL
=============================================================================
