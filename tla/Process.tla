------------------------------ MODULE Process ------------------------------
(***************************************************************************)
(* The life of one application process: main (cmd/server/main.go), what    *)
(* New opens and closes again when a later step fails (constructor.go),    *)
(* what Run starts and waits for (run.go), the order in which Close closes *)
(* it (app.go), and the goroutines that use the connections meanwhile.     *)
(*                                                                         *)
(* A goroutine with something to do uses one connection at a time; using   *)
(* "db" means holding a connection of the pool.  Deadlines are steps that  *)
(* may be taken whenever what is waited for has not happened.              *)
(***************************************************************************)
EXTENDS Naturals, FiniteSets

CONSTANTS
    Requests,       \* HTTP requests
    Sockets,        \* handlers of WebSocket connections
    Tickers,        \* goroutines Run starts: updater, cleanups, relay, poller
    MaxBacklog      \* bound on the game events fetched and not yet handled

Callbacks == {"events", "rooms"}
Workers == Requests \union Sockets \union Tickers \union Callbacks
Connections == {"db", "redis", "nats", "grpc"}

ASSUME ProcessAssumption ==
    /\ MaxBacklog \in Nat
    /\ IsFiniteSet(Workers)
    /\ Requests \intersect (Sockets \union Tickers \union Callbacks) = {}
    /\ Sockets \intersect (Tickers \union Callbacks) = {}
    /\ Tickers \intersect Callbacks = {}

VARIABLES
    main,           \* where main, New, Run or Close stands
    open,           \* the connections that are open
    draining,       \* is the NATS connection draining?
    subscribed,     \* are the room subjects subscribed to?
    consumer,       \* the game-event consumer
    backlog,        \* game events fetched and not yet handled
    http,           \* the HTTP server
    ticking,        \* the goroutines of Run that have not returned
    using,          \* the connection each worker uses, "none" if idle
    signal,         \* has SIGINT or SIGTERM arrived?
    gaveUp,         \* history: the consumer was not drained in time
    lost,           \* history: the NATS library has given the connection up
    cut             \* history: workers that found closed what the process had closed

mainVars == <<main, open, draining, subscribed, http, ticking, gaveUp, lost>>
vars == <<mainVars, consumer, backlog, using, signal, cut>>

Starting == {"db", "redis", "nats", "streams", "grpc", "subscribe", "consume"}
Closing == {"drain events", "draining", "close grpc", "close nats", "close redis", "close db",
            "wait db"}
Ended == {"exited", "killed"}

\* What the goroutines of each kind use.
Needs(w) ==
    CASE w = "events"     -> {"db", "nats"}
      [] w = "rooms"      -> {"redis", "db"}
      [] w \in Requests   -> {"db", "redis", "nats"}
      [] w \in Sockets    -> {"redis", "db"}
      [] w \in Tickers    -> Connections

TypeOK ==
    /\ main \in Starting \union Closing \union Ended
                \union {"unwind", "run", "serving", "shutdown"}
    /\ open \subseteq Connections
    /\ draining \in BOOLEAN /\ subscribed \in BOOLEAN
    /\ consumer \in {"off", "on", "draining", "closed"}
    /\ backlog \in 0..MaxBacklog
    /\ http \in {"off", "on", "closing", "closed"}
    /\ ticking \subseteq Tickers
    /\ using \in [Workers -> Connections \union {"none"}]
    /\ signal \in BOOLEAN /\ gaveUp \in BOOLEAN /\ lost \in BOOLEAN
    /\ cut \subseteq Workers

Init ==
    /\ main = "db" /\ open = {} /\ draining = FALSE /\ subscribed = FALSE
    /\ consumer = "off" /\ backlog = 0
    /\ http = "off" /\ ticking = {}
    /\ using = [w \in Workers |-> "none"]
    /\ signal = FALSE /\ gaveUp = FALSE /\ lost = FALSE /\ cut = {}

GoTo(step) == main' = step

Busy(W) == \E w \in W : using[w] # "none"

Receiving == "nats" \in open

-----------------------------------------------------------------------------
(***************************************************************************)
(* New.  It does not look at the signal.                                   *)
(***************************************************************************)

\* The step of New at which main stands fails.
StartFails ==
    /\ main \in Starting
    /\ GoTo("unwind")
    /\ UNCHANGED <<open, draining, subscribed, consumer, backlog, http, ticking, using,
                   signal, gaveUp, lost, cut>>

\* database.Connect, cache.Connect, messaging.New, championgrpc.NewClient.
OpenConnection ==
    /\ main \in Connections
    /\ open' = open \union {main}
    /\ GoTo(CASE main = "db"    -> "redis"
              [] main = "redis" -> "nats"
              [] main = "nats"  -> "streams"
              [] main = "grpc"  -> "subscribe")
    /\ UNCHANGED <<draining, subscribed, consumer, backlog, http, ticking, using, signal,
                   gaveUp, lost, cut>>

EnsureStreams ==
    /\ main = "streams" /\ Receiving
    /\ GoTo("grpc")
    /\ UNCHANGED <<open, draining, subscribed, consumer, backlog, http, ticking, using,
                   signal, gaveUp, lost, cut>>

\* RoomConsumer.Start: both subjects, then a flush.
Subscribe ==
    /\ main = "subscribe" /\ Receiving
    /\ subscribed' = TRUE
    /\ GoTo("consume")
    /\ UNCHANGED <<open, draining, consumer, backlog, http, ticking, using, signal, gaveUp,
                   lost, cut>>

\* RoomConsumer.Start fails after one of the subjects has been subscribed to.
SubscribeFails ==
    /\ main = "subscribe"
    /\ subscribed' = TRUE
    /\ GoTo("unwind")
    /\ UNCHANGED <<open, draining, consumer, backlog, http, ticking, using, signal, gaveUp,
                   lost, cut>>

StartGameEventsConsumer ==
    /\ main = "consume" /\ Receiving
    /\ consumer' = "on"
    /\ GoTo("run")
    /\ UNCHANGED <<open, draining, subscribed, backlog, http, ticking, using, signal, gaveUp,
                   lost, cut>>

\* Mutant of Unwind: Redis is left open.
UnwindButRedis ==
    /\ main = "unwind"
    /\ IF open \ {"redis"} = {} THEN ~(\E w \in Workers : using[w] = "db") /\ GoTo("exited")
       ELSE GoTo("unwind")
    /\ open' = CASE "grpc" \in open  -> open \ {"grpc"}
                 [] "nats" \in open /\ "grpc" \notin open -> open \ {"nats"}
                 [] OTHER -> open \ {"db"}
    /\ UNCHANGED <<draining, subscribed, consumer, backlog, http, ticking, using, signal,
                   gaveUp, lost, cut>>

\* What is open is closed, the last opened first; closing the pool waits for
\* its connections; log.Fatal then ends the process.
Unwind ==
    /\ main = "unwind"
    /\ IF open = {} THEN (\A w \in Workers : using[w] # "db") /\ GoTo("exited")
       ELSE GoTo("unwind")
    /\ open' = CASE "grpc" \in open -> open \ {"grpc"}
                 [] open = {"db", "redis", "nats"} -> {"db", "redis"}
                 [] open = {"db", "redis"} -> {"db"}
                 [] OTHER -> {}
    /\ UNCHANGED <<draining, subscribed, consumer, backlog, http, ticking, using, signal,
                   gaveUp, lost, cut>>

-----------------------------------------------------------------------------
(***************************************************************************)
(* Run.                                                                    *)
(***************************************************************************)

\* The goroutines are started and ListenAndServe is called in one more.
StartServing ==
    /\ main = "run"
    /\ ticking' = Tickers /\ http' = "on"
    /\ GoTo("serving")
    /\ UNCHANGED <<open, draining, subscribed, consumer, backlog, using, signal, gaveUp,
                   lost, cut>>

\* ListenAndServe fails: Run returns its error and main calls log.Fatal.
ServeFails ==
    /\ main = "serving"
    /\ http' = "off"
    /\ GoTo("killed")
    /\ UNCHANGED <<open, draining, subscribed, consumer, backlog, ticking, using, signal,
                   gaveUp, lost, cut>>

BeginShutdown ==
    /\ main = "serving" /\ signal
    /\ http' = "closing"
    /\ GoTo("shutdown")
    /\ UNCHANGED <<open, draining, subscribed, consumer, backlog, ticking, using, signal,
                   gaveUp, lost, cut>>

\* Shutdown waits for the requests, not for hijacked connections.
EndShutdown ==
    /\ main = "shutdown" /\ ~Busy(Requests)
    /\ http' = "closed"
    /\ GoTo("drain events")
    /\ UNCHANGED <<open, draining, subscribed, consumer, backlog, ticking, using, signal,
                   gaveUp, lost, cut>>

\* Mutant of ShutdownTimesOut: the error is dropped and the application closed.
ShutdownTimeoutIgnored ==
    /\ main = "shutdown" /\ Busy(Requests)
    /\ GoTo("drain events")
    /\ UNCHANGED <<open, draining, subscribed, consumer, backlog, http, ticking, using, signal,
                   gaveUp, lost, cut>>

\* Ten seconds are over: Run returns the error and main calls log.Fatal, which
\* skips the deferred Close.
ShutdownTimesOut ==
    /\ main = "shutdown" /\ Busy(Requests)
    /\ GoTo("killed")
    /\ UNCHANGED <<open, draining, subscribed, consumer, backlog, http, ticking, using, signal,
                   gaveUp, lost, cut>>

-----------------------------------------------------------------------------
(***************************************************************************)
(* Close.                                                                  *)
(***************************************************************************)

\* ConsumerHandle.Drain: no more events are fetched.
BeginDrain ==
    /\ main = "drain events"
    /\ consumer' = "draining"
    /\ GoTo("draining")
    /\ UNCHANGED <<open, draining, subscribed, backlog, http, ticking, using, signal, gaveUp,
                   lost, cut>>

EndDrain ==
    /\ main = "draining" /\ consumer = "closed"
    /\ GoTo("close grpc")
    /\ UNCHANGED <<open, draining, subscribed, consumer, backlog, http, ticking, using, signal,
                   gaveUp, lost, cut>>

\* Mutant of DrainTimesOut: Drain waits for as long as it takes.
DrainNeverTimesOut ==
    /\ main = "draining" /\ consumer = "closed"
    /\ gaveUp' = TRUE
    /\ GoTo("close grpc")
    /\ UNCHANGED <<open, draining, subscribed, consumer, backlog, http, ticking, using, signal,
                   lost, cut>>

\* Five seconds are over; what is left of the backlog is still handled.
DrainTimesOut ==
    /\ main = "draining" /\ consumer # "closed"
    /\ gaveUp' = TRUE
    /\ GoTo("close grpc")
    /\ UNCHANGED <<open, draining, subscribed, consumer, backlog, http, ticking, using, signal,
                   lost, cut>>

CloseGrpc ==
    /\ main = "close grpc"
    /\ open' = open \ {"grpc"}
    /\ GoTo("close nats")
    /\ UNCHANGED <<draining, subscribed, consumer, backlog, http, ticking, using, signal,
                   gaveUp, lost, cut>>

\* Client.Drain returns at once; when it fails (no connection to the server, or
\* one given up) the connection is closed.
DrainNats ==
    /\ main = "close nats"
    /\ \/ Receiving /\ draining' = TRUE /\ UNCHANGED open
       \/ open' = open \ {"nats"} /\ UNCHANGED draining
    /\ GoTo("close redis")
    /\ UNCHANGED <<subscribed, consumer, backlog, http, ticking, using, signal, gaveUp,
                   lost, cut>>

CloseRedis ==
    /\ main = "close redis"
    /\ open' = open \ {"redis"}
    /\ GoTo("close db")
    /\ UNCHANGED <<draining, subscribed, consumer, backlog, http, ticking, using, signal,
                   gaveUp, lost, cut>>

\* pgxpool.Close: nothing more is acquired, then it waits for what has been.
CloseDB ==
    /\ main = "close db"
    /\ open' = open \ {"db"}
    /\ GoTo("wait db")
    /\ UNCHANGED <<draining, subscribed, consumer, backlog, http, ticking, using, signal,
                   gaveUp, lost, cut>>

Exit ==
    /\ main = "wait db" /\ \A w \in Workers : using[w] # "db"
    /\ GoTo("exited")
    /\ UNCHANGED <<open, draining, subscribed, consumer, backlog, http, ticking, using, signal,
                   gaveUp, lost, cut>>

-----------------------------------------------------------------------------
(***************************************************************************)
(* The goroutines.                                                         *)
(***************************************************************************)

\* There is something to do for w: a fetched event, a room announcement, a tick,
\* a request (also one on a connection accepted before the shutdown), the first
\* snapshot of a WebSocket, which Shutdown does not wait for.
MayBegin(w) ==
    /\ main \notin Ended
    /\ w = "events" => backlog > 0 /\ Receiving
    /\ w = "rooms" => subscribed /\ Receiving
    /\ w \in Requests => http \in {"on", "closing"}
    /\ w \in Sockets => http # "off"
    /\ w \in Tickers => w \in ticking

\* Worker w turns to connection r, in any order; if r is closed the job fails.
Use(w, r) ==
    /\ r \in Needs(w) /\ r # using[w]
    /\ using[w] = "none" => MayBegin(w)
    /\ main \notin Ended
    /\ IF r \in open
       THEN using' = [using EXCEPT ![w] = r] /\ UNCHANGED cut
       ELSE /\ using' = [using EXCEPT ![w] = "none"]
            /\ cut' = IF r = "nats" /\ lost THEN cut ELSE cut \union {w}
    /\ backlog' = IF w = "events" /\ using[w] = "none" THEN backlog - 1 ELSE backlog
    /\ UNCHANGED <<mainVars, consumer, signal>>

\* The job is done, has failed, or has run out of time.
Finish(w) ==
    /\ main \notin Ended /\ using[w] # "none"
    /\ using' = [using EXCEPT ![w] = "none"]
    /\ UNCHANGED <<mainVars, consumer, backlog, signal, cut>>

\* A loop of Run sees ctx.Done between two passes.
TickerReturns(w) ==
    /\ main \notin Ended /\ w \in ticking /\ signal /\ using[w] = "none"
    /\ ticking' = ticking \ {w}
    /\ UNCHANGED <<main, open, draining, subscribed, consumer, backlog, http, using, signal,
                   gaveUp, lost, cut>>

-----------------------------------------------------------------------------
(***************************************************************************)
(* The NATS client library and the operating system.                       *)
(***************************************************************************)

Fetch ==
    /\ main \notin Ended /\ consumer = "on" /\ Receiving
    /\ backlog < MaxBacklog
    /\ backlog' = backlog + 1
    /\ UNCHANGED <<mainVars, consumer, using, signal, cut>>

\* ConsumeContext.Closed: the backlog has been handled.
ConsumerCloses ==
    /\ main \notin Ended /\ consumer = "draining"
    /\ backlog = 0 /\ using["events"] = "none"
    /\ consumer' = "closed"
    /\ UNCHANGED <<mainVars, backlog, using, signal, cut>>

\* A closed connection drops what was fetched for its subscriptions.
CloseNats == open' = open \ {"nats"} /\ backlog' = 0

\* The connection has been drained, or its own deadline has passed.
NatsCloses ==
    /\ main \notin Ended /\ draining /\ Receiving
    /\ CloseNats
    /\ UNCHANGED <<main, draining, subscribed, consumer, http, ticking, using, signal, gaveUp,
                   lost, cut>>

\* The server was away for longer than the library's reconnection limit, which
\* New leaves at its default: the connection is closed for good (BrokerLink).
NatsGivesUp ==
    /\ main \notin Ended /\ ~draining /\ Receiving
    /\ CloseNats
    /\ lost' = TRUE
    /\ UNCHANGED <<main, draining, subscribed, consumer, http, ticking, using, signal, gaveUp,
                   cut>>

Signal ==
    /\ main \notin Ended /\ ~signal
    /\ signal' = TRUE
    /\ UNCHANGED <<mainVars, consumer, backlog, using, cut>>

-----------------------------------------------------------------------------

Start == OpenConnection \/ EnsureStreams \/ Subscribe \/ StartGameEventsConsumer \/ StartServing

New == Start \/ StartFails \/ SubscribeFails \/ Unwind

Run == ServeFails \/ BeginShutdown \/ EndShutdown \/ ShutdownTimesOut

Close ==
    \/ BeginDrain \/ EndDrain \/ DrainTimesOut
    \/ CloseGrpc \/ DrainNats \/ CloseRedis \/ CloseDB \/ Exit

Next ==
    \/ New \/ Run \/ Close
    \/ \E w \in Workers : Finish(w) \/ \E r \in Connections : Use(w, r)
    \/ \E w \in Tickers : TickerReturns(w)
    \/ Fetch \/ ConsumerCloses \/ NatsCloses \/ NatsGivesUp \/ Signal

Spec == Init /\ [][Next]_vars

\* The main goroutine runs, and every job ends: its queries do, or its context
\* expires.
Fairness ==
    /\ WF_vars(New) /\ WF_vars(BeginShutdown \/ EndShutdown \/ ShutdownTimesOut) /\ WF_vars(Close)
    /\ \A w \in Workers : WF_vars(Finish(w))

FairSpec == Spec /\ Fairness

-----------------------------------------------------------------------------
(***************************************************************************)
(* Properties.                                                             *)
(***************************************************************************)

(***************************************************************************)
(* The process closes no connection under those who still need it: an HTTP *)
(* request never finds one closed by it (Run waits for requests before     *)
(* Close), a game event does only if the consumer could not be drained in  *)
(* time (Close drains it first), and the loops of Run only after their     *)
(* context was cancelled, so that none takes the shutdown for an outage    *)
(* and stores "Unknown" champions (SyncFromChampSelect).  A NATS           *)
(* connection that its library has given up is found closed by anyone.     *)
(***************************************************************************)
ConnectionsOutliveTheirUsers ==
    /\ cut \intersect Requests = {}
    /\ "events" \in cut => gaveUp
    /\ cut \intersect Tickers # {} => signal

\* What is still open; a draining NATS connection is being closed.
LeftOpen == IF draining THEN open \ {"nats"} ELSE open

(***************************************************************************)
(* A process that ends because New failed or because it was asked to       *)
(* leaves no connection open and no database work unfinished, whichever    *)
(* step of New failed and whatever the goroutines were doing.              *)
(***************************************************************************)
NormalExitIsClean ==
    main = "exited" => LeftOpen = {} /\ \A w \in Workers : using[w] # "db"

(***************************************************************************)
(* The same of every process that has begun to shut down: main defers      *)
(* application.Close(), and docs/adr/002 has the gRPC connection "closed   *)
(* during application shutdown".  A request that takes longer than ten     *)
(* seconds makes Run return an error, and log.Fatal runs no deferred call. *)
(***************************************************************************)
ShutdownIsClean ==
    main \in Ended /\ http \in {"closing", "closed"} => LeftOpen = {}

(***************************************************************************)
(* A process asked to stop does stop, whenever the signal comes (also      *)
(* while New is opening connections) and whatever its goroutines do:       *)
(* every wait of Run and Close is bounded or waits for what must end.      *)
(***************************************************************************)
StopsWhenAsked == signal ~> main \in Ended
=============================================================================
