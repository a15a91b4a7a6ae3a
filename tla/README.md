# Verification of lol-overlay

TLA+ models of the stateful core of this repository, checked by TLC on small
instances, with machine-checked proofs (TLAPS) of the results that matter most.
`PROJECT.json` is the index: components, runs, the source lines each definition
stands for, the hazards of the code and the properties that watch them.

Run a model with `tlc -config MCRoomFeed.cfg MCRoomFeed.tla`, check proofs with
`tlapm RoomFeedProofs.tla`. A module `X` is run through `MCX` where its
constants need definitions, and directly otherwise; its proofs are in `XProofs`.

## The system

lol-overlay follows a League of Legends client and shares the cooldowns of a
team's summoner spells with the browsers of its players. Several identical Go
instances (two replicas in `deploy/kubernetes/app.yaml`) share one PostgreSQL,
one Redis, one NATS server with JetStream and one champion service.

```
League client --poll--> LolClientService --> GameLifecycleService --> outbox_events (PostgreSQL)
                              |                                            |
champion service <--gRPC--    |                                     OutboxRelayService
   (Data Dragon)          \   v                                            |
                         RoomService <-- HTTP handlers                     v  (NATS connection)
                          |   |  \                                   GAME_EVENTS (JetStream)
                 PostgreSQL  Redis  NATS room.*, current-room              |
                                       |                          game-events-processor
                                 RoomConsumer                     GameConsumer -> inbox + game_sessions
                                       |                                   |
                                 WebSocket hub                     GAME_EVENTS_DLQ <-> dlq-replay
                                       |
                                   browsers
```

| Component | State | Operations | Interacts with | Hard behaviour |
|---|---|---|---|---|
| Lifecycle detection (`services/game_lifecycle*.go`, `lol_client_service.go`) | followed game, started flag, pending event (memory) | Observe per polled phase | polls the client; enqueues to the outbox | missed phases, failing enqueue, restart |
| Outbox (`repositories/postgres/outbox`) | one row per event: available_at, attempt_count, published_at | Enqueue, ClaimPending, MarkPublished, MarkFailed, DeletePublishedBefore | relays of all instances, daily cleanup | concurrent claims, unfenced updates, leases by other clocks |
| Relay (`services/outbox_relay_service.go`) | the batch and deadline of the current run | run every second | outbox, JetStream | lost acks, late publications, expiry in mid-batch, crash, retry |
| NATS connection (`messaging/nats.go`) | connected, reconnecting or closed, per process | connect, reconnect, give up | relay | broker outages longer than the library's patience |
| Stream and consumer (`messaging/jetstream*.go`) | stream, durable consumer | publish, deliver, ack, nak, term | relay, replay, handler | redelivery, duplicates, reordering, poison events |
| Inbox and sessions (`postgres/gameevent`, `processedevent`) | processed_events, game_sessions | one transaction per event, marker cleanup | handler | repeated and reordered events, expired markers |
| Dead letters, replay (`dead_letter_*.go`, `cmd/dlq-replay`) | GAME_EVENTS_DLQ | publish, get, delete; replay | consumer, operators | publish and terminate are two steps, concurrent replays |
| Room storage (`cached_room_repository.go`, `postgres/room`, `cache`) | rooms, players, spells; cached copies | Get, GetAll, Save, Delete | RoomService, readers without lock | cache fills racing updates, failed cache writes, reads in three statements |
| Room service (`room_service.go`) | mutex, current room (per process) | create, add, replace, toggle, refresh, cleanup, current room | storage, NATS | read-modify-write across processes, announcements after unlock |
| Cooldowns (`summoner_spell_service.go`) | ready flag, end time, seconds left per spell | toggle, refresh, copy | room service, poller | truncation, boundaries, two players with one Riot id |
| Notifications (`room_consumer.go`, `messaging/nats.go`) | subscriptions, one callback goroutine each | announce, consume | room service, hub; at most once | lost announcements, room read after the change |
| WebSocket hub (`websocket/hub.go`, `client.go`) | connected clients per room and of the current room | register, first value, broadcast, remove | browsers, consumers | snapshot racing broadcasts, removal from two sides, vanished peers |
| Champion service and client (`cmd/champion-service`, `champion_service.go`, `championgrpc`) | catalog, health | load, serve, drain; Get | Data Dragon; synchronization | calls that fail, hang or outlive their caller |
| Process (`cmd/server`, `app/*.go`) | connections, goroutines, HTTP server | New, Run, Close | everything above | failing start, shutdown order, deadlines |
| Health, metrics, middleware, logging, configuration, frontend, generated code | — | — | — | not part of the core |

What makes each part correct: no game is recorded twice or half; no event leaves
a store before the next one has it; an event changes its session once, and the
session does not depend on order or repetition; an event that cannot be
processed ends where an operator finds it; a confirmed change of a room is not
lost, and the cache does not stay wrong; a connected browser shows the room as it
is; a cooldown runs to its end whatever happens to the room; nothing is closed
under those who still use it, and a process asked to stop stops.

## Modules

| Module | Models | Kind | Proofs |
|---|---|---|---|
| `Handoff` | what each leg of the event pipeline promises: the holder gives an item up only after the receiver has it | abstract specification | |
| `GameLifecycle` | poller, tracker, service with its pending event, outbox insertion, restarts | detailed | yes |
| `OutboxRelay` | outbox table, the relays of all instances, cleanup, time and clock skew | detailed, implements `Handoff` | yes |
| `BrokerLink` | the same relays over NATS connections that break, reconnect or are given up | composition over `OutboxRelay`, which it implements | in `OutboxRelayProofs` |
| `GameDelivery` | stream, durable consumer, inbox transaction, dead letters, replay command | detailed, implements `Handoff` twice | yes |
| `GamePipeline` | an event from the client's phase to its session: lifecycle, outbox and delivery | composition over `GameLifecycle`, `Handoff` and `GameDelivery` | in `GameLifecycleProofs` |
| `RoomStore` | one room in PostgreSQL and Redis under all reading and writing goroutines | detailed | yes |
| `Hub` | the connections of one kind: handlers, map of members, broadcasts | component, used by the next two | yes |
| `RoomFeed` | what the clients of one room see of its changes | composition over `Hub` | yes |
| `CurrentRoom` | poller, current room of each instance, its announcement and clients | composition over `Hub` | yes |
| `Cooldowns` | the spells of one room against a clock finer than a second | detailed | in `RoomStoreProofs` |
| `ChampionCatalog` | champion service, client, the synchronization that asks for names | composition | in `ProcessProofs` |
| `Process` | start, run and shutdown of one application process | composition | yes |

Shared conventions: an external call that may fail has an action for each outcome,
and an error reported after the effect took place is one of them. History
variables (`behind`, `missed`, `cut`, ...) record which faults a behaviour has
had; they appear in no guard, only in properties, which say through them exactly
which faults they withstand. Definitions headed "Mutant of" are plausible bugs,
used to show that a property notices them; no specification contains them.

### GameLifecycle

`TrackerObserve` and `ObservedSubject` are the two results of
`GameLifecycleTracker.Observe` (state left, transition returned).
`ObserveBlocked` and `ObservePhase` are the two ways through
`GameLifecycleService.Observe`: the pending event cannot be enqueued and the
tracker never sees the phase, or it can and does. Enqueueing may return an error
after inserting the row. The League client is external: it opens champion
selects, dodges, plays and ends games, and may move on before it was polled.
Failure to draw an event ID or to marshal an event is left out (neither depends
on anything outside).

### OutboxRelay and BrokerLink

A row is absent, pending, published or deleted. Times are kept as time left:
`availableIn` for available_at (relative to the slowest clock), `left` for the
deadline of a run, `retainIn` for the retention. An instance sees a row as
eligible when `availableIn <= skew`. One relay run is Claim, then per event
Publish or PublishError followed by MarkPublished, MarkFailed or MarkError, then
Finish, Expire or Crash; claims are atomic because the statement is one UPDATE
over rows locked with FOR UPDATE SKIP LOCKED. After the deadline nothing of a run
takes effect; the ten seconds by which the lease outlasts the run (assumption
`LeaseAssumption`) is also what a statement still in flight at the deadline
would have to exceed. A publication whose sender gave up may reach the stream
later (`delayed`).

`BrokerLink` adds the broker and one connection per process. `messaging.New` sets
no `MaxReconnects`, so the library's default of 60 attempts two seconds apart
holds (`MaxReconnects` bounds them); then it closes the connection for good, and
only a restart of the process opens another. A publication succeeds only over an
open connection to a reachable broker; a reconnecting client may buffer it.

### GameDelivery

A stream message is an event and a copy number; a dead letter is a message and a
record number. `MaxCopies` and `MaxRecords` give the bound of each event. A
pending message may be delivered at any moment, also while another worker is busy
with it; each worker runs one callback at a time. Handler and transaction are one
action (`Commit` of marker and session), because the transaction is atomic and
its row locks serialise equal events; `HandleError` may have committed. Operators
run the replay command concurrently. The duplicate windows of both streams may
close at any moment. The age limits of the streams are left out: an event is
taken to be consumed within the seven days it is stored. Where `MarkersExpire` says
so, a marker is forgotten at any moment (`ForgetMarker`): `DeleteProcessedBefore`
looks at its age alone, and although a marker is kept longer than a copy stays in
the stream (30 days against 7), a dead letter replayed shortly before has a pending
copy when its marker goes.

### GamePipeline

`GameLifecycle` draws events and inserts them (`Detect`), the relays hand them to the
stream (`Relay`, `Mark`), and `GameDelivery` applies them or buries them (`Consume`).
Of the relays only the actions of `Handoff` are used, the promise `OutboxRelay` is
proved to implement, so that rows, leases and clocks need not be carried along. A
publication is stored or recognised by its ID; one whose sender gave up may still
arrive (`RelayLate`). An event is named by its subject and its game, because no
transition gets two (`OneEventPerTransition`); each game has the room of its champion
select; nothing the service builds fails the consumer's validation, so `Poison` is
empty.

### RoomStore

A room is the set of updates it reflects, and `torn` when its players have lost
their spells. Every goroutine goes through the statements of its operation one
by one: cache lookup, the three queries of `loadRoom`, cache fill, change, save,
cache set. A writer holds the mutex of its service from its first to its last
step (`Unlocked`, `Begin`); a snapshot holds none. Saving a room gives its players new
ids, so a load that read the players before and the spells after a save fails,
and one that reads the spells after a deletion finds none. A failing Redis counts
as a miss; failing cache writes are possible where `CacheMayFail` says so.
The age of a room is left out: cleanup may find any room expired. (It is the subject
of `Cooldowns`.) Two history variables name what the properties except. `raced`: a
load has put into the cache a room that PostgreSQL no longer holds, a SET has failed
and left an older room there, or operations of two services have overlapped.
`emptied`: a room with players has been deleted, or saved without any.

### Hub, RoomFeed, CurrentRoom

`Hub` is written once for both kinds of connection, as the code has both in one
hub with the same structure. A connection's handler goes through `stage`: new,
registered (`addClient`), loaded (first value read), open (first value written),
leaving (out of the map), gone (closed). The broadcaster of an instance (`job`) takes the list of members under the
mutex (`ListClients`) and writes to them one at a time (`CastTo`). Whoever removes a
connection takes it out of the map under the mutex and closes it in a second step
without it: a handler (`HandlerLeaves`, `HandlerReturns`), and a broadcast whose write
has failed (`Drop`, `CloseDropped`; `dropped` holds it in between), in any order and
also both. A connection whose client has gone (`absent`) may still swallow
writes for a while; the read deadline ends its handler. A broadcast written
between the read of the first value and its write is followed by that older value:
`overtaken` records it. A connection is used once; a client that reconnects takes
another. Ping frames and the buffering of the kernel are inside `WriteOK` and
`WriteFails`.

`RoomFeed` takes the number of the latest change for the room. A change is saved
under the mutex and announced after it (`unsent`), the announcement carries the
room's id only, and the consumer reads the room as it is then. The room is stored
atomically here; `RoomStore` is about its races. `behind` records that no
announcement will tell an instance of a change: one was lost, the room could not
be read, or the change was saved and never announced (`CreateRoom`,
`ChangeInSilence`).

`CurrentRoom` follows the one instance (`Poller`) on the host of the League
client; the others cannot read its lockfile. A tick of `StartChampSelectSync` is
several actions, because the mutex is released between them: read the phase and
the session, replace the players, set or clear the current room, announce it. The
value announced is the room id itself. Every champion select has a room of its
own. Cleanup takes rooms that are neither the present select nor in the hands of
the present tick: those were updated less than three hours ago. `forgotten`
records that a room was stored while its id was not kept as the current one: by a
restart, or by an error after the commit. `orphaned` records that the polling
instance's current room was deleted behind its back: by another instance, or by a
deletion that took effect and was reported as an error, after which `cleanupOldRooms`
returns before it clears the current room, and does not list the room again.

### Cooldowns

The end time of a cooldown is the number of ticks left until it, with two ticks to
the second, so that the truncation to whole seconds has something to truncate.
Players are found by Riot id and spells by name, the first of each, as
`FindPlayerByRiotId` and `FindSpell` do: members whose names the client hides share
the empty Riot id. `HostOffset` is the offset of the host's time zone, because
`LastUpdated` is a local time in a TIMESTAMP column. `Refreshed`, `Toggled` and
`CopySpellState` are the functions of the code; the room is stored atomically.
`idle`, the ticks since the last save, stops counting at `MaxIdle`, a bound of the
model beyond the age at which cleanup takes the room.

### ChampionCatalog

The name of a champion is the champion itself; `Unknown` is the fallback. The
service loads the latest version and then that version's champions, listens,
reports SERVING, serves, and on a signal reports NOT_SERVING before GracefulStop.
`SyncFromChampSelect` asks for one member after the other; a call may be handled,
lost with the service, or exceed its deadline while the service goes on handling
it (`ghost`). A save that fails may have been committed (`ReplaceFails`). `sessions`
records the champion selects a synchronization was given.
The List RPC is left out: it reads the map Get reads.

### Process

`main` stands at a step of `New`, `Run` or `Close`. A goroutine with work uses one
connection at a time; using "db" means holding a connection of the pool, for which
`pgxpool.Close` waits. A worker that turns to a closed connection fails (`cut`).
Deadlines are steps that may be taken whenever what is waited for has not
happened. `Shutdown` waits for requests and not for hijacked WebSocket
connections, whose handlers may read their first snapshot during the shutdown; a
request on a connection accepted before may begin then too. The loops of `Run` are
told to stop and not waited for. The NATS library may give the connection up at any
moment (`NatsGivesUp`, which `BrokerLink` models in detail): what was fetched is gone,
nothing is received any more, and whoever publishes or acknowledges finds it closed.
`cut` counts only what the process itself has closed, since `lost` explains the rest.

## Runs

| Run | Bounds | What it shows |
|---|---|---|
| `outbox` | `BrokerLink`: 1 event, 2 relays, batch 2, lease 3, run 2, skew 1, retries 1 to 2, retention 1, 1 counted attempt, 1 reconnection attempt | `NoEventLost`, `LeaseProtects`, `LeaseExclusive`, `HandsOverToStream`, `EventuallyPublished` |
| `game_sessions` | one game: 2 starts in different rooms, one of them in 2 copies, 2 ends, 1 poison event with up to 2 dead letters; markers expire; 1 worker, 1 delivery before burial | `SessionsReflectEvents` |
| `game_replay` | 1 event in up to 2 copies, 2 workers, 2 operators, 2 deliveries before burial, 1 record per message | `NothingStranded`, `ExactlyOnce`, `DeliversOrBuries`, `ReplaysBeforeDeleting`, `EventuallySettled` |
| `lifecycle` | 3 champion selects | `OneEventPerTransition`, `StartsArePlayed`, `StartBeforeEnd`, `HistoryComplete`, `NoEventForgotten` |
| `rooms` | 3 updates, 2 goroutines of one service, 2 snapshot readers, failing Redis | `UpdatesKeptUnlessRaced` |
| `rooms_shared` | 1 update, 2 services, 1 snapshot reader, failing Redis | `NoTornRoom`, `EventuallyCoherent` |
| `rooms_snapshot` | 2 updates, 1 service, 1 snapshot reader | violates `NoLostUpdate` |
| `feed` | 2 clients, 1 instance, 3 changes, 1 announcement owed, announcements may be lost | `MembersAreServed`, `QuietMeansCurrent`, `GoneAreForgotten`, `EventuallyCurrent` |
| `current` | 1 client, 1 instance, 2 champion selects, the players of the first change once, announcements may be lost | `QuietMeansCurrent`, `SyncedIsCurrentUnlessForgotten`, `CurrentRoomExists`, `EventuallyShown` |
| `cooldowns` | 2 Riot ids, one of them empty; 2 spells of 4 and 3 seconds, haste 18, 2 ticks to the second, expiration 8 ticks | `CoherentSpells`, `OnlyTogglesStart`, `CooldownsKept`, `CleanupSparesRunning`, `CooldownsEnd` |
| `process` | 2 requests, 1 socket, 2 loops, backlog 2, NATS may be given up | `ConnectionsOutliveTheirUsers`, `NormalExitIsClean`, `StopsWhenAsked` |
| `catalog` | 2 members, 2 champions, 2 picks | `CatalogTypeOK`, `ServingIsHonest`, `PlayersAreOneSession`, `SyncEnds`, `EventuallyNamed` |

Why the bounds are enough to be interesting.
*Outbox*: two relays contend for the event, the lease is exactly the assumption's
minimum (run + skew), so an off-by-one in it shows; one failed reconnection gives
a connection up; the proofs cover any number of events.
*Sessions*: the events contain an earlier and a later start, an end before one of
them and an end after both; the later start has a second copy, which is applied after
the marker of the first is gone.
*Replay*: two copies of the event are the least for one to be replayed while the
other is in use, and two operators for a dead letter to be fetched twice; two
deliveries before burial let a failed one be returned below the limit.
*Rooms*: two writers and two readers overlap in every way; with three updates one can
be lost under the other two. `MCRoomStoreReplicas.cfg` checks both properties with two
services, a reader and two updates (no error, about four minutes).
*Lifecycle*: one dodged or swallowed game between two played ones.
*Feed*: two clients are the least for a failed write in mid-broadcast; three
changes let a second and third queue up behind a broadcast in progress.
*Current*: the second select begins while the first room is still current or its
announcement under way; the change of players gives a second save of one room.
*Cooldowns*: half-second ticks reach every fraction of a second; the teams swap
spells, reorder, join and leave; expiration is exactly the longest base cooldown
(4 s), the weakest `ExpirationAssumption` allows.
*Process*: a request and an event can each be in the middle of their work at every
step of the shutdown; the second loop returns while the first is busy.
*Catalog*: two members make a session half asked for, two picks one that changes
meanwhile, two champions a release that the running service does not know.
*Pipeline*: `MCGamePipeline.cfg` checks the properties of `GamePipeline` on one game, one
worker and one operator, with a start that may be stored and replayed twice (3.4
million states, under four minutes, no error). It is kept for exploration beside the
runs: its properties are theorems for every number of games, workers and operators.
The passing runs together take every action of every specification. Runs of
`GameDelivery`, `GameLifecycle` and `Process` do not check deadlock: with nothing
left to deliver or play, or the process ended, the system rests.

Unbounded counters are capped by `AttemptCap`, `MaxReconnects`, `MaxCopies`,
`MaxRecords`, `MaxGames`, `MaxChanges`, `MaxUnsent`, `MaxSelects`, `MaxPicks`,
`MaxBacklog` and `MaxIdle`; `delivered` stops counting at `MaxDeliver`, beyond which the code
makes no difference. `Updates` bounds the changes of a room.

### Fairness

* `BrokerLink`: time passes, the library reconnects while the broker can be
  reached, and the ticker of every relay keeps it looping, so what is tried again
  and again — a claim, a publication over an open connection, a mark — succeeds at
  some point (strong fairness), because PostgreSQL and JetStream may fail any
  number of times but not for ever; a run that is over ends. The broker need not
  come back and nobody need restart anything; `EventuallyPublished` therefore
  speaks of behaviours in which the broker is back to stay and the process with the
  fastest clock still has its connection.
* `GameDelivery`: the server redelivers an unacknowledged message without limit
  (`MaxDeliver: -1`); handlers return; acks, dead letters and terminations
  eventually get through. The handler may fail for ever and no operator need come.
* `RoomStore`: only that Redis expires keys (`ROOM_CACHE_TTL`).
* `RoomFeed`, `CurrentRoom`: goroutines run and subscriptions call back; in
  `CurrentRoom` the poller ticks and the database does not fail for ever. Nobody
  need connect, change a room or leave, announcements may be lost for ever, and
  `EventuallyShown` asks that the League client keeps answering.
* `Cooldowns`: time passes and the updater refreshes every second.
* `ChampionCatalog`: the poller ticks, a deadline passes whatever the service does,
  a stopped application is started again, the database does not fail for ever. The
  service may stay down and a handler may hang as long as calls may be slow.
* `Process`: the main goroutine runs and every job ends, because its queries do or
  its context expires. The signal need not come. For two kinds of job this rests on
  PostgreSQL, Redis and the kernel answering, not on a deadline: `handleRoomUpdated`
  reads the room with `context.Background()` (`room_consumer.go:59`), and a hijacked
  WebSocket handler reads its snapshot with the context of its request.

### Assumptions about the environment

What the models take for granted of the world outside, beyond the fairness above:

* The League client ends every game through its end-of-game phases
  (`GameLifecycle.BackToLobby`). If it went from InProgress straight to the lobby, the
  tracker would still follow the old game and swallow the start of the next.
* A champion select that is left does not come back with the same room
  (`CurrentRoom.PollElsewhere`). If the client reported another phase for a moment in
  the middle of one, the poller would clear the current room, find the players
  unchanged afterwards, and not set it again.
* A client that has gone is noticed in the end (`Hub.ReadEnds`). The connections of a
  room have pings and a read deadline (`hub.go:107-129`); those of `/ws/current-room`
  have neither, and rely on TCP or on the next failing broadcast. Only `RoomFeed`
  states a property that needs it (`GoneAreForgotten`).
* The snapshot a room consumer broadcasts is the stored room (`RoomFeed.Consume`).
  `GetRoomSnapshot` may return an older one from Redis, in the race of
  `rooms_snapshot` and until the key expires.
* A client too slow for the write deadline counts as gone: after a failed write the
  WebSocket library fails every later one.
* One event is relayed in run `outbox`; that none starves behind others, or beyond
  the limit of a batch, is not examined.
* An event of `GameLifecycle` reaches the outbox only from observations that reach the
  tracker: properties about completeness except missed phases, blocked observations and
  restarts, because the code loses events there.

## Proofs

Every theorem holds for all values of the constants that satisfy the named
assumptions of its module. No safety invariant above is inductive by itself; each
proof adds what it rests on.

### OutboxRelayProofs

From `ConstantsAssumption` and `LeaseAssumption` (run + skew <= lease; 20 s and
30 s in the code): `TypeCorrect`, `NothingLost`, `LeasesProtect`,
`LeasesExclude`, `Progress` (attempt counts and row states only move forward) and
`Refinement` (`OutboxRelay` implements `Handoff`).

`IInv` adds: an event whose publication was acked is stored until it is marked
(`AckIsStored`; without it a mark could lose the event), the event being marked is
held (`RunShape`), late publications are of enqueued events (`DelayedEnqueued`, for
the refinement), and `LeaseOutlivesRun`: a held row is pending, has the attempt
count the run read, and its lease has at least `Lease - RunTimeout` more time left
than the run. The last is the heart of it. Time shortens both alike; only a claim
or a mark by another run could shorten the lease alone, and neither can touch a
held row: not a claim, because the row is not eligible for any clock
(`HeldNotEligible`), not a mark, because the other run does not hold the event
(`LeaseExclusive`).

`LinkImplementsRelay` shows that every step over the connections is a step of the
relays or leaves them alone, so `NothingLostOverLink` follows from the theorems
above; `LinkTypeCorrect` adds that a connected link has used no attempt and that one is
given up exactly when its attempts are used up.

### RoomStoreProofs

`UpdatesKept` and `RoomsWhole` prove `UpdatesKeptUnlessRaced` and `NoTornRoom` for any
updates, any number of writing goroutines, snapshot readers and services, and with or
without a failing cache, from the assumptions about the constants alone
(`ConstantsAssumption`, `NoRoomAssumption`). `RoomTypes` adds that each operation stays
within the steps of its kind.

For `UpdatesKept`, until something races, at most one goroutine is inside a writing
operation, whatever its service (`MutexHeld`), and its copy of the room is worth at each
of its steps what it should be: what PostgreSQL holds, or what it is about to hold, with
every confirmed update in it (`ViewCurrent`). Snapshots matter only through the room they
put into the cache (`Kept`). Run `rooms_snapshot` shows that the exception is needed. For
`RoomsWhole`, every room anybody has read has its spells, and while players whose spells
are still to be read are in view, the room in PostgreSQL has some (`Whole`), so a load
over a save fails instead of returning players without spells.

The theorems about `Cooldowns` hold for any Riot ids, spells, haste and tick rate
that `CooldownsAssumption` allows. The proof takes the steps once, in `SpellSteps`:
each spell of the new room is fresh, or comes from a spell of the old room with its
player's id and its name in one of the few ways of `Becomes` (`Steps`). Everything
else is read off it.

* `SpellsCoherent` (`CoherentSpells`): `Tidy`, that every spell is `Coherent`, is
  kept by toggling, refreshing and the passing of time. What it rests on is the
  arithmetic of the truncation to whole seconds (`Truncation`, `Times`) and that haste
  never lengthens a cooldown (`HasteShortens`).
* `RunningSpared` (`CleanupSparesRunning`) under `NotFarWest`: `Stamped`, that an end
  time lies at most the base cooldown after the last save. `MCCooldownsWest.cfg` shows
  that the hypothesis is needed.
* `TogglesStart` and `RunningKept` (`OnlyTogglesStart`, `CooldownsKept`) under
  `DistinctTeams`: no two members of a champion select share a Riot id or carry one
  spell twice. Then the same holds of the stored room (`SpellsAreDistinct`), the first
  player found is the only one, and a sync maps the spells of the new room one to one
  into the old. `MCCooldownsHidden.cfg` shows for the first that the hypothesis is
  needed; run `cooldowns` meets it.

### HubProofs, RoomFeedProofs, CurrentRoomProofs

`HubInv` is `MembersAreServed` with the types, that nothing knows of a connection
before it is opened, that a broadcast lists clients of its own instance only, and that
what it has taken out could not be written to;
`HubProofs` proves that each step of the hub preserves it, and the other two cite
that. `HubMembership` is the hub alone, `FeedMembership` and `CurrentMembership` the
hub with changing rooms, lost announcements and restarts. `FeedImplementsHub` and
`CurrentImplementsHub` show that both compositions implement it: whatever a room or
a tick of the poller does, each step is one of `HubNext` or leaves the hub alone.

`QuietClientsAreCurrent` (`RoomFeed`) rests on `FeedInv`: either an instance is
behind, or an announcement is owed or waiting there (`Pending`), or what its
broadcast holds is the stored room (`CastIsCurrent`), and so is what a client has
read or received, unless that broadcast is still to reach it (`ViewIsCurrent`): a
client is in the map before it reads, so a broadcast that does not list it was over
its list before the client read.
`QuietClientsSeeCurrent` is the same for the current room, where announcements carry
the value, so that the invariant speaks of the last one in the queue (`ShownInv`).
`SyncedUnlessForgotten` needs what each stage of a tick knows of the stored players
and of the current room (`SyncInv`); `CurrentRoomIsStored` holds for any number
of instances, unless the current room was deleted behind the poller's back
(`orphaned`).

### ProcessProofs

`NothingCutShort` and `CleanExit` rest on what is open at each step of `main`
(`OpenByStep`), on the order in which connections are opened and closed
(`OpenInOrder`; the NATS connection alone may be missing, if its library gave it up)
and on who may still be busy there (`BusyByStep`: no request after `Shutdown` has
returned, no event after the drain unless it was given up).

`CatalogInv` does the same for `ChampionCatalog`. `ServiceByStage` says what each
stage of the service has loaded and reports, for `HonestHealth` and `LoadedAnswers`.
`CallByStage` ties a call to the member that is being asked for, and
`PlayersBySession` the names collected so far to the session that was read, for
`OneSession`: a call that outlives its caller (`ghost`) can no longer write a name.
`ReleasedNames` follows the names from Data Dragon through the catalog to the room
(`ReleasedFirst`).

### GameLifecycleProofs

`LifecycleInv` is about the events drawn, stored or pending: their IDs grow along
the outbox and the pending one is the last (`Ordered`), no transition has two and no
end an earlier ID than its start (`DrawnOnce`), for the game the tracker follows at
most the start is drawn (`Follows`), and without restarts every ID is still there
(`Remembered`). `DrawnAtMostOnce`, `StartsComeFirst` and `NothingForgotten` follow. `PlayedInv` adds which games the tracker can follow in which phase, for
`OnlyPlayedGamesStart`; `HistoryInv` what the outbox contains in each phase, polled
or not, for `HistoryIsComplete`.

The second part of the module is about `GamePipeline`, under `PipelineAssumption`
(the assumptions of `GameDelivery` about its constants). Each step of the pipeline is a
step of `GameLifecycle` or leaves it alone, and the same for `GameDelivery`
(`PipelineIsLifecycle`, `PipelineIsDelivery`), so the invariants of both hold of the
composition. `Linked` joins them: an event of the outbox is owed or stored, and only
events of the outbox are. With it and `NothingIsStranded`, `EventsAreAccounted` says
that an inserted event is never out of sight, and `SessionsShowHistory` that the
sessions of a drained pipeline are exactly the games played and over, which takes
`HistoryIsComplete` on one side and `SessionsAreEarliest` on the other.
`OnlyPlayedHaveSessions` needs `OnlyStoredIsApplied` and `OnlyPlayedGamesStart`. The
three properties hold in every behaviour, with every failure of every leg, and no
fairness; that a pipeline drains is the business of `EventuallyPublished` and
`EventuallySettled`.

### GameDeliveryProofs

`NothingIsStranded`, `AppliedOnce`, `ConsumerImplementsHandoff` and
`ReplayImplementsHandoff` follow from `DeliveryInv`: copies and records are stored
in order (`StoredInOrder`), a settled message is applied or was buried
(`SettledIsKept`), a marker means applied (`MarkedIsApplied`), what a worker or an
operator has in hand justifies its next step (`InHand`, `Recovering`), a record is
deleted only after its replay (`DeadLettersKept`), and a replay stores a newer copy
than the one it replays (`ReplayedIsNewer`). The last is the argument for
`NothingStranded`: the newest copy of an event cannot have been replayed, so it is
pending, applied, or its dead letter is still there. `SessionsAreEarliest` needs
`SessionInv`, that the times of a session are the minimum over the events applied, which
a repeated event does not change, and that its room is that of one of the starts. `OnlyStoredIsApplied` looks the other way: an effect is that of
an event the stream has stored, because all that workers and operators have in hand
came from it.

### What is only model-checked

Liveness, since fairness and ENABLED are beyond the prover: `EventuallyPublished`,
`EventuallySettled`, `EventuallyCoherent`, `EventuallyCurrent`, `GoneAreForgotten`,
`EventuallyShown`, `CooldownsEnd`, `StopsWhenAsked`, `SyncEnds` and `EventuallyNamed`.
Every safety property of the passing runs is the subject of a theorem.

## Where the code and its documentation disagree

`rooms_snapshot` is a run: the ADR says that PostgreSQL and Redis retain the latest
room state (`docs/adr/001-nats-delivery-semantics.md:42`); an unlocked snapshot can
put an older room back into Redis, and the next update writes it to PostgreSQL. With
snapshots or a second replica a room can also be brought back after its deletion, or
torn if it is deleted in the middle of a load; `UpdatesKeptUnlessRaced`, `NoTornRoom`
and `EventuallyCoherent` are what still holds.

The other disagreements have a configuration each, to reproduce the counterexample.
All are about what the stated text leaves out, and the properties of the passing
runs say what does hold.

| Configuration | Violated | The text | The code |
|---|---|---|---|
| `MCGameDeadLetters.cfg` | `DeadLettersUnique` | repeating the transfer creates no duplicate dead letters (`docs/adr/001:153-155`) | the message ID deduplicates inside the stream's window only; harmless to the sessions (`ExactlyOnce`, `SessionsReflectEvents`) |
| `MCGameLifecycleOutage.cfg` | `OutageLosesNothing` | the retained event protects against a failing outbox (`docs/adr/001:26-28,119-121`) | the phases observed meanwhile never reach the tracker, and later transitions are lost with them |
| `MCRoomFeedSnapshot.cfg` | `SnapshotNeverOverridesUpdate` | clients receive a snapshot when connecting, later updates supersede earlier ones (`docs/adr/001:44-45`) | the first snapshot is read after registration and written without a lock: a newer broadcast can precede it |
| `MCCurrentRoomRestart.cfg` | `SyncedIsCurrent` | `GET /api/current-room` returns the room synchronized with the client (`room_handler.go:226`) | after a restart during champion select the players are unchanged, and `SyncFromChampSelect` returns before it sets the current room |
| `MCCurrentRoomReplicas.cfg` | `ReconnectingRecovers` | clients recover the latest state when reconnecting (`readME.md:108-109`) | the current room is in the memory of the polling instance; another replica answers with none |
| `MCCooldownsHidden.cfg` | `OnlyTogglesStart` | cooldown persistence during champion select (`readME.md:623`) | two members with hidden names share the empty Riot id, and both get the first one's cooldowns |
| `MCCooldownsWest.cfg` | `KeptUntilExpired` | a room is kept for 180 minutes (`constants/game.go:6`) | `LastUpdated` is a local time stored without its offset (`001_init.up.sql:5`): on a host west of UTC it lies in the past |
| `ProcessKilled.cfg` | `ShutdownIsClean` | the gRPC connection is closed during shutdown (`docs/adr/002:27-29`) | a request that outlasts ten seconds makes `Run` return an error, and `log.Fatal` skips the deferred `Close` |

`BrokerLink` has one more: publication failures are retried with backoff
(`docs/adr/001:129-130`), but an outage longer than the reconnection limit leaves a
process that claims events and cannot publish them. If its clock is ahead it can
claim each of them before the others find it due; the condition of
`EventuallyPublished` excludes exactly this.

## Not modelled

* The frontend, beyond what its connections do to the hub.
* Health checks, metrics, middleware, logging and configuration: they read or
  report state and change none of it. (`BrokerLink` uses that the health check
  does not look at the NATS connection.)
* Generated code (protobuf, API documentation) and the in-memory room repository,
  which tests use.
* The age limits of the streams, the parsing of requests and of the League client's
  answers, ping frames, the List RPC.
* Memory and time: queues of the NATS client and of the kernel are unbounded.

## Plan

1. Done: all modules above, with proofs of their safety; `GamePipeline` end to end.
2. The progress of the pipeline as one property: a played game eventually has its
   session, from the liveness of the legs. TLC can only check this on an instance
   smaller than that of `MCGamePipeline.cfg`.
3. `RoomFeed` over `RoomStore` instead of an atomic store: what clients see when the
   snapshot they are sent is a stale one from Redis.
