-------------------------- MODULE ChampionCatalog --------------------------
(***************************************************************************)
(* Champion metadata: the champion service (cmd/champion-service,          *)
(* internal/services/champion_service.go, championgrpc/server.go), the     *)
(* gRPC client of the backend (championgrpc/client.go) and the loop of     *)
(* SyncFromChampSelect (internal/services/room_service.go) that asks for   *)
(* the champion of every member of the team before it replaces the players *)
(* of the room.                                                            *)
(*                                                                         *)
(* The name of a champion is the champion itself; Unknown stands for the   *)
(* fallback "Unknown" without image.  Only the instance on the host of the *)
(* League client synchronizes, and it asks for one champion at a time.     *)
(***************************************************************************)
EXTENDS Naturals, FiniteSets

CONSTANTS
    Members,        \* members of the team
    Champions,      \* champions there may be
    NoChampion,     \* the champion of a member who has not picked (id 0)
    Unknown,        \* the fallback name
    MaxPicks        \* bound on the picks

ASSUME CatalogAssumption ==
    /\ IsFiniteSet(Members) /\ IsFiniteSet(Champions)
    /\ NoChampion \notin Champions /\ Unknown \notin Champions
    /\ MaxPicks \in Nat

VARIABLES
    released,       \* the champions of the latest Data Dragon version
    service,        \* where main of the champion service stands
    versioned,      \* the champions of the version it is loading
    catalog,        \* ChampionService.champions
    health,         \* what its health service reports
    ghost,          \* a call its caller has given up is still being handled
    picks,          \* the champion of each member in the champion select
    picked,         \* picks so far
    slow,           \* may a call take longer than its deadline?
    cancelled,      \* has the context of the poller been cancelled?
    syncing,        \* does SyncFromChampSelect run?
    seen,           \* the session it was given
    todo,           \* the members it has not asked for yet
    asked,          \* the member of the present call, in a set
    call,           \* the present call
    names,          \* the names it has collected
    stored,         \* the players of the room
    sessions        \* history: the sessions synchronized

serviceVars == <<service, versioned, catalog, health>>
worldVars == <<released, picks, picked, slow>>
syncVars == <<syncing, seen, todo, names>>
callVars == <<call, asked, ghost>>
catalogVars ==
    <<serviceVars, worldVars, syncVars, callVars, cancelled, stored, sessions>>

Picks == [Members -> Champions \union {NoChampion}]
Names == Champions \union {Unknown}
NoNames == [m \in Members |-> Unknown]
NoPicks == [m \in Members |-> NoChampion]

CatalogTypeOK ==
    /\ released \subseteq Champions
    /\ service \in {"down", "loading", "versioned", "loaded", "listening", "serving",
                    "leaving", "stopping"}
    /\ versioned \subseteq Champions /\ catalog \subseteq Champions
    /\ health \in {"unreachable", "SERVING", "NOT_SERVING"}
    /\ ghost \in BOOLEAN
    /\ picks \in Picks /\ picked \in 0..MaxPicks
    /\ slow \in BOOLEAN /\ cancelled \in BOOLEAN /\ syncing \in BOOLEAN
    /\ seen \in Picks
    /\ todo \subseteq Members
    /\ asked \subseteq Members
    /\ call \in {"none", "sent", "handled", "lost"}
    /\ names \in [Members -> Names]
    /\ stored \in [champions : Picks, names : [Members -> Names]]
    /\ sessions \subseteq Picks

CatalogInit ==
    /\ released \in SUBSET Champions
    /\ service = "down" /\ versioned = {} /\ catalog = {} /\ health = "unreachable"
    /\ ghost = FALSE
    /\ picks = NoPicks /\ picked = 0
    /\ slow = TRUE /\ cancelled = FALSE /\ syncing = FALSE
    /\ seen = NoPicks /\ todo = {} /\ asked = {} /\ call = "none"
    /\ names = NoNames
    /\ stored = [champions |-> NoPicks, names |-> NoNames]
    /\ sessions = {NoPicks}

-----------------------------------------------------------------------------
(***************************************************************************)
(* Data Dragon, the champion select, the network.                          *)
(***************************************************************************)

\* Riot publishes a version with one more champion.
Release ==
    /\ \E c \in Champions \ released : released' = released \union {c}
    /\ UNCHANGED <<serviceVars, picks, picked, slow, syncVars, callVars, cancelled, stored,
                   sessions>>

Pick ==
    /\ picked < MaxPicks
    /\ picked' = picked + 1
    /\ \E m \in Members, c \in Champions : picks' = [picks EXCEPT ![m] = c]
    /\ UNCHANGED <<serviceVars, released, slow, syncVars, callVars, cancelled, stored, sessions>>

\* From now on calls are answered in time.
Settle ==
    /\ slow /\ slow' = FALSE
    /\ UNCHANGED <<serviceVars, released, picks, picked, syncVars, callVars, cancelled, stored,
                   sessions>>

-----------------------------------------------------------------------------
(***************************************************************************)
(* The champion service.                                                   *)
(***************************************************************************)

rest == <<worldVars, syncVars, callVars, cancelled, stored, sessions>>

StartService ==
    /\ service = "down"
    /\ service' = "loading"
    /\ UNCHANGED <<versioned, catalog, health, rest>>

\* loadLatestVersion.
LoadLatestVersion ==
    /\ service = "loading"
    /\ versioned' = released
    /\ service' = "versioned"
    /\ UNCHANGED <<catalog, health, rest>>

\* loadChampions of that version; the map is swapped in whole.
LoadChampions ==
    /\ service = "versioned"
    /\ catalog' = versioned
    /\ service' = "loaded"
    /\ UNCHANGED <<versioned, health, rest>>

Listen ==
    /\ service = "loaded"
    /\ service' = "listening"
    /\ UNCHANGED <<versioned, catalog, health, rest>>

\* SERVING, then Serve.
Serve ==
    /\ service = "listening"
    /\ IF health = "unreachable" THEN health' = "SERVING" /\ UNCHANGED service
       ELSE service' = "serving" /\ UNCHANGED health
    /\ UNCHANGED <<versioned, catalog, rest>>

\* Mutant of Leave: the service stops before it says so.
LeaveUnannounced ==
    /\ service = "serving"
    /\ service' = "stopping"
    /\ UNCHANGED <<versioned, catalog, health, rest>>

\* The signal: NOT_SERVING first.
Leave ==
    /\ service = "serving"
    /\ health' = "NOT_SERVING"
    /\ service' = "leaving"
    /\ UNCHANGED <<versioned, catalog, rest>>

\* GracefulStop accepts nothing more.
GracefulStop ==
    /\ service = "leaving"
    /\ service' = "stopping"
    /\ UNCHANGED <<versioned, catalog, health, rest>>

Handling == call = "handled" \/ ghost

\* The process is gone, and a call it was handling fails (Unavailable).
Gone ==
    /\ service' = "down" /\ health' = "unreachable"
    /\ catalog' = {} /\ versioned' = {}
    /\ ghost' = FALSE
    /\ call' = IF call = "handled" THEN "lost" ELSE call
    /\ UNCHANGED <<worldVars, syncVars, asked, cancelled, stored, sessions>>

\* GracefulStop returns once nothing is being handled.
Stopped == service = "stopping" /\ ~Handling /\ Gone

\* Ten seconds are over: Stop.
StopTimesOut == service = "stopping" /\ Gone

\* log.Fatal (the catalog cannot be loaded, the listener or Serve fails), or a crash.
ServiceFails == service # "down" /\ Gone

-----------------------------------------------------------------------------
(***************************************************************************)
(* SyncFromChampSelect and its calls.                                      *)
(***************************************************************************)

syncRest == <<serviceVars, worldVars, cancelled, stored, sessions>>

\* Mutant of BeginSync: the ids stand in for the names.
BeginSyncWithIds ==
    /\ ~syncing
    /\ syncing' = TRUE
    /\ seen' = picks /\ todo' = Members /\ names' = picks
    /\ sessions' = sessions \union {picks}
    /\ UNCHANGED <<serviceVars, worldVars, callVars, cancelled, stored>>

\* A tick in champion select, with the session it has read.
BeginSync ==
    /\ ~syncing
    /\ syncing' = TRUE
    /\ seen' = picks /\ todo' = Members /\ names' = NoNames
    /\ sessions' = sessions \union {picks}
    /\ UNCHANGED <<serviceVars, worldVars, callVars, cancelled, stored>>

\* Mutant of Ask: only champions that have changed are asked for.
AskForChanged(m) ==
    /\ syncing /\ call = "none" /\ m \in todo
    /\ todo' = todo \ {m}
    /\ IF seen[m] = stored.champions[m]
       THEN names' = [names EXCEPT ![m] = stored.names[m]] /\ UNCHANGED <<call, asked>>
       ELSE call' = "sent" /\ asked' = {m} /\ UNCHANGED names
    /\ UNCHANGED <<syncRest, syncing, seen, ghost>>

\* Client.Get: id 0 is refused without a call, which leaves the name Unknown.
Ask(m) ==
    /\ syncing /\ call = "none" /\ m \in todo
    /\ todo' = todo \ {m}
    /\ IF seen[m] = NoChampion THEN UNCHANGED <<call, asked>>
       ELSE call' = "sent" /\ asked' = {m}
    /\ UNCHANGED <<syncRest, syncing, seen, names, ghost>>

Accept ==
    /\ call = "sent" /\ service \in {"serving", "leaving"}
    /\ call' = "handled"
    /\ UNCHANGED <<syncRest, syncVars, asked, ghost>>

EndCall == call' = "none" /\ asked' = {}

\* GetChampion: the champion, or NotFound.
GetChampion ==
    /\ call = "handled"
    /\ EndCall
    /\ names' = [m \in Members |->
                   IF m \in asked /\ seen[m] \in catalog THEN seen[m] ELSE names[m]]
    /\ UNCHANGED <<syncRest, syncing, seen, todo, ghost>>

\* A call whose caller has gone is handled to its end.
EndGhost ==
    /\ ghost /\ ghost' = FALSE
    /\ UNCHANGED <<syncRest, syncVars, call, asked>>

Abandon == syncing' = FALSE /\ todo' = {} /\ seen' = NoPicks /\ names' = NoNames

\* The call has failed.  The name stays Unknown, unless the context of the
\* synchronization has been cancelled: then the synchronization is given up.
FallBack ==
    /\ EndCall
    /\ IF cancelled THEN Abandon ELSE UNCHANGED syncVars

\* Unavailable: nobody listens, or the service has gone while it handled the call.
Unavailable ==
    /\ \/ call = "lost"
       \/ call = "sent" /\ service \notin {"listening", "serving", "leaving"}
    /\ FallBack
    /\ UNCHANGED <<syncRest, ghost>>

\* Mutant of DeadlineExceeded: the call has no deadline of its own.
DeadlineOfTheParent ==
    /\ call # "none" /\ cancelled
    /\ FallBack
    /\ ghost' = (ghost \/ call = "handled")
    /\ UNCHANGED syncRest

\* DeadlineExceeded, after two seconds, or Canceled.
DeadlineExceeded ==
    /\ call # "none"
    /\ slow \/ cancelled \/ service # "serving"
    /\ FallBack
    /\ ghost' = (ghost \/ call = "handled")
    /\ UNCHANGED syncRest

AllAsked == syncing /\ todo = {} /\ call = "none"

\* Mutant of ReplacePlayers: a name found before is kept.
ReplacePlayersKeepNames ==
    /\ AllAsked
    /\ Abandon
    /\ stored' = [champions |-> seen,
                  names |-> [m \in Members |->
                               IF stored.names[m] = Unknown THEN names[m] ELSE stored.names[m]]]
    /\ UNCHANGED <<serviceVars, worldVars, callVars, cancelled, sessions>>

\* ReplacePlayers (whole, one transaction).
ReplacePlayers ==
    /\ AllAsked /\ ~cancelled
    /\ Abandon
    /\ stored' = [champions |-> seen, names |-> names]
    /\ UNCHANGED <<serviceVars, worldVars, callVars, cancelled, sessions>>

\* The room cannot be read or saved, always so once the context is cancelled; a
\* transaction whose commit is cut short may have been made.
ReplaceFails ==
    /\ AllAsked
    /\ Abandon
    /\ stored' \in {stored, [champions |-> seen, names |-> names]}
    /\ UNCHANGED <<serviceVars, worldVars, callVars, cancelled, sessions>>

\* The application is asked to stop, and another is started once this one has ended.
Cancel ==
    /\ ~cancelled /\ cancelled' = TRUE
    /\ UNCHANGED <<serviceVars, worldVars, syncVars, callVars, stored, sessions>>

RestartApp ==
    /\ cancelled /\ ~syncing /\ cancelled' = FALSE
    /\ UNCHANGED <<serviceVars, worldVars, syncVars, callVars, stored, sessions>>

-----------------------------------------------------------------------------

Service ==
    \/ StartService \/ LoadLatestVersion \/ LoadChampions \/ Listen \/ Serve
    \/ Stopped \/ StopTimesOut

Sync ==
    \/ BeginSync \/ (\E m \in Members : Ask(m)) \/ ReplacePlayers \/ ReplaceFails
    \/ Unavailable \/ DeadlineExceeded

CatalogNext ==
    \/ Release \/ Pick \/ Settle
    \/ Service \/ Leave \/ GracefulStop \/ ServiceFails
    \/ Sync \/ Accept \/ GetChampion \/ EndGhost
    \/ Cancel \/ RestartApp

CatalogSpec == CatalogInit /\ [][CatalogNext]_catalogVars

\* The poller ticks, a deadline passes whatever the service does, the application
\* is restarted, and the database does not fail for ever.  A handler may hang as
\* long as calls may be slow, and the service may stay down.
CatalogFairness ==
    /\ WF_catalogVars(Sync)
    /\ SF_catalogVars(DeadlineExceeded) /\ SF_catalogVars(ReplacePlayers)
    /\ WF_catalogVars(Accept) /\ WF_catalogVars(~slow /\ GetChampion)
    /\ WF_catalogVars(RestartApp)

FairCatalogSpec == CatalogSpec /\ CatalogFairness

-----------------------------------------------------------------------------
(***************************************************************************)
(* Properties.                                                             *)
(***************************************************************************)

(***************************************************************************)
(* The service reports SERVING only while it accepts connections with its  *)
(* catalog loaded: not before Load has returned, and not once it has begun *)
(* to stop (cmd/champion-service/main.go, docs/adr/002).                   *)
(***************************************************************************)
ServingIsHonest ==
    health = "SERVING" => service \in {"listening", "serving"} /\ catalog = versioned

(***************************************************************************)
(* The players of the room come whole from one session of the champion     *)
(* select, whatever fails or is cancelled half way through, and each has   *)
(* the name of his own champion or Unknown (SyncFromChampSelect collects   *)
(* the players first and replaces them at the end).                        *)
(***************************************************************************)
PlayersAreOneSession ==
    /\ stored.champions \in sessions
    /\ \A m \in Members : stored.names[m] \in {stored.champions[m], Unknown}

(***************************************************************************)
(* The champion service never blocks the synchronization: each one ends,   *)
(* though the service is down, hangs or restarts (the deadline of          *)
(* Client.Get).                                                            *)
(***************************************************************************)
SyncEnds == syncing ~> ~syncing

\* Picks are made, and the service is up, knows them and answers in time.
Calm ==
    /\ service = "serving" /\ ~slow /\ ~cancelled
    /\ \A m \in Members : picks[m] \in catalog

(***************************************************************************)
(* A name lost to a failed call comes back: when the service stays up and  *)
(* the champion select lasts, the players end up with the names of their   *)
(* champions (the next tick asks again for all of them).                   *)
(***************************************************************************)
EventuallyNamed ==
    <>[]Calm => <>[](stored = [champions |-> picks, names |-> picks])
=============================================================================
