----------------------------- MODULE RoomStore -----------------------------
(***************************************************************************)
(* One room in PostgreSQL and in the Redis cache in front of it            *)
(* (internal/repositories/cached_room_repository.go,                       *)
(* internal/repositories/postgres/room), under the read-modify-write       *)
(* operations of RoomService (internal/services/room_service.go).          *)
(*                                                                         *)
(* Every operation that writes holds the mutex of its own service; a       *)
(* snapshot (GetRoomSnapshot) holds none.  Two services are two            *)
(* application instances on the same database and the same Redis.          *)
(*                                                                         *)
(* A room is the set of updates it reflects.  An update is a change made   *)
(* by AddPlayer, ReplacePlayers or ToggleSpellByRiotId.  A room is torn    *)
(* when its players have lost their spells.                                *)
(***************************************************************************)
EXTENDS FiniteSets

CONSTANTS
    Updates,        \* changes that clients ask for
    Writers,        \* request and ticker goroutines that change rooms
    Readers,        \* goroutines that take snapshots
    Services,       \* RoomService instances
    ServiceOf,      \* the service each goroutine runs in
    CacheMayFail,   \* can Redis refuse a SET or DEL?
    NoRoom          \* the room does not exist, or is not cached

Threads == Writers \union Readers

ASSUME ConstantsAssumption ==
    /\ Writers \intersect Readers = {}
    /\ ServiceOf \in [Threads -> Services]
    /\ CacheMayFail \in BOOLEAN

Room == [applied : SUBSET Updates, torn : BOOLEAN]
EmptyRoom == [applied |-> {}, torn |-> FALSE]

ASSUME NoRoomAssumption == NoRoom \notin Room

VARIABLES
    db,             \* the room in PostgreSQL
    cache,          \* the room in Redis
    step,           \* where each goroutine stands in its operation
    op,             \* its operation
    arg,            \* the updates that operation adds to the room
    view,           \* the room it has read
    moved,          \* were the room's rows replaced since it read the players?
    issued,         \* updates requested so far
    confirmed,      \* history: updates reported as done since the last deletion
    raced,          \* history: has something come between an update and the
                    \* next one that the mutex does not prevent?
    emptied         \* history: has a room with players been deleted, or replaced
                    \* by one without?

storeVars == <<db, cache>>
threadVars == <<step, op, arg, view, moved>>
historyVars == <<confirmed, raced, emptied>>
vars == <<storeVars, threadVars, issued, historyVars>>

TypeOK ==
    /\ db \in Room \union {NoRoom}
    /\ cache \in Room \union {NoRoom}
    /\ step \in [Threads -> {"idle", "lookup", "row", "players", "spells", "fill",
                             "modify", "save", "set", "delete", "evict"}]
    /\ op \in [Threads -> {"none", "read", "update", "create", "refresh", "cleanup"}]
    /\ arg \in [Threads -> SUBSET Updates]
    /\ view \in [Threads -> Room \union {NoRoom}]
    /\ \A t \in Threads : step[t] \in {"spells", "fill", "modify", "save", "set"} =>
                          view[t] # NoRoom
    /\ moved \in [Threads -> BOOLEAN]
    /\ issued \subseteq Updates
    /\ confirmed \subseteq issued
    /\ raced \in BOOLEAN /\ emptied \in BOOLEAN

Init ==
    /\ db = NoRoom /\ cache = NoRoom
    /\ step = [t \in Threads |-> "idle"]
    /\ op = [t \in Threads |-> "none"]
    /\ arg = [t \in Threads |-> {}]
    /\ view = [t \in Threads |-> NoRoom]
    /\ moved = [t \in Threads |-> FALSE]
    /\ issued = {} /\ confirmed = {}
    /\ raced = FALSE /\ emptied = FALSE

GoTo(t, s) == step' = [step EXCEPT ![t] = s]

\* The operation of t is over, successful or not.
Return(t) ==
    /\ GoTo(t, "idle")
    /\ op' = [op EXCEPT ![t] = "none"]
    /\ arg' = [arg EXCEPT ![t] = {}]
    /\ view' = [view EXCEPT ![t] = NoRoom]
    /\ moved' = [moved EXCEPT ![t] = FALSE]

-----------------------------------------------------------------------------
(***************************************************************************)
(* Starting an operation.                                                  *)
(***************************************************************************)

\* Mutant of Unlocked: the mutex is not taken.
UnlockedAlways(t) == TRUE

\* s.mu is not held by any goroutine of the service of t.
Unlocked(t) ==
    \A w \in Writers : ServiceOf[w] = ServiceOf[t] => step[w] = "idle"

Start(t, o, S, first) ==
    /\ step[t] = "idle"
    /\ op' = [op EXCEPT ![t] = o]
    /\ arg' = [arg EXCEPT ![t] = S]
    /\ GoTo(t, first)
    /\ UNCHANGED <<storeVars, view, moved, confirmed, emptied>>

\* An operation under the mutex.  The mutex of another instance does not keep it
\* from overlapping with an operation there.
Begin(t, o, S, first) ==
    /\ Unlocked(t)
    /\ Start(t, o, S, first)
    /\ raced' = (raced \/ \E w \in Writers : ServiceOf[w] # ServiceOf[t] /\ step[w] # "idle")

\* AddPlayer, ReplacePlayers, ToggleSpellByRiotId.
Update(t, u) ==
    /\ u \notin issued /\ issued' = issued \union {u}
    /\ Begin(t, "update", {u}, "lookup")

BeginCreate(t) == Begin(t, "create", {}, "lookup") /\ UNCHANGED issued

\* RefreshCooldowns and cleanupOldRooms read the rooms from PostgreSQL (GetAll).
BeginRefresh(t) == Begin(t, "refresh", {}, "row") /\ UNCHANGED issued

BeginCleanup(t) == Begin(t, "cleanup", {}, "row") /\ UNCHANGED issued

\* GetRoomSnapshot.
Snapshot(t) == Start(t, "read", {}, "lookup") /\ UNCHANGED <<issued, raced>>

-----------------------------------------------------------------------------
(***************************************************************************)
(* CachedRoomRepository.Get: the cache, or three queries and the cache.    *)
(***************************************************************************)

\* What an operation does with the room it has read.
Continue(t) ==
    CASE op[t] = "update" -> "modify"
      [] op[t] = "refresh" -> "modify"
      [] op[t] = "cleanup" -> "delete"
      [] OTHER -> "idle"

Obtain(t, room) ==
    IF Continue(t) = "idle" THEN Return(t)
    ELSE /\ GoTo(t, Continue(t))
         /\ view' = [view EXCEPT ![t] = room]
         /\ UNCHANGED <<op, arg, moved>>

\* A failing Redis counts as a miss.
Lookup(t) ==
    /\ step[t] = "lookup"
    /\ \/ cache # NoRoom /\ Obtain(t, cache)
       \/ /\ cache = NoRoom \/ CacheMayFail
          /\ GoTo(t, "row")
          /\ UNCHANGED <<op, arg, view, moved>>
    /\ UNCHANGED <<storeVars, issued, historyVars>>

\* loadRoom, first query.  CreateRoom goes on to save an empty room when there
\* is none; every other operation is over.
LoadRow(t) ==
    /\ step[t] = "row"
    /\ \/ /\ db # NoRoom
          /\ GoTo(t, "players")
          /\ UNCHANGED <<op, arg, view, moved>>
       \/ /\ db = NoRoom /\ op[t] = "create"
          /\ GoTo(t, "save")
          /\ view' = [view EXCEPT ![t] = EmptyRoom]
          /\ UNCHANGED <<op, arg, moved>>
       \/ /\ db = NoRoom /\ op[t] # "create"
          /\ Return(t)
    /\ UNCHANGED <<storeVars, issued, historyVars>>

\* loadPlayers: no players if the room has been deleted meanwhile.
LoadPlayers(t) ==
    /\ step[t] = "players"
    /\ GoTo(t, "spells")
    /\ view' = [view EXCEPT ![t] =
                  IF db = NoRoom THEN EmptyRoom ELSE db]
    /\ moved' = [moved EXCEPT ![t] = FALSE]
    /\ UNCHANGED <<storeVars, op, arg, issued, historyVars>>

\* Players, and with them spells, come into a room with its first update.
HasSpells == IF db = NoRoom THEN FALSE ELSE db.applied # {}

\* Mutant of LoadSpells: spells of players that were not read are skipped.
LoadSpellsSkipping(t) ==
    /\ step[t] = "spells"
    /\ GoTo(t, IF op[t] \in {"refresh", "cleanup"} THEN Continue(t) ELSE "fill")
    /\ view' = [view EXCEPT ![t].torn = moved[t] /\ view[t].applied # {}]
    /\ UNCHANGED <<storeVars, op, arg, moved, issued, historyVars>>

\* loadSpells.  Saving a room gives its players new ids: spells of players that
\* were not read make the load fail; if there are none, players have no spells.
LoadSpells(t) ==
    /\ step[t] = "spells"
    /\ LET next == IF op[t] \in {"refresh", "cleanup"} THEN Continue(t) ELSE "fill"
       IN \/ ~moved[t] /\ GoTo(t, next) /\ UNCHANGED <<op, arg, view, moved>>
          \/ /\ moved[t] /\ ~HasSpells
             /\ GoTo(t, next)
             /\ view' = [view EXCEPT ![t].torn = (view[t].applied # {})]
             /\ UNCHANGED <<op, arg, moved>>
          \/ moved[t] /\ HasSpells /\ Return(t)
    /\ UNCHANGED <<storeVars, issued, historyVars>>

\* cache.Set; a failure is only logged.
CacheSet(room) == cache' = room \/ (CacheMayFail /\ UNCHANGED cache)

Fill(t) ==
    /\ step[t] = "fill"
    /\ CacheSet(view[t])
    /\ raced' = (raced \/ (cache' = view[t] /\ view[t] # db))
    /\ Obtain(t, view[t])
    /\ UNCHANGED <<db, issued, confirmed, emptied>>

\* Any query fails: the operation returns the error.
LoadError(t) ==
    /\ step[t] \in {"row", "players", "spells"}
    /\ Return(t)
    /\ UNCHANGED <<storeVars, issued, historyVars>>

-----------------------------------------------------------------------------
(***************************************************************************)
(* Changing the room: PostgreSQL first, the cache after it.                *)
(***************************************************************************)

Modify(t) ==
    /\ step[t] = "modify"
    /\ GoTo(t, "save")
    /\ view' = [view EXCEPT ![t].applied = @ \union arg[t]]
    /\ UNCHANGED <<storeVars, op, arg, moved, issued, historyVars>>

\* Nothing to change (no such player or spell, equal players, cooldowns that
\* have not moved), or a room that is not old enough to be cleaned up.
NothingToDo(t) ==
    /\ step[t] \in {"modify", "delete"}
    /\ Return(t)
    /\ UNCHANGED <<storeVars, issued, historyVars>>

\* The rows of the room are replaced or removed.
Write(room) ==
    /\ db' = room
    /\ emptied' = (emptied \/ (HasSpells /\ ~HasSpells'))
    /\ moved' = [t \in Threads |-> moved[t] \/ step[t] = "spells"]

\* repository.Save commits.
Save(t) ==
    /\ step[t] = "save"
    /\ Write(view[t])
    /\ GoTo(t, "set")
    /\ UNCHANGED <<cache, op, arg, view, issued, confirmed, raced>>

\* Save stores the room in the cache and the operation reports success.
Set(t) ==
    /\ step[t] = "set"
    /\ CacheSet(view[t])
    /\ confirmed' = confirmed \union arg[t]
    /\ raced' = (raced \/ cache' \notin {NoRoom, view[t]})
    /\ Return(t)
    /\ UNCHANGED <<db, issued, emptied>>

\* repository.Delete commits.
Delete(t) ==
    /\ step[t] = "delete"
    /\ Write(NoRoom)
    /\ confirmed' = {}
    /\ GoTo(t, "evict")
    /\ UNCHANGED <<cache, op, arg, view, issued, raced>>

Evict(t) ==
    /\ step[t] = "evict"
    /\ CacheSet(NoRoom)
    /\ Return(t)
    /\ UNCHANGED <<db, issued, historyVars>>

\* The transaction fails, or the goroutine's process stops, with or without
\* the commit; the operation reports no success and the cache is left alone.
WriteError(t) ==
    /\ step[t] \in {"save", "delete", "set", "evict"}
    /\ Return(t)
    /\ UNCHANGED <<storeVars, issued, historyVars>>

-----------------------------------------------------------------------------

\* Mutant of Expire: the key is SET without a time to live.
ExpireNever == cache = NoRoom /\ UNCHANGED vars

\* ROOM_CACHE_TTL has passed since the last SET.
Expire ==
    /\ cache # NoRoom
    /\ cache' = NoRoom
    /\ UNCHANGED <<db, threadVars, issued, historyVars>>

Get(t) == Lookup(t) \/ LoadRow(t) \/ LoadPlayers(t) \/ LoadSpells(t) \/ Fill(t) \/ LoadError(t)

Change(t) ==
    \/ \E u \in Updates : Update(t, u)
    \/ BeginCreate(t) \/ BeginRefresh(t) \/ BeginCleanup(t)
    \/ Modify(t) \/ NothingToDo(t)
    \/ Save(t) \/ Set(t) \/ Delete(t) \/ Evict(t) \/ WriteError(t)

Next ==
    \/ \E t \in Threads : Get(t)
    \/ \E t \in Writers : Change(t)
    \/ \E t \in Readers : Snapshot(t)
    \/ Expire

Spec == Init /\ [][Next]_vars

\* Redis expires keys whatever the application does.
FairSpec == Spec /\ WF_vars(Expire)

-----------------------------------------------------------------------------
(***************************************************************************)
(* Properties.                                                             *)
(***************************************************************************)

(***************************************************************************)
(* "PostgreSQL and Redis retain the latest room state" (ADR 001): an       *)
(* update reported as done stays in the room until the room is deleted, in *)
(* PostgreSQL and in the cache (saveRoom, CachedRoomRepository.Save).      *)
(***************************************************************************)
NoLostUpdate ==
    /\ confirmed # {} => db # NoRoom /\ confirmed \subseteq db.applied
    /\ cache # NoRoom => confirmed \subseteq cache.applied

(***************************************************************************)
(* Only three things make an update that was reported as done disappear: a *)
(* load that puts a room into the cache which PostgreSQL no longer holds,  *)
(* a SET that fails after a save and leaves an older room behind, and an   *)
(* operation of one instance that overlaps with one of another.  Nothing   *)
(* else does, in any order of updates, snapshots, refreshes, cleanups,     *)
(* failed and ambiguous saves and expiring keys (RoomService's mutex,      *)
(* saveRoom, CachedRoomRepository).                                        *)
(***************************************************************************)
UpdatesKeptUnlessRaced == ~raced => NoLostUpdate

(***************************************************************************)
(* loadRoom reads a room in three statements without a transaction, also   *)
(* without the mutex and next to other instances.  As long as no room with *)
(* players is deleted or emptied, neither store ever holds players that    *)
(* have lost their spells (loadSpells fails on spells of other players).   *)
(***************************************************************************)
NoTornRoom == ~emptied => \A room \in {db, cache} \ {NoRoom} : ~room.torn

(***************************************************************************)
(* Once PostgreSQL stops changing, the cache agrees with it from some      *)
(* moment on, whatever races and failed cache writes came before           *)
(* (CachedRoomRepository, RedisRoomCache's TTL).                           *)
(***************************************************************************)
EventuallyCoherent ==
    <>[][UNCHANGED db]_db => <>[](cache \in {NoRoom, db})
=============================================================================
