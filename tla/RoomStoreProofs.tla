-------------------------- MODULE RoomStoreProofs --------------------------
(***************************************************************************)
(* Proofs about a room: how it is stored (RoomStore, for any updates,      *)
(* services, goroutines that write or take snapshots, and a cache that     *)
(* fails), and what its spells do (Cooldowns, for any Riot ids, spells,    *)
(* haste and tick rate).                                                   *)
(*                                                                         *)
(* RoomStore, torn rooms: every room anybody has read has its spells, and  *)
(* while players whose spells are still to be read are in view, the room   *)
(* in PostgreSQL has some (Whole), so a load over a save fails instead of  *)
(* returning players without spells.                                       *)
(*                                                                         *)
(* RoomStore, kept updates: until something races, the mutex leaves at     *)
(* most one goroutine inside a writing operation (MutexHeld), so what it   *)
(* loads is still what PostgreSQL holds, and the room it saves contains    *)
(* everything that was confirmed before (ViewCurrent); snapshots only      *)
(* matter through the room they put into the cache (Kept).                 *)
(*                                                                         *)
(* Cooldowns: every step takes each spell of the new room from the old one *)
(* in one of a few ways (Steps).  From them follow coherence (Tidy), that  *)
(* an end time lies at most a base cooldown after the last save (Stamped,  *)
(* for the cleanup), and that a team without namesakes stays one           *)
(* (Distinct), in which a sync copies each spell from its own player.      *)
(***************************************************************************)
EXTENDS RoomStore, Cooldowns, TLAPS, SequenceTheorems, FiniteSetTheorems

USE ConstantsAssumption, NoRoomAssumption

-----------------------------------------------------------------------------
(***************************************************************************)
(* Types and roles.                                                        *)
(***************************************************************************)

\* A snapshot never leaves the load, and an operation adds updates that were
\* requested.
Roles ==
    /\ \A t \in Threads : arg[t] \subseteq issued /\ (op[t] # "update" => arg[t] = {})
    /\ \A t \in Readers :
          /\ op[t] \in {"none", "read"}
          /\ step[t] \in {"idle", "lookup", "row", "players", "spells", "fill"}

LEMMA EmptyRoomFacts ==
  /\ EmptyRoom \in Room /\ EmptyRoom # NoRoom
  /\ EmptyRoom.torn = FALSE /\ EmptyRoom.applied = {}
<1>1. EmptyRoom \in Room
  BY DEF EmptyRoom, Room
<1>2. EmptyRoom.torn = FALSE /\ EmptyRoom.applied = {}
  BY DEF EmptyRoom
<1> QED
  BY <1>1, <1>2

\* What the load of a goroutine does to it.
LEMMA ContinueFacts ==
  ASSUME NEW t \in Threads
  PROVE  /\ Continue(t) \in {"modify", "delete", "idle"}
         /\ op[t] \in {"none", "read"} => Continue(t) = "idle"
         /\ op[t] \in {"refresh", "cleanup"} => Continue(t) \in {"modify", "delete"}
  BY DEF Continue

LEMMA ReturnTypes ==
  ASSUME TypeOK, Roles, NEW t \in Threads, Return(t), issued' = issued
  PROVE  /\ step' \in [Threads -> {"idle", "lookup", "row", "players", "spells", "fill",
                                   "modify", "save", "set", "delete", "evict"}]
         /\ op' \in [Threads -> {"none", "read", "update", "create", "refresh", "cleanup"}]
         /\ arg' \in [Threads -> SUBSET Updates]
         /\ view' \in [Threads -> Room \union {NoRoom}]
         /\ \A u \in Threads : step'[u] \in {"spells", "fill", "modify", "save", "set"} =>
                                  view'[u] # NoRoom
         /\ moved' \in [Threads -> BOOLEAN]
         /\ Roles'
<1>1. /\ step' = [step EXCEPT ![t] = "idle"] /\ op' = [op EXCEPT ![t] = "none"]
      /\ arg' = [arg EXCEPT ![t] = {}] /\ view' = [view EXCEPT ![t] = NoRoom]
      /\ moved' = [moved EXCEPT ![t] = FALSE]
  BY DEF Return, GoTo
<1>2. Roles'
  BY <1>1 DEF TypeOK, Roles, Threads
<1> QED
  BY <1>1, <1>2 DEF TypeOK

LEMMA ObtainTypes ==
  ASSUME TypeOK, Roles, NEW t \in Threads, NEW room \in Room, Obtain(t, room),
         UNCHANGED <<db, issued, confirmed, emptied>>, cache' \in Room \union {NoRoom},
         raced' \in BOOLEAN
  PROVE  TypeOK' /\ Roles'
<1>1. CASE Continue(t) = "idle"
  <2>1. Return(t)
    BY <1>1 DEF Obtain
  <2> QED
    BY <2>1, ReturnTypes DEF TypeOK
<1>2. CASE Continue(t) # "idle"
  <2>1. /\ step' = [step EXCEPT ![t] = Continue(t)] /\ Continue(t) \in {"modify", "delete"}
        /\ view' = [view EXCEPT ![t] = room] /\ UNCHANGED <<op, arg, moved>>
        /\ t \notin Readers
    BY <1>2, ContinueFacts DEF Obtain, GoTo, Roles
  <2>2. TypeOK'
    BY <2>1 DEF TypeOK
  <2>3. Roles'
    BY <2>1 DEF TypeOK, Roles, Threads
  <2> QED
    BY <2>2, <2>3
<1> QED
  BY <1>1, <1>2

\* A load changes no store but the cache.
LEMMA GetTypes ==
  ASSUME TypeOK, Roles, NEW t \in Threads, Get(t)
  PROVE  TypeOK' /\ Roles'
<1>1. CASE Lookup(t)
  <2>1. UNCHANGED <<db, cache, issued, confirmed, raced, emptied>>
    BY <1>1 DEF Lookup, storeVars, historyVars
  <2>2. CASE cache # NoRoom /\ Obtain(t, cache)
    BY <2>1, <2>2, ObtainTypes DEF TypeOK
  <2>3. CASE GoTo(t, "row") /\ UNCHANGED <<op, arg, view, moved>>
    BY <2>1, <2>3 DEF GoTo, TypeOK, Roles, Threads
  <2> QED
    BY <1>1, <2>2, <2>3 DEF Lookup
<1>2. CASE LoadRow(t)
  <2>1. UNCHANGED <<db, cache, issued, confirmed, raced, emptied>>
    BY <1>2 DEF LoadRow, storeVars, historyVars
  <2>2. CASE GoTo(t, "players") /\ UNCHANGED <<op, arg, view, moved>>
    BY <2>1, <2>2 DEF GoTo, TypeOK, Roles, Threads
  <2>3. CASE /\ op[t] = "create" /\ GoTo(t, "save")
             /\ view' = [view EXCEPT ![t] = EmptyRoom] /\ UNCHANGED <<op, arg, moved>>
    <3>1. t \notin Readers
      BY <2>3 DEF Roles
    <3> QED
      BY <2>1, <2>3, <3>1, EmptyRoomFacts DEF GoTo, TypeOK, Roles, Threads
  <2>4. CASE Return(t)
    BY <2>1, <2>4, ReturnTypes DEF TypeOK
  <2> QED
    BY <1>2, <2>2, <2>3, <2>4 DEF LoadRow
<1>3. CASE LoadPlayers(t)
  <2>1. /\ UNCHANGED <<db, cache, op, arg, issued, confirmed, raced, emptied>>
        /\ step' = [step EXCEPT ![t] = "spells"] /\ moved' = [moved EXCEPT ![t] = FALSE]
        /\ view' = [view EXCEPT ![t] = IF db = NoRoom THEN EmptyRoom ELSE db]
    BY <1>3 DEF LoadPlayers, GoTo, storeVars, historyVars
  <2> QED
    BY <2>1, EmptyRoomFacts DEF TypeOK, Roles, Threads
<1>4. CASE LoadSpells(t)
  <2>1. UNCHANGED <<db, cache, issued, confirmed, raced, emptied>> /\ step[t] = "spells"
    BY <1>4 DEF LoadSpells, storeVars, historyVars
  <2>2. CASE Return(t)
    BY <2>1, <2>2, ReturnTypes DEF TypeOK
  <2>3. CASE ~Return(t)
    <3>1. PICK s \in {"fill", "modify", "delete"}, torn \in BOOLEAN :
            /\ t \in Readers => s = "fill"
            /\ GoTo(t, s) /\ UNCHANGED <<op, arg, moved>>
            /\ view' = view \/ view' = [view EXCEPT ![t].torn = torn]
      BY <1>4, <2>3, ContinueFacts DEF LoadSpells, Roles
    <3>2. view[t] \in Room /\ view[t] # NoRoom
      BY <2>1 DEF TypeOK
    <3>3. view'[t] \in Room /\ view'[t] # NoRoom /\ \A u \in Threads : u # t => view'[u] = view[u]
      BY <3>1, <3>2 DEF TypeOK, Room
    <3>4. view' \in [Threads -> Room \union {NoRoom}]
      BY <3>1, <3>3 DEF TypeOK
    <3>5. TypeOK'
      BY <2>1, <3>1, <3>3, <3>4 DEF GoTo, TypeOK
    <3>6. Roles'
      BY <2>1, <3>1 DEF GoTo, TypeOK, Roles, Threads
    <3> QED
      BY <3>5, <3>6
  <2> QED
    BY <2>2, <2>3
<1>5. CASE Fill(t)
  <2>1. view[t] \in Room /\ Obtain(t, view[t]) /\ UNCHANGED <<db, issued, confirmed, emptied>>
    BY <1>5 DEF Fill, TypeOK
  <2>2. cache' \in Room \union {NoRoom} /\ raced' \in BOOLEAN
    BY <1>5, <2>1 DEF Fill, CacheSet, TypeOK
  <2> QED
    BY <2>1, <2>2, ObtainTypes
<1>6. CASE LoadError(t)
  <2>1. Return(t) /\ UNCHANGED <<db, cache, issued, confirmed, raced, emptied>>
    BY <1>6 DEF LoadError, storeVars, historyVars
  <2> QED
    BY <2>1, ReturnTypes DEF TypeOK
<1> QED
  BY <1>1, <1>2, <1>3, <1>4, <1>5, <1>6 DEF Get

LEMMA StartTypes ==
  ASSUME TypeOK, Roles, NEW t \in Threads,
         NEW o \in {"read", "update", "create", "refresh", "cleanup"}, t \in Readers => o = "read",
         NEW S \in SUBSET issued', o # "update" => S = {}, NEW first \in {"lookup", "row"},
         Start(t, o, S, first), issued \subseteq issued', issued' \subseteq Updates,
         raced' \in BOOLEAN
  PROVE  TypeOK' /\ Roles'
<1>1. /\ UNCHANGED <<db, cache, view, moved, confirmed, emptied>>
      /\ step' = [step EXCEPT ![t] = first]
      /\ op' = [op EXCEPT ![t] = o] /\ arg' = [arg EXCEPT ![t] = S]
  BY DEF Start, GoTo, storeVars
<1>2. TypeOK'
  BY <1>1 DEF TypeOK
<1>3. Roles'
  BY <1>1 DEF TypeOK, Roles, Threads
<1> QED
  BY <1>2, <1>3

LEMMA ChangeTypes ==
  ASSUME TypeOK, Roles, NEW t \in Writers, Change(t)
  PROVE  TypeOK' /\ Roles'
<1>a. t \in Threads /\ t \notin Readers
  BY DEF Threads
<1>b. \A o, S, first : Begin(t, o, S, first) => Start(t, o, S, first) /\ raced' \in BOOLEAN
  BY DEF Begin, TypeOK
<1>1. ASSUME NEW u \in Updates, Update(t, u) PROVE TypeOK' /\ Roles'
  <2>1. issued' = issued \union {u} /\ Start(t, "update", {u}, "lookup") /\ raced' \in BOOLEAN
    BY <1>1, <1>b DEF Update
  <2> QED
    BY <1>a, <2>1, StartTypes DEF TypeOK
<1>2. CASE BeginCreate(t) \/ BeginRefresh(t) \/ BeginCleanup(t)
  <2>1. PICK o \in {"create", "refresh", "cleanup"}, first \in {"lookup", "row"} :
          Start(t, o, {}, first) /\ raced' \in BOOLEAN /\ issued' = issued
    BY <1>2, <1>b DEF BeginCreate, BeginRefresh, BeginCleanup
  <2> QED
    BY <1>a, <2>1, StartTypes DEF TypeOK
<1>3. CASE Modify(t)
  <2>1. view[t] \in Room /\ view[t] # NoRoom /\ arg[t] \subseteq Updates
    BY <1>a, <1>3 DEF Modify, TypeOK
  <2>2. /\ UNCHANGED <<db, cache, op, arg, moved, issued, confirmed, raced, emptied>>
        /\ step' = [step EXCEPT ![t] = "save"]
        /\ view' = [view EXCEPT ![t].applied = @ \union arg[t]]
    BY <1>3 DEF Modify, GoTo, storeVars, historyVars
  <2>3. view'[t] \in Room /\ \A u \in Threads : u # t => view'[u] = view[u]
    BY <1>a, <2>1, <2>2 DEF TypeOK, Room
  <2>4. view' \in [Threads -> Room \union {NoRoom}]
    BY <1>a, <2>2, <2>3 DEF TypeOK
  <2>5. TypeOK'
    BY <1>a, <2>2, <2>3, <2>4 DEF TypeOK
  <2>6. Roles'
    BY <1>a, <2>2 DEF TypeOK, Roles, Threads
  <2> QED
    BY <2>5, <2>6
<1>4. CASE NothingToDo(t) \/ WriteError(t) \/ Evict(t)
  <2>1. /\ Return(t) /\ UNCHANGED <<db, issued, confirmed, raced, emptied>>
        /\ cache' \in {cache, NoRoom}
    BY <1>4 DEF NothingToDo, WriteError, Evict, CacheSet, storeVars, historyVars
  <2> QED
    BY <1>a, <2>1, ReturnTypes DEF TypeOK
<1>5. CASE Save(t) \/ Delete(t)
  <2>1. PICK s \in {"set", "evict"} :
          /\ step' = [step EXCEPT ![t] = s]
          /\ s = "set" => view[t] # NoRoom
          /\ UNCHANGED <<cache, op, arg, view, issued, raced>>
          /\ confirmed' \in {confirmed, {}}
          /\ db' \in Room \union {NoRoom}
    BY <1>a, <1>5 DEF Save, Delete, Write, GoTo, TypeOK
  <2>2. moved' \in [Threads -> BOOLEAN] /\ emptied' \in BOOLEAN
    BY <1>5 DEF Save, Delete, Write, TypeOK
  <2>3. TypeOK'
    BY <1>a, <2>1, <2>2 DEF TypeOK
  <2>4. Roles'
    BY <1>a, <2>1 DEF TypeOK, Roles, Threads
  <2> QED
    BY <2>3, <2>4
<1>6. CASE Set(t)
  <2>1. /\ Return(t) /\ UNCHANGED <<db, issued, emptied>> /\ view[t] \in Room
        /\ confirmed' = confirmed \union arg[t] /\ raced' \in BOOLEAN
    BY <1>a, <1>6 DEF Set, TypeOK
  <2>2. cache' \in Room \union {NoRoom} /\ confirmed' \subseteq issued
    BY <1>a, <1>6, <2>1 DEF Set, CacheSet, TypeOK, Roles
  <2> QED
    BY <1>a, <2>1, <2>2, ReturnTypes DEF TypeOK
<1> QED
  BY <1>1, <1>2, <1>3, <1>4, <1>5, <1>6 DEF Change

LEMMA TypesStep == TypeOK /\ Roles /\ [Next]_vars => TypeOK' /\ Roles'
<1> SUFFICES ASSUME TypeOK, Roles, [Next]_vars PROVE TypeOK' /\ Roles'
  OBVIOUS
<1>1. CASE Expire \/ UNCHANGED vars
  <2>1. /\ cache' \in {cache, NoRoom}
        /\ UNCHANGED <<db, step, op, arg, view, moved, issued, confirmed, raced, emptied>>
    BY <1>1 DEF Expire, vars, storeVars, threadVars, historyVars
  <2> QED
    BY <2>1 DEF TypeOK, Roles
<1>2. ASSUME NEW t \in Readers, Snapshot(t) PROVE TypeOK' /\ Roles'
  <2>1. t \in Threads /\ issued' = issued /\ raced' = raced
        /\ Start(t, "read", {}, "lookup")
    BY <1>2 DEF Snapshot, Threads
  <2> QED
    BY <2>1, StartTypes DEF TypeOK
<1> QED
  BY <1>1, <1>2, GetTypes, ChangeTypes DEF Next

LEMMA InitTypes == Init => TypeOK /\ Roles
  BY DEF Init, TypeOK, Roles, Threads

(***************************************************************************)
(* In every reachable state the variables have their types, and snapshots  *)
(* change nothing in PostgreSQL (GetRoomSnapshot).                         *)
(***************************************************************************)
THEOREM RoomTypes == Spec => [](TypeOK /\ Roles)
  BY InitTypes, TypesStep, PTL DEF Spec

-----------------------------------------------------------------------------
(***************************************************************************)
(* Whole rooms.                                                            *)
(***************************************************************************)

\* Whatever anybody has read has its spells, and players that were read still
\* have theirs when the spells are read.
Whole ==
    /\ db # NoRoom => db.torn = FALSE
    /\ cache # NoRoom => cache.torn = FALSE
    /\ \A t \in Threads :
          /\ view[t] # NoRoom => view[t].torn = FALSE
          /\ step[t] = "spells" /\ view[t].applied # {} => HasSpells

LEMMA ReturnWhole ==
  ASSUME TypeOK, Whole, NEW t \in Threads, Return(t), db' = db,
         cache' \in {cache, NoRoom, view[t]}
  PROVE  Whole'
<1>1. /\ step' = [step EXCEPT ![t] = "idle"] /\ view' = [view EXCEPT ![t] = NoRoom]
  BY DEF Return, GoTo
<1> QED
  BY <1>1 DEF TypeOK, Whole, HasSpells

\* A step that keeps PostgreSQL and every view but one, which is taken from a store.
LEMMA MoveWhole ==
  ASSUME TypeOK, Whole, NEW t \in Threads, NEW s, GoTo(t, s), db' = db,
         cache' \in {cache, view[t]}, NEW room \in Room \union {NoRoom},
         view' = [view EXCEPT ![t] = room],
         room # NoRoom => room.torn = FALSE,
         s = "spells" /\ room.applied # {} => HasSpells
  PROVE  Whole'
<1>1. step' = [step EXCEPT ![t] = s]
  BY DEF GoTo
<1>2. HasSpells' = HasSpells
  BY DEF HasSpells
<1> QED
  BY <1>1, <1>2 DEF TypeOK, Whole

LEMMA GetWhole ==
  ASSUME TypeOK, Roles, Whole, NEW t \in Threads, Get(t)
  PROVE  Whole'
<1>0. view = [view EXCEPT ![t] = view[t]] /\ view[t] \in Room \union {NoRoom}
  BY DEF TypeOK
<1>a. ASSUME NEW room \in Room, room.torn = FALSE, Obtain(t, room), db' = db,
             cache' \in {cache, view[t]}
      PROVE  Whole'
  <2>1. CASE Return(t)
    BY <1>a, <2>1, ReturnWhole
  <2>2. CASE ~Return(t)
    <3>1. GoTo(t, Continue(t)) /\ view' = [view EXCEPT ![t] = room] /\ Continue(t) # "spells"
      BY <1>a, <2>2, ContinueFacts DEF Obtain
    <3> QED
      BY <1>a, <3>1, MoveWhole
  <2> QED
    BY <2>1, <2>2
<1>1. CASE Lookup(t)
  <2>1. db' = db /\ cache' = cache
    BY <1>1 DEF Lookup, storeVars
  <2>2. CASE cache # NoRoom /\ Obtain(t, cache)
    BY <1>a, <2>1, <2>2 DEF TypeOK, Whole
  <2>3. CASE GoTo(t, "row") /\ view' = view
    BY <1>0, <2>1, <2>3, MoveWhole DEF Whole
  <2> QED
    BY <1>1, <2>2, <2>3 DEF Lookup
<1>2. CASE LoadRow(t)
  <2>1. db' = db /\ cache' = cache
    BY <1>2 DEF LoadRow, storeVars
  <2>2. CASE GoTo(t, "players") /\ view' = view
    BY <1>0, <2>1, <2>2, MoveWhole DEF Whole
  <2>3. CASE GoTo(t, "save") /\ view' = [view EXCEPT ![t] = EmptyRoom]
    BY <2>1, <2>3, MoveWhole, EmptyRoomFacts
  <2>4. CASE Return(t)
    BY <2>1, <2>4, ReturnWhole
  <2> QED
    BY <1>2, <2>2, <2>3, <2>4 DEF LoadRow
<1>3. CASE LoadPlayers(t)
  <2>1. /\ db' = db /\ cache' = cache /\ GoTo(t, "spells")
        /\ view' = [view EXCEPT ![t] = IF db = NoRoom THEN EmptyRoom ELSE db]
    BY <1>3 DEF LoadPlayers, storeVars
  <2>2. CASE db = NoRoom
    BY <2>1, <2>2, MoveWhole, EmptyRoomFacts
  <2>3. CASE db # NoRoom
    <3>1. db \in Room /\ db.torn = FALSE /\ view' = [view EXCEPT ![t] = db]
      BY <2>1, <2>3 DEF TypeOK, Whole
    <3>2. db.applied # {} => HasSpells
      BY <2>3 DEF HasSpells
    <3> QED
      BY <2>1, <3>1, <3>2, MoveWhole
  <2> QED
    BY <2>2, <2>3
<1>4. CASE LoadSpells(t)
  <2>1. db' = db /\ cache' = cache /\ step[t] = "spells"
    BY <1>4 DEF LoadSpells, storeVars
  <2>2. view[t] \in Room /\ view[t] # NoRoom /\ view[t].torn = FALSE
    BY <2>1 DEF TypeOK, Whole
  <2>3. CASE Return(t)
    BY <2>1, <2>3, ReturnWhole
  <2>4. CASE ~Return(t)
    <3>1. PICK s \in {"fill", "modify", "delete"} :
            /\ GoTo(t, s)
            /\ \/ view' = view
               \/ ~HasSpells /\ view' = [view EXCEPT ![t].torn = (view[t].applied # {})]
      BY <1>4, <2>4, ContinueFacts DEF LoadSpells
    <3>2. ~HasSpells => view[t].applied = {}
      BY <2>1 DEF Whole
    <3>3. [view[t] EXCEPT !.torn = FALSE] = view[t]
      BY <2>2 DEF Room
    <3>4. view' = [view EXCEPT ![t] = view[t]]
      BY <1>0, <3>1, <3>2, <3>3
    <3> QED
      BY <2>1, <2>2, <3>1, <3>4, MoveWhole
  <2> QED
    BY <2>3, <2>4
<1>5. CASE Fill(t)
  <2>1. view[t] \in Room /\ view[t].torn = FALSE
    BY <1>5 DEF Fill, TypeOK, Whole
  <2>2. db' = db /\ cache' \in {cache, view[t]} /\ Obtain(t, view[t])
    BY <1>5 DEF Fill, CacheSet
  <2> QED
    BY <1>a, <2>1, <2>2
<1>6. CASE LoadError(t)
  BY <1>6, ReturnWhole DEF LoadError, storeVars
<1> QED
  BY <1>1, <1>2, <1>3, <1>4, <1>5, <1>6 DEF Get

LEMMA ChangeWhole ==
  ASSUME TypeOK, Roles, Whole, NEW t \in Writers, Change(t), ~emptied'
  PROVE  Whole'
<1>a. t \in Threads
  BY DEF Threads
<1>1. CASE \E o, S, first : Start(t, o, S, first) /\ first # "spells"
  <2>1. PICK first : step' = [step EXCEPT ![t] = first] /\ first # "spells"
    BY <1>1 DEF Start, GoTo
  <2>2. UNCHANGED <<db, cache, view>>
    BY <1>1 DEF Start, storeVars
  <2> QED
    BY <1>a, <2>1, <2>2 DEF TypeOK, Whole, HasSpells
<1>2. CASE Modify(t)
  <2>1. view[t] \in Room /\ view[t].torn = FALSE /\ arg[t] \subseteq Updates
    BY <1>a, <1>2 DEF Modify, TypeOK, Whole
  <2>a. [view[t] EXCEPT !.applied = @ \union arg[t]] \in Room
    BY <2>1 DEF Room
  <2>2. PICK room \in Room : room.torn = FALSE /\ view' = [view EXCEPT ![t] = room]
    <3>1. view' = [view EXCEPT ![t] = [view[t] EXCEPT !.applied = @ \union arg[t]]]
      BY <1>a, <1>2 DEF Modify, TypeOK
    <3>2. [view[t] EXCEPT !.applied = @ \union arg[t]].torn = FALSE
      BY <2>1 DEF Room
    <3> QED
      BY <2>a, <3>1, <3>2
  <2>3. db' = db /\ cache' = cache /\ GoTo(t, "save")
    BY <1>2 DEF Modify, storeVars
  <2>4. step' = [step EXCEPT ![t] = "save"] /\ HasSpells' = HasSpells
    BY <2>3 DEF GoTo, HasSpells
  <2> QED
    BY <1>a, <2>2, <2>3, <2>4 DEF TypeOK, Whole
<1>3. CASE NothingToDo(t) \/ WriteError(t) \/ Evict(t) \/ Set(t)
  <2>1. Return(t) /\ db' = db /\ cache' \in {cache, NoRoom, view[t]}
    BY <1>3 DEF NothingToDo, WriteError, Evict, Set, CacheSet, storeVars
  <2> QED
    BY <1>a, <2>1, ReturnWhole
<1>4. CASE Save(t) \/ Delete(t)
  <2>1. PICK s \in {"set", "evict"} : step' = [step EXCEPT ![t] = s]
    BY <1>4 DEF Save, Delete, GoTo
  <2>2. cache' = cache /\ view' = view
    BY <1>4 DEF Save, Delete
  <2>3. (db' # NoRoom => db'.torn = FALSE) /\ (HasSpells => HasSpells')
    BY <1>a, <1>4 DEF Save, Delete, Write, Whole
  <2> QED
    BY <1>a, <2>1, <2>2, <2>3 DEF TypeOK, Whole
<1>5. ASSUME NEW u \in Updates, Update(t, u) PROVE Whole'
  BY <1>1, <1>5 DEF Update, Begin
<1>6. CASE BeginCreate(t) \/ BeginRefresh(t) \/ BeginCleanup(t)
  BY <1>1, <1>6 DEF BeginCreate, BeginRefresh, BeginCleanup, Begin
<1> QED
  BY <1>2, <1>3, <1>4, <1>5, <1>6 DEF Change

LEMMA WholeStep ==
  ASSUME TypeOK, Roles, ~emptied => Whole, [Next]_vars
  PROVE  ~emptied' => Whole'
<1> SUFFICES ASSUME ~emptied' PROVE Whole'
  OBVIOUS
<1>1. ~emptied
  BY DEF Next, Get, Change, Expire, vars, historyVars, Snapshot, Start, Begin, Update,
         BeginCreate, BeginRefresh, BeginCleanup, Lookup, LoadRow, LoadPlayers, LoadSpells,
         Fill, LoadError, Modify, NothingToDo, Save, Set, Delete, Evict, WriteError, Write
<1>2. Whole
  BY <1>1
<1>3. CASE Expire \/ UNCHANGED vars
  <2>1. cache' \in {cache, NoRoom} /\ UNCHANGED <<db, step, view>>
    BY <1>3 DEF Expire, vars, storeVars, threadVars
  <2> QED
    BY <1>2, <2>1 DEF Whole, HasSpells
<1>4. ASSUME NEW t \in Readers, Snapshot(t) PROVE Whole'
  <2>1. step' = [step EXCEPT ![t] = "lookup"] /\ UNCHANGED <<db, cache, view>>
    BY <1>4 DEF Snapshot, Start, GoTo, storeVars
  <2> QED
    BY <1>2, <2>1 DEF TypeOK, Whole, HasSpells
<1> QED
  BY <1>2, <1>3, <1>4, GetWhole, ChangeWhole DEF Next

(***************************************************************************)
(* As long as no room with players is deleted or emptied, neither store    *)
(* ever holds players without their spells: for any number of goroutines   *)
(* that write and that take snapshots, in any number of services, and with *)
(* a cache that fails (loadRoom, loadSpells).                              *)
(***************************************************************************)
THEOREM RoomsWhole == Spec => []NoTornRoom
<1> DEFINE Inv == ~emptied => Whole
<1>1. Init => Inv
  BY DEF Init, Whole
<1>2. TypeOK /\ Roles /\ Inv /\ [Next]_vars => Inv'
  BY WholeStep
<1>3. Inv => NoTornRoom
  BY DEF NoTornRoom, Whole
<1> QED
  BY <1>1, <1>2, <1>3, RoomTypes, PTL DEF Spec

-----------------------------------------------------------------------------
(***************************************************************************)
(* Kept updates.                                                           *)
(***************************************************************************)

\* At most one goroutine that writes is inside an operation.
MutexHeld ==
    \A t, u \in Writers : step[t] # "idle" /\ step[u] # "idle" => t = u

\* What the room of a writing operation is worth at each of its steps.
ViewCurrent ==
    \A t \in Writers :
        /\ step[t] = "players" => db # NoRoom
        /\ step[t] \in {"spells", "fill"} =>
             ~moved[t] /\ db # NoRoom /\ view[t] = db
        /\ step[t] \in {"modify", "save", "set"} => confirmed \subseteq view[t].applied
        /\ step[t] \in {"save", "set"} => arg[t] \subseteq view[t].applied
        /\ step[t] = "set" => view[t] = db

Kept == MutexHeld /\ ViewCurrent /\ NoLostUpdate

\* A step of t outside the stores: what remains is to look at t.
LEMMA OwnStep ==
  ASSUME TypeOK, Kept, NEW t \in Threads,
         UNCHANGED <<db, confirmed>>, cache' # NoRoom => confirmed \subseteq cache'.applied,
         \A u \in Threads : u # t =>
            UNCHANGED <<step[u], view[u], moved[u], arg[u]>>,
         t \in Writers /\ step'[t] # "idle" =>
            /\ \A u \in Writers : u # t => step[u] = "idle"
            /\ step'[t] = "players" => db # NoRoom
            /\ step'[t] \in {"spells", "fill"} =>
                 ~moved'[t] /\ db # NoRoom /\ view'[t] = db
            /\ step'[t] \in {"modify", "save", "set"} => confirmed \subseteq view'[t].applied
            /\ step'[t] \in {"save", "set"} => arg'[t] \subseteq view'[t].applied
            /\ step'[t] = "set" => view'[t] = db
  PROVE  Kept'
<1>1. Writers \subseteq Threads
  BY DEF Threads
<1>2. MutexHeld'
  BY <1>1 DEF Kept, MutexHeld
<1>3. ViewCurrent'
  <2> SUFFICES ASSUME NEW u \in Writers
               PROVE  /\ step'[u] = "players" => db' # NoRoom
                      /\ step'[u] \in {"spells", "fill"} =>
                           ~moved'[u] /\ db' # NoRoom /\ view'[u] = db'
                      /\ step'[u] \in {"modify", "save", "set"} =>
                           confirmed' \subseteq view'[u].applied
                      /\ step'[u] \in {"save", "set"} => arg'[u] \subseteq view'[u].applied
                      /\ step'[u] = "set" => view'[u] = db'
    BY DEF ViewCurrent
  <2>1. CASE u = t
    BY <2>1
  <2>2. CASE u # t
    <3>1. UNCHANGED <<step[u], view[u], moved[u], arg[u]>>
      BY <1>1, <2>2
    <3> QED
      BY <3>1 DEF Kept, ViewCurrent
  <2> QED
    BY <2>1, <2>2
<1>4. NoLostUpdate'
  BY DEF Kept, NoLostUpdate
<1> QED
  BY <1>2, <1>3, <1>4 DEF Kept

\* The others, when t is inside an operation.
LEMMA OthersIdle ==
  ASSUME Kept, NEW t \in Writers, step[t] # "idle"
  PROVE  \A u \in Writers : u # t => step[u] = "idle"
  BY DEF Kept, MutexHeld

LEMMA ReturnKept ==
  ASSUME TypeOK, Kept, NEW t \in Threads, Return(t), UNCHANGED <<db, confirmed>>,
         cache' # NoRoom => confirmed \subseteq cache'.applied
  PROVE  Kept'
<1>1. /\ step' = [step EXCEPT ![t] = "idle"] /\ view' = [view EXCEPT ![t] = NoRoom]
      /\ moved' = [moved EXCEPT ![t] = FALSE] /\ arg' = [arg EXCEPT ![t] = {}]
  BY DEF Return, GoTo
<1>2. step'[t] = "idle" /\ \A u \in Threads : u # t =>
         UNCHANGED <<step[u], view[u], moved[u], arg[u]>>
  BY <1>1 DEF TypeOK
<1> QED
  BY <1>2, OwnStep

LEMMA ObtainKept ==
  ASSUME TypeOK, Kept, NEW t \in Threads, step[t] # "idle", NEW room \in Room,
         Obtain(t, room), UNCHANGED <<db, confirmed>>,
         t \in Writers => confirmed \subseteq room.applied,
         cache' # NoRoom => confirmed \subseteq cache'.applied
  PROVE  Kept'
<1>1. CASE Return(t)
  BY <1>1, ReturnKept
<1>2. CASE ~Return(t)
  <2>1. /\ step' = [step EXCEPT ![t] = Continue(t)] /\ Continue(t) \in {"modify", "delete"}
        /\ view' = [view EXCEPT ![t] = room] /\ UNCHANGED <<arg, moved>>
    BY <1>2, ContinueFacts DEF Obtain, GoTo
  <2>2. step'[t] \in {"modify", "delete"} /\ view'[t] = room
        /\ \A u \in Threads : u # t => UNCHANGED <<step[u], view[u], moved[u], arg[u]>>
    BY <2>1 DEF TypeOK
  <2> QED
    BY <2>2, OwnStep, OthersIdle
<1> QED
  BY <1>1, <1>2

LEMMA GetKept ==
  ASSUME TypeOK, Roles, Kept, NEW t \in Threads, Get(t), ~raced'
  PROVE  Kept'
<1>0. cache # NoRoom => confirmed \subseteq cache.applied
  BY DEF Kept, NoLostUpdate
<1>1. CASE Lookup(t)
  <2>1. UNCHANGED <<db, cache, confirmed>> /\ step[t] = "lookup"
    BY <1>1 DEF Lookup, storeVars, historyVars
  <2>2. CASE cache # NoRoom /\ Obtain(t, cache)
    BY <1>0, <2>1, <2>2, ObtainKept DEF TypeOK
  <2>3. CASE GoTo(t, "row") /\ UNCHANGED <<op, arg, view, moved>>
    <3>1. step'[t] = "row" /\ \A u \in Threads : u # t => step'[u] = step[u]
      BY <2>3 DEF GoTo, TypeOK
    <3> QED
      BY <1>0, <2>1, <2>3, <3>1, OwnStep, OthersIdle
  <2> QED
    BY <1>1, <2>2, <2>3 DEF Lookup
<1>2. CASE LoadRow(t)
  <2>1. UNCHANGED <<db, cache, confirmed>> /\ step[t] = "row"
    BY <1>2 DEF LoadRow, storeVars, historyVars
  <2>2. CASE Return(t)
    BY <1>0, <2>1, <2>2, ReturnKept
  <2>3. CASE db # NoRoom /\ GoTo(t, "players") /\ UNCHANGED <<op, arg, view, moved>>
    <3>1. step'[t] = "players" /\ \A u \in Threads : u # t => step'[u] = step[u]
      BY <2>3 DEF GoTo, TypeOK
    <3> QED
      BY <1>0, <2>1, <2>3, <3>1, OwnStep, OthersIdle
  <2>4. CASE /\ db = NoRoom /\ op[t] = "create" /\ GoTo(t, "save")
             /\ view' = [view EXCEPT ![t] = EmptyRoom] /\ UNCHANGED <<op, arg, moved>>
    <3>1. /\ step'[t] = "save" /\ view'[t] = EmptyRoom /\ arg'[t] = {}
          /\ \A u \in Threads : u # t => UNCHANGED <<step[u], view[u], moved[u], arg[u]>>
      BY <2>4 DEF GoTo, TypeOK, Roles
    <3>2. confirmed = {}
      BY <2>4 DEF Kept, NoLostUpdate
    <3> QED
      BY <1>0, <2>1, <3>1, <3>2, EmptyRoomFacts, OwnStep, OthersIdle
  <2> QED
    BY <1>2, <2>2, <2>3, <2>4 DEF LoadRow
<1>3. CASE LoadPlayers(t)
  <2>1. UNCHANGED <<db, cache, arg, confirmed>> /\ step[t] = "players"
    BY <1>3 DEF LoadPlayers, storeVars, historyVars
  <2>2. /\ step'[t] = "spells" /\ ~moved'[t]
        /\ view'[t] = IF db = NoRoom THEN EmptyRoom ELSE db
        /\ \A u \in Threads : u # t => UNCHANGED <<step[u], view[u], moved[u]>>
    BY <1>3 DEF LoadPlayers, GoTo, TypeOK
  <2>3. t \in Writers => db # NoRoom
    BY <2>1 DEF Kept, ViewCurrent
  <2> QED
    BY <1>0, <2>1, <2>2, <2>3, OwnStep, OthersIdle
<1>4. CASE LoadSpells(t)
  <2>1. UNCHANGED <<db, cache, confirmed>> /\ step[t] = "spells"
    BY <1>4 DEF LoadSpells, storeVars, historyVars
  <2>2. CASE Return(t)
    BY <1>0, <2>1, <2>2, ReturnKept
  <2>3. CASE ~Return(t)
    <3>1. PICK s \in {"fill", "modify", "delete"} :
            /\ GoTo(t, s) /\ UNCHANGED <<arg, moved>>
            /\ \/ view' = view
               \/ moved[t] /\ view' = [view EXCEPT ![t].torn = (view[t].applied # {})]
      BY <1>4, <2>3, ContinueFacts DEF LoadSpells
    <3>2. /\ step'[t] = s
          /\ \A u \in Threads : u # t => UNCHANGED <<step[u], view[u], moved[u], arg[u]>>
      BY <3>1 DEF GoTo, TypeOK
    <3>3. t \in Writers => ~moved[t] /\ db # NoRoom /\ view[t] = db
      BY <2>1 DEF Kept, ViewCurrent
    <3>4. db # NoRoom => confirmed \subseteq db.applied
      BY DEF Kept, NoLostUpdate
    <3>5. t \in Writers => ~moved'[t] /\ view'[t] = db
      BY <3>1, <3>3
    <3> QED
      BY <1>0, <2>1, <3>2, <3>3, <3>4, <3>5, OwnStep, OthersIdle
  <2> QED
    BY <2>2, <2>3
<1>5. CASE Fill(t)
  <2>1. /\ view[t] \in Room /\ Obtain(t, view[t]) /\ UNCHANGED <<db, confirmed>>
        /\ step[t] = "fill"
    BY <1>5 DEF Fill, TypeOK
  <2>2. db # NoRoom => confirmed \subseteq db.applied
    BY DEF Kept, NoLostUpdate
  <2>3. t \in Writers => db # NoRoom /\ view[t] = db
    BY <2>1 DEF Kept, ViewCurrent
  <2>4. cache' = cache \/ (cache' = view[t] /\ view[t] = db)
    BY <1>5 DEF Fill, CacheSet
  <2>5. cache' # NoRoom => confirmed \subseteq cache'.applied
    BY <1>0, <2>2, <2>4
  <2> QED
    BY <2>1, <2>2, <2>3, <2>5, ObtainKept
<1>6. CASE LoadError(t)
  BY <1>0, <1>6, ReturnKept DEF LoadError, storeVars, historyVars
<1> QED
  BY <1>1, <1>2, <1>3, <1>4, <1>5, <1>6 DEF Get

LEMMA ChangeKept ==
  ASSUME TypeOK, Roles, Kept, NEW t \in Writers, Change(t), ~raced'
  PROVE  Kept'
<1>a. t \in Threads
  BY DEF Threads
<1>0. cache # NoRoom => confirmed \subseteq cache.applied
  BY DEF Kept, NoLostUpdate
<1>1. CASE \E o, S, first : Begin(t, o, S, first) /\ first \in {"lookup", "row"}
  <2>1. PICK o, S, first : Begin(t, o, S, first) /\ first \in {"lookup", "row"}
    BY <1>1
  <2>a. ~\E w \in Writers : ServiceOf[w] # ServiceOf[t] /\ step[w] # "idle"
    BY <2>1, Zenon DEF Begin
  <2>2. \A u \in Writers : step[u] = "idle"
    BY <2>1, <2>a DEF Begin, Unlocked
  <2>3. UNCHANGED <<db, cache, view, moved, confirmed>> /\ step' = [step EXCEPT ![t] = first]
        /\ arg' = [arg EXCEPT ![t] = S]
    BY <2>1 DEF Begin, Start, GoTo, storeVars
  <2>4. step'[t] = first /\ \A u \in Threads : u # t =>
           UNCHANGED <<step[u], view[u], moved[u], arg[u]>>
    BY <1>a, <2>3 DEF TypeOK
  <2> QED
    BY <1>a, <1>0, <2>1, <2>2, <2>3, <2>4, OwnStep
<1>2. ASSUME NEW u \in Updates, Update(t, u) PROVE Kept'
  BY <1>1, <1>2 DEF Update
<1>3. CASE BeginCreate(t) \/ BeginRefresh(t) \/ BeginCleanup(t)
  BY <1>1, <1>3 DEF BeginCreate, BeginRefresh, BeginCleanup
<1>4. CASE Modify(t)
  <2>1. view[t] \in Room /\ arg[t] \subseteq Updates /\ confirmed \subseteq view[t].applied
    BY <1>a, <1>4 DEF Modify, TypeOK, Kept, ViewCurrent
  <2>2. /\ UNCHANGED <<db, cache, arg, moved, confirmed>> /\ step[t] = "modify"
        /\ step' = [step EXCEPT ![t] = "save"]
        /\ view' = [view EXCEPT ![t].applied = @ \union arg[t]]
    BY <1>4 DEF Modify, GoTo, storeVars, historyVars
  <2>3. /\ step'[t] = "save" /\ view'[t].applied = view[t].applied \union arg[t]
        /\ \A u \in Threads : u # t => UNCHANGED <<step[u], view[u], moved[u], arg[u]>>
    BY <1>a, <2>1, <2>2 DEF TypeOK, Room
  <2> QED
    BY <1>a, <1>0, <2>1, <2>2, <2>3, OwnStep, OthersIdle
<1>5. CASE NothingToDo(t) \/ WriteError(t) \/ Evict(t)
  <2>1. /\ Return(t) /\ UNCHANGED <<db, confirmed>>
        /\ cache' \in {cache, NoRoom}
    BY <1>5 DEF NothingToDo, WriteError, Evict, CacheSet, storeVars, historyVars
  <2> QED
    BY <1>a, <1>0, <2>1, ReturnKept
<1>6. CASE Save(t)
  <2>1. /\ step[t] = "save" /\ view[t] \in Room /\ view[t] # NoRoom
        /\ confirmed \subseteq view[t].applied /\ arg[t] \subseteq view[t].applied
    BY <1>a, <1>6 DEF Save, TypeOK, Kept, ViewCurrent
  <2>2. /\ UNCHANGED <<cache, arg, view, confirmed>> /\ db' = view[t]
        /\ step' = [step EXCEPT ![t] = "set"]
    BY <1>6 DEF Save, Write, GoTo
  <2>3. step'[t] = "set" /\ \A u \in Writers : u # t => step'[u] = "idle"
    BY <1>a, <2>1, <2>2, OthersIdle DEF TypeOK, Threads
  <2>4. MutexHeld'
    BY <2>3 DEF MutexHeld
  <2>5. ViewCurrent'
    BY <2>1, <2>2, <2>3 DEF ViewCurrent
  <2>6. NoLostUpdate'
    BY <1>0, <2>1, <2>2 DEF NoLostUpdate
  <2> QED
    BY <2>4, <2>5, <2>6 DEF Kept
<1>7. CASE Set(t)
  <2>1. /\ step[t] = "set" /\ view[t] = db /\ db \in Room /\ db # NoRoom
        /\ confirmed \subseteq db.applied /\ arg[t] \subseteq db.applied
    BY <1>a, <1>7 DEF Set, TypeOK, Kept, ViewCurrent
  <2>2. /\ cache' \in {NoRoom, db} /\ db' = db /\ confirmed' = confirmed \union arg[t]
        /\ step' = [step EXCEPT ![t] = "idle"]
    BY <1>7, <2>1 DEF Set, Return, GoTo
  <2>3. \A u \in Writers : step'[u] = "idle"
    BY <1>a, <2>1, <2>2, OthersIdle DEF TypeOK, Threads
  <2>4. MutexHeld' /\ ViewCurrent'
    BY <2>3 DEF MutexHeld, ViewCurrent
  <2>5. NoLostUpdate'
    BY <2>1, <2>2 DEF NoLostUpdate
  <2> QED
    BY <2>4, <2>5 DEF Kept
<1>8. CASE Delete(t)
  <2>1. step[t] = "delete" /\ confirmed' = {} /\ step' = [step EXCEPT ![t] = "evict"]
    BY <1>8 DEF Delete, GoTo
  <2>2. step'[t] = "evict" /\ \A u \in Writers : u # t => step'[u] = "idle"
    BY <1>a, <2>1, OthersIdle DEF TypeOK, Threads
  <2>3. MutexHeld' /\ ViewCurrent'
    BY <2>2 DEF MutexHeld, ViewCurrent
  <2>4. NoLostUpdate'
    BY <2>1 DEF NoLostUpdate
  <2> QED
    BY <2>3, <2>4 DEF Kept
<1> QED
  BY <1>2, <1>3, <1>4, <1>5, <1>6, <1>7, <1>8 DEF Change

LEMMA KeptStep ==
  ASSUME TypeOK, Roles, ~raced => Kept, [Next]_vars
  PROVE  ~raced' => Kept'
<1> SUFFICES ASSUME ~raced' PROVE Kept'
  OBVIOUS
<1>1. ~raced
  BY DEF Next, Get, Change, Expire, vars, historyVars, Snapshot, Begin, Update,
         BeginCreate, BeginRefresh, BeginCleanup, Lookup, LoadRow, LoadPlayers, LoadSpells,
         Fill, LoadError, Modify, NothingToDo, Save, Set, Delete, Evict, WriteError
<1>2. Kept
  BY <1>1
<1>3. CASE Expire \/ UNCHANGED vars
  <2>1. cache' \in {cache, NoRoom} /\ UNCHANGED <<db, step, view, moved, arg, confirmed>>
    BY <1>3 DEF Expire, vars, storeVars, threadVars, historyVars
  <2> QED
    BY <1>2, <2>1 DEF Kept, MutexHeld, ViewCurrent, NoLostUpdate
<1>4. ASSUME NEW t \in Readers, Snapshot(t) PROVE Kept'
  <2>1. t \in Threads /\ t \notin Writers
    BY DEF Threads
  <2>2. /\ UNCHANGED <<db, cache, view, moved, confirmed>>
        /\ step' = [step EXCEPT ![t] = "lookup"] /\ arg' = [arg EXCEPT ![t] = {}]
    BY <1>4 DEF Snapshot, Start, GoTo, storeVars
  <2>3. \A u \in Threads : u # t => UNCHANGED <<step[u], view[u], moved[u], arg[u]>>
    BY <2>1, <2>2 DEF TypeOK
  <2>4. cache # NoRoom => confirmed \subseteq cache.applied
    BY <1>2 DEF Kept, NoLostUpdate
  <2> QED
    BY <1>2, <2>1, <2>2, <2>3, <2>4, OwnStep
<1> QED
  BY <1>2, <1>3, <1>4, GetKept, ChangeKept DEF Next

(***************************************************************************)
(* Unless one of the three races of UpdatesKeptUnlessRaced has happened,   *)
(* every update that was reported as done stays in PostgreSQL and in the   *)
(* cache until the room is deleted: for any goroutines that write and that *)
(* take snapshots, any services, and a cache that fails (saveRoom,         *)
(* CachedRoomRepository).                                                  *)
(***************************************************************************)
THEOREM UpdatesKept == Spec => []UpdatesKeptUnlessRaced
<1> DEFINE Inv == ~raced => Kept
<1>1. Init => Inv
  BY DEF Init, Kept, MutexHeld, ViewCurrent, NoLostUpdate, Threads
<1>2. TypeOK /\ Roles /\ Inv /\ [Next]_vars => Inv'
  BY KeptStep
<1>3. Inv => UpdatesKeptUnlessRaced
  BY DEF UpdatesKeptUnlessRaced, Kept
<1> QED
  BY <1>1, <1>2, <1>3, RoomTypes, PTL DEF Spec

-----------------------------------------------------------------------------
(***************************************************************************)
(* The spells of one room: the operators.                                  *)
(***************************************************************************)

\* What CoherentSpells says of one spell.
Coherent(sp) ==
    /\ SpellTypeOK(sp)
    /\ sp.ready <=> sp.end = NoEnd
    /\ sp.ready => sp.rem = 0
    /\ ~sp.ready => sp.end < (sp.rem + 1) * TicksPerSecond

HIDE NoRoomAssumption
HIDE ConstantsAssumption
USE CooldownsAssumption

\* Whole seconds, truncated.
LEMMA Truncation ==
  ASSUME NEW a \in Nat, NEW b \in Nat \ {0}
  PROVE  /\ a \div b \in Nat
         /\ (a \div b) * b <= a
         /\ a < (a \div b + 1) * b
<1>1. a \div b \in Nat
  OBVIOUS
<1>2. (a \div b) * b <= a
  OBVIOUS
<1>3. a < (a \div b + 1) * b
  OBVIOUS
<1> QED
  BY <1>1, <1>2, <1>3

\* Multiplication by a natural number is monotone, and can be undone by one that is not zero.
LEMMA Times ==
  ASSUME NEW a \in Nat, NEW b \in Nat, NEW c \in Nat
  PROVE  /\ a <= b => a * c <= b * c
         /\ c # 0 /\ a * c <= b * c => a <= b
<1>1. ASSUME a <= b PROVE a * c <= b * c
  <2>1. PICK d \in Nat : b = a + d
    BY <1>1
  <2>2. b * c = a * c + d * c /\ d * c >= 0
    BY <2>1
  <2> QED
    BY <2>2
<1>2. ASSUME c # 0, ~(a <= b) PROVE ~(a * c <= b * c)
  <2>1. PICK d \in Nat : a = b + 1 + d
    BY <1>2
  <2>2. a * c = b * c + c + d * c /\ d * c >= 0
    BY <2>1
  <2> QED
    BY <1>2, <2>2
<1> QED
  BY <1>1, <1>2

\* Haste only shortens a cooldown.
LEMMA HasteShortens ==
  ASSUME NEW base \in Nat
  PROVE  /\ CalculateCooldown(base, Haste) \in Nat
         /\ CalculateCooldown(base, Haste) <= base
<1> DEFINE h == 100 + Haste
           c == CalculateCooldown(base, Haste)
<1>1. h \in Nat \ {0} /\ h >= 100 /\ base * 100 \in Nat
  OBVIOUS
<1>2. c \in Nat /\ c * h <= base * 100
  BY <1>1, Truncation DEF CalculateCooldown
<1>3. base * 100 <= base * h
  OBVIOUS
<1>4. c * h <= base * h
  <2> HIDE DEF c, h
  <2> QED
    BY <1>1, <1>2, <1>3
<1> QED
  <2> HIDE DEF c
  <2>1. c <= base
    <3> HIDE DEF h
    <3> QED
      BY <1>1, <1>2, <1>4, Times
  <2> QED
    BY <1>2, <2>1 DEF c

LEMMA FreshCoherent == \A n \in SpellNames : Coherent(Fresh(n))
  BY DEF Fresh, Coherent, SpellTypeOK, Spell, NoEnd

\* TogglePlayerSpell.
LEMMA ToggledCoherent ==
  ASSUME NEW sp, Coherent(sp)
  PROVE  Coherent(Toggled(sp)) /\ Toggled(sp).name = sp.name
<1> DEFINE base == BaseCooldown[sp.name]
           c == CalculateCooldown(base, Haste)
<1>1. sp \in Spell /\ base \in Nat
  BY DEF Coherent, SpellTypeOK, Spell
<1>2. c \in Nat /\ c <= base
  BY <1>1, HasteShortens
<1>3. /\ c * TicksPerSecond \in Nat
      /\ c * TicksPerSecond <= base * TicksPerSecond
      /\ c * TicksPerSecond < (c + 1) * TicksPerSecond
  <2> HIDE DEF c, base
  <2>1. c * TicksPerSecond \in Nat /\ (c + 1) * TicksPerSecond = c * TicksPerSecond + TicksPerSecond
    BY <1>2
  <2> QED
    BY <1>1, <1>2, <2>1, Times
<1>4. CASE sp.ready
  <2>1. Started(sp) = [name |-> sp.name, ready |-> FALSE, rem |-> c, end |-> c * TicksPerSecond]
    <3>1. Started(sp) = [sp EXCEPT !.ready = FALSE, !.rem = c, !.end = c * TicksPerSecond]
      BY DEF Started
    <3> HIDE DEF c
    <3> QED
      BY <1>1, <3>1 DEF Spell
  <2> HIDE DEF c
  <2> QED
    BY <1>1, <1>2, <1>3, <1>4, <2>1 DEF Toggled, Coherent, SpellTypeOK, Spell, NoEnd
<1>5. CASE ~sp.ready
  BY <1>1, <1>5, FreshCoherent DEF Toggled, Reset, Fresh, Spell
<1> QED
  BY <1>4, <1>5

\* refreshRoomCooldowns on one spell: a cooldown with a second to go keeps its end.
LEMMA RefreshedCoherent ==
  ASSUME NEW sp, Coherent(sp)
  PROVE  /\ Coherent(Refreshed(sp)) /\ Refreshed(sp).name = sp.name
         /\ Refreshed(sp).ready \/ Refreshed(sp).end = sp.end
         /\ sp.ready => Refreshed(sp) = sp
         /\ sp.end >= TicksPerSecond => Refreshed(sp).end = sp.end
<1> DEFINE remaining == sp.end \div TicksPerSecond
           base == BaseCooldown[sp.name]
<1>1. sp \in Spell /\ base \in Nat
  BY DEF Coherent, SpellTypeOK, Spell
<1>2. CASE sp.ready
  BY <1>1, <1>2 DEF Refreshed, Coherent, SpellTypeOK, Spell, NoEnd
<1>3. CASE ~sp.ready
  <2>1. sp.end \in Nat /\ sp.end # NoEnd /\ sp.end <= base * TicksPerSecond
    BY <1>1, <1>3 DEF Coherent, SpellTypeOK, Spell
  <2>2. /\ remaining \in Nat
        /\ remaining * TicksPerSecond <= sp.end
        /\ sp.end < (remaining + 1) * TicksPerSecond
    BY <2>1, Truncation
  <2>3. remaining <= base
    <3> HIDE DEF remaining, base
    <3>1. remaining * TicksPerSecond <= base * TicksPerSecond
      BY <1>1, <2>1, <2>2
    <3> QED
      BY <1>1, <2>2, <3>1, Times
  <2>4. CASE remaining <= 0
    <3>1. sp.end < TicksPerSecond
      <4> HIDE DEF remaining
      <4>1. remaining = 0
        BY <2>2, <2>4
      <4> QED
        BY <2>1, <2>2, <4>1
    <3>2. Refreshed(sp) = Fresh(sp.name)
      BY <1>3, <2>1, <2>4 DEF Refreshed, Reset
    <3> QED
      BY <1>1, <1>3, <2>1, <3>1, <3>2, FreshCoherent DEF Fresh, Spell
  <2>5. CASE ~(remaining <= 0)
    <3>1. Refreshed(sp) = [name |-> sp.name, ready |-> FALSE, rem |-> remaining, end |-> sp.end]
      BY <1>1, <1>3, <2>1, <2>5 DEF Refreshed, Spell
    <3> HIDE DEF remaining
    <3> QED
      BY <1>1, <1>3, <2>1, <2>2, <2>3, <3>1 DEF Coherent, SpellTypeOK, Spell
  <2> QED
    BY <2>4, <2>5
<1> QED
  BY <1>2, <1>3

\* A tick of the clock.
LEMMA ElapsedCoherent ==
  ASSUME NEW sp, Coherent(sp)
  PROVE  /\ Coherent(Elapsed(sp)) /\ Elapsed(sp).name = sp.name
         /\ Elapsed(sp).ready = sp.ready
         /\ sp.end > 0 => Elapsed(sp).end = sp.end - 1
         /\ ~(sp.end > 0) => Elapsed(sp) = sp
<1>1. sp \in Spell /\ BaseCooldown[sp.name] * TicksPerSecond \in Nat
  BY DEF Coherent, SpellTypeOK, Spell
<1>2. CASE sp.end > 0
  <2>1. Elapsed(sp) = [name |-> sp.name, ready |-> sp.ready, rem |-> sp.rem, end |-> sp.end - 1]
    BY <1>1, <1>2 DEF Elapsed, Spell
  <2>2. sp.end \in Nat /\ sp.end - 1 \in Nat
    BY <1>1, <1>2 DEF Spell, NoEnd
  <2>3. (sp.rem + 1) * TicksPerSecond \in Nat
    BY <1>1 DEF Spell
  <2> QED
    BY <1>1, <1>2, <2>1, <2>2, <2>3 DEF Coherent, SpellTypeOK, Spell, NoEnd
<1>3. CASE ~(sp.end > 0)
  BY <1>3 DEF Elapsed
<1> QED
  BY <1>2, <1>3

-----------------------------------------------------------------------------
(***************************************************************************)
(* One step, and what it does to each spell.                               *)
(***************************************************************************)

TidySpell == {sp \in Spell : Coherent(sp)}

TidyPlayer == [id : RiotIds, spells : [Slots -> TidySpell]]

\* CoherentSpells, of all players at once.
Tidy ==
    /\ exists \in BOOLEAN
    /\ idle \in 0..MaxIdle
    /\ players \in Seq(TidyPlayer)

\* The functions on the domain of a sequence are sequences.
LEMMA OnDomain ==
  ASSUME NEW S, NEW T, NEW s \in Seq(S), NEW f, f = [i \in DOMAIN s |-> f[i]],
         \A i \in DOMAIN s : f[i] \in T
  PROVE  f \in Seq(T) /\ DOMAIN f = DOMAIN s
<1>1. Len(s) \in Nat /\ DOMAIN s = 1..Len(s)
  BY LenProperties
<1>2. f \in [1..Len(s) -> T]
  BY <1>1
<1> QED
  BY <1>1, <1>2, SeqDef

LEMMA TidyFacts ==
  ASSUME Tidy, NEW i \in DOMAIN players
  PROVE  /\ i \in Nat
         /\ players[i] \in TidyPlayer
         /\ players[i].id \in RiotIds
         /\ \A s \in Slots :
               /\ players[i].spells[s] \in Spell
               /\ Coherent(players[i].spells[s])
<1>1. Len(players) \in Nat /\ DOMAIN players = 1..Len(players)
  BY LenProperties DEF Tidy
<1>2. i \in 1..Len(players) /\ players[i] \in TidyPlayer
  BY <1>1, ElementOfSeq DEF Tidy
<1> QED
  BY <1>1, <1>2 DEF TidyPlayer, TidySpell

LEMMA TidyIsCoherent == Tidy => CoherentSpells
<1> SUFFICES ASSUME Tidy PROVE CoherentSpells
  OBVIOUS
<1>1. players \in Seq([id : RiotIds, spells : [Slots -> Spell]])
  <2>1. TidyPlayer \subseteq [id : RiotIds, spells : [Slots -> Spell]]
    BY DEF TidyPlayer, TidySpell
  <2> QED
    BY <2>1, SeqMonotonic DEF Tidy
<1>2. \A i \in DOMAIN players, s \in Slots : Coherent(players[i].spells[s])
  BY TidyFacts
<1> QED
  BY <1>1, <1>2 DEF Tidy, CoherentSpells, SpellsTypeOK, Coherent

\* What may become of a spell called n of a player called id.
Becomes(id, n, old, new) ==
    \/ new = old /\ idle' \in {idle, 0}
    \/ new = Refreshed(old) /\ idle' = idle
    \/ new = Elapsed(old) /\ idle' \in {idle, idle + 1}
    \/ new = Toggled(old) /\ idle' = 0 /\ ToggleSpellByRiotId(id, n)

\* Spell t of player j is new, or comes from an equally named spell of a player
\* of the same id.
Comes(j, t) ==
    LET id == players'[j].id
        new == players'[j].spells[t]
    IN \/ /\ new = Fresh(new.name)
          /\ \A i \in DOMAIN players, s \in Slots : ~Found(i, s, id, new.name)
       \/ \E i \in DOMAIN players, s \in Slots :
             /\ players[i].id = id
             /\ players[i].spells[s].name = new.name
             /\ Becomes(id, new.name, players[i].spells[s], new)

\* The players and the names of their spells stay where they are.
SamePlayers ==
    /\ DOMAIN players' = DOMAIN players
    /\ \A i \in DOMAIN players :
          /\ players'[i].id = players[i].id
          /\ \A s \in Slots : players'[i].spells[s].name = players[i].spells[s].name

\* What a step leaves behind.
Steps ==
    /\ Tidy'
    /\ \A j \in DOMAIN players', t \in Slots : Comes(j, t)

\* There is at most one first element of a set of numbers.
LEMMA OneFirst ==
  ASSUME NEW S \in SUBSET Nat, NEW i, NEW j, IsFirst(i, S), IsFirst(j, S)
  PROVE  i = j
  BY DEF IsFirst

LEMMA OneFound ==
  ASSUME Tidy, NEW id, NEW n, NEW i \in DOMAIN players, NEW s \in Slots,
         NEW j \in DOMAIN players, NEW t \in Slots, Found(i, s, id, n), Found(j, t, id, n)
  PROVE  i = j /\ s = t
<1>1. PlayersWith(id) \in SUBSET Nat /\ SpellsWith(i, n) \in SUBSET Nat
  BY TidyFacts DEF PlayersWith, SpellsWith, Slots
<1>2. i = j
  BY <1>1, OneFirst DEF Found
<1> QED
  BY <1>1, <1>2, OneFirst DEF Found

LEMMA FoundFacts ==
  ASSUME NEW id, NEW n, NEW i, NEW s, Found(i, s, id, n)
  PROVE  /\ i \in DOMAIN players /\ s \in Slots
         /\ players[i].id = id /\ players[i].spells[s].name = n
  BY DEF Found, IsFirst, PlayersWith, SpellsWith

\* CopySpellState: the state of the spell that is found.
LEMMA Copied ==
  ASSUME Tidy, NEW id \in RiotIds, NEW loadout \in Loadout, NEW t \in Slots
  PROVE  LET new == CopySpellState(id, loadout)[t] IN
         /\ new \in TidySpell
         /\ new.name = loadout[t]
         /\ \/ /\ new = Fresh(loadout[t])
               /\ \A i \in DOMAIN players, s \in Slots : ~Found(i, s, id, loadout[t])
            \/ \E i \in DOMAIN players, s \in Slots :
                  Found(i, s, id, loadout[t]) /\ new = players[i].spells[s]
<1> DEFINE n == loadout[t]
           olds == {x \in (DOMAIN players) \X Slots : Found(x[1], x[2], id, n)}
           new == CopySpellState(id, loadout)[t]
<1>1. n \in SpellNames
  BY DEF Loadout
<1>2. CASE olds = {}
  <2>1. new = Fresh(n)
    BY <1>2 DEF CopySpellState
  <2>2. ASSUME NEW i \in DOMAIN players, NEW s \in Slots PROVE ~Found(i, s, id, n)
    BY <1>2, <<i, s>> \in (DOMAIN players) \X Slots
  <2> QED
    BY <1>1, <2>1, <2>2, FreshCoherent DEF Fresh, TidySpell, Coherent, SpellTypeOK
<1>3. CASE olds # {}
  <2> DEFINE old == CHOOSE x \in olds : TRUE
  <2>1. old \in olds
    BY <1>3
  <2>2. /\ old[1] \in DOMAIN players /\ old[2] \in Slots
        /\ Found(old[1], old[2], id, n)
    BY <2>1
  <2>3. new = players[old[1]].spells[old[2]]
    BY <1>3 DEF CopySpellState
  <2> HIDE DEF old, new
  <2>4. new \in Spell /\ Coherent(new) /\ new.name = n
    BY <2>2, <2>3, TidyFacts, FoundFacts
  <2> QED
    BY <2>2, <2>3, <2>4 DEF TidySpell, new
<1> QED
  BY <1>2, <1>3

\* Refreshing all spells.
LEMMA RefreshSteps == Tidy /\ RefreshCooldowns => Steps /\ SamePlayers
<1> SUFFICES ASSUME Tidy, RefreshCooldowns PROVE Steps /\ SamePlayers
  OBVIOUS
<1>1. \A i \in DOMAIN players :
         /\ i \in DOMAIN players' /\ players'[i].id = players[i].id
         /\ \A s \in Slots : players'[i].spells[s] = Refreshed(players[i].spells[s])
         /\ players'[i] \in TidyPlayer
  <2> SUFFICES ASSUME NEW i \in DOMAIN players
               PROVE  /\ i \in DOMAIN players' /\ players'[i].id = players[i].id
                      /\ \A s \in Slots :
                            players'[i].spells[s] = Refreshed(players[i].spells[s])
                      /\ players'[i] \in TidyPlayer
    OBVIOUS
  <2>1. players'[i] = [players[i] EXCEPT !.spells = [s \in Slots |-> Refreshed(@[s])]]
    BY DEF RefreshCooldowns, Each
  <2>2. \A s \in Slots : Refreshed(players[i].spells[s]) \in TidySpell
    BY TidyFacts, RefreshedCoherent DEF TidySpell, Coherent, SpellTypeOK
  <2> QED
    BY <2>1, <2>2, TidyFacts DEF RefreshCooldowns, Each, TidyPlayer
<1>2. DOMAIN players' = DOMAIN players /\ players' \in Seq(TidyPlayer)
  <2>1. players' = [i \in DOMAIN players |-> players'[i]]
    BY DEF RefreshCooldowns, Each
  <2> QED
    BY <1>1, <2>1, OnDomain DEF Tidy
<1>3. Tidy'
  BY <1>2 DEF Tidy, RefreshCooldowns
<1>4. ASSUME NEW j \in DOMAIN players', NEW t \in Slots PROVE Comes(j, t)
  <2>1. Becomes(players'[j].id, players'[j].spells[t].name, players[j].spells[t],
                players'[j].spells[t])
    BY <1>1, <1>2 DEF Becomes, RefreshCooldowns
  <2>2. players'[j].spells[t].name = players[j].spells[t].name
    BY <1>1, <1>2, TidyFacts, RefreshedCoherent
  <2> QED
    BY <1>1, <1>2, <2>1, <2>2 DEF Comes
<1>5. SamePlayers
  BY <1>1, <1>2, TidyFacts, RefreshedCoherent DEF SamePlayers
<1> QED
  BY <1>3, <1>4, <1>5 DEF Steps

\* A tick of the clock.
LEMMA TickSteps == Tidy /\ Tick => Steps /\ SamePlayers
<1> SUFFICES ASSUME Tidy, Tick PROVE Steps /\ SamePlayers
  OBVIOUS
<1>1. \A i \in DOMAIN players :
         /\ i \in DOMAIN players' /\ players'[i].id = players[i].id
         /\ \A s \in Slots : players'[i].spells[s] = Elapsed(players[i].spells[s])
         /\ players'[i] \in TidyPlayer
  <2> SUFFICES ASSUME NEW i \in DOMAIN players
               PROVE  /\ i \in DOMAIN players' /\ players'[i].id = players[i].id
                      /\ \A s \in Slots :
                            players'[i].spells[s] = Elapsed(players[i].spells[s])
                      /\ players'[i] \in TidyPlayer
    OBVIOUS
  <2>1. players'[i] = [players[i] EXCEPT !.spells = [s \in Slots |-> Elapsed(@[s])]]
    BY DEF Tick, Each
  <2>2. \A s \in Slots : Elapsed(players[i].spells[s]) \in TidySpell
    BY TidyFacts, ElapsedCoherent DEF TidySpell, Coherent, SpellTypeOK
  <2> QED
    BY <2>1, <2>2, TidyFacts DEF Tick, Each, TidyPlayer
<1>2. DOMAIN players' = DOMAIN players /\ players' \in Seq(TidyPlayer)
  <2>1. players' = [i \in DOMAIN players |-> players'[i]]
    BY DEF Tick, Each
  <2> QED
    BY <1>1, <2>1, OnDomain DEF Tidy
<1>3. Tidy' /\ idle' \in {idle, idle + 1}
  <2>1. MaxIdle \in Nat
    BY DEF MaxIdle
  <2> QED
    BY <1>2, <2>1 DEF Tidy, Tick
<1>4. ASSUME NEW j \in DOMAIN players', NEW t \in Slots PROVE Comes(j, t)
  <2>1. Becomes(players'[j].id, players'[j].spells[t].name, players[j].spells[t],
                players'[j].spells[t])
    BY <1>1, <1>2, <1>3 DEF Becomes
  <2>2. players'[j].spells[t].name = players[j].spells[t].name
    BY <1>1, <1>2, TidyFacts, ElapsedCoherent
  <2> QED
    BY <1>1, <1>2, <2>1, <2>2 DEF Comes
<1>5. SamePlayers
  BY <1>1, <1>2, TidyFacts, ElapsedCoherent DEF SamePlayers
<1> QED
  BY <1>3, <1>4, <1>5 DEF Steps

\* The room and its clock start with it.
LEMMA ZeroIdle == 0 \in 0..MaxIdle
<1>1. MaxIdle \in Nat
  BY DEF MaxIdle
<1> QED
  BY <1>1

\* Toggling changes the spell that is found and no other.
LEMMA ToggleSteps ==
  ASSUME Tidy, NEW id \in RiotIds, NEW n \in SpellNames, ToggleSpellByRiotId(id, n)
  PROVE  Steps /\ SamePlayers
<1>1. PICK i \in DOMAIN players, s \in Slots :
         /\ Found(i, s, id, n)
         /\ players' = [players EXCEPT ![i].spells[s] = Toggled(@)]
  BY DEF ToggleSpellByRiotId
<1>2. idle' = 0 /\ exists' = exists
  BY DEF ToggleSpellByRiotId
<1>3. players[i].id = id /\ players[i].spells[s].name = n
  BY <1>1, FoundFacts
<1>4. DOMAIN players' = DOMAIN players
  BY <1>1
<1>5. \A j \in DOMAIN players :
         /\ players'[j] \in TidyPlayer
         /\ players'[j].id = players[j].id
         /\ \A t \in Slots :
               IF j = i /\ t = s THEN players'[j].spells[t] = Toggled(players[j].spells[t])
               ELSE players'[j].spells[t] = players[j].spells[t]
  <2> SUFFICES ASSUME NEW j \in DOMAIN players
               PROVE  /\ players'[j] \in TidyPlayer
                      /\ players'[j].id = players[j].id
                      /\ \A t \in Slots :
                            IF j = i /\ t = s
                            THEN players'[j].spells[t] = Toggled(players[j].spells[t])
                            ELSE players'[j].spells[t] = players[j].spells[t]
    OBVIOUS
  <2>1. CASE j # i
    BY <1>1, <2>1, TidyFacts
  <2>2. CASE j = i
    <3>1. players'[i] = [players[i] EXCEPT !.spells = [players[i].spells EXCEPT
                                                         ![s] = Toggled(players[i].spells[s])]]
      BY <1>1
    <3>2. Toggled(players[i].spells[s]) \in TidySpell
      BY TidyFacts, ToggledCoherent DEF TidySpell, Coherent, SpellTypeOK
    <3>3. players[i] \in TidyPlayer
      BY TidyFacts
    <3>4. players'[i] \in TidyPlayer /\ players'[i].id = players[i].id
      BY <3>1, <3>2, <3>3 DEF TidyPlayer
    <3>5. \A t \in Slots : players'[i].spells[t] =
                              IF t = s THEN Toggled(players[i].spells[t])
                              ELSE players[i].spells[t]
      BY <3>1, <3>3 DEF TidyPlayer
    <3> QED
      BY <2>2, <3>4, <3>5
  <2> QED
    BY <2>1, <2>2
<1>6. players' \in Seq(TidyPlayer)
  <2>1. players' = [j \in DOMAIN players |-> players'[j]]
    BY <1>1
  <2> QED
    BY <1>5, <2>1, OnDomain DEF Tidy
<1>7. ASSUME NEW j \in DOMAIN players', NEW t \in Slots PROVE Comes(j, t)
  <2>1. CASE j = i /\ t = s
    <3>1. players'[j].spells[t] = Toggled(players[j].spells[t])
      BY <1>4, <1>5, <2>1
    <3>2. players'[j].spells[t].name = n /\ players'[j].id = id
      BY <1>3, <1>4, <1>5, <2>1, <3>1, TidyFacts, ToggledCoherent
    <3>3. Becomes(id, n, players[j].spells[t], players'[j].spells[t])
      BY <1>2, <3>1 DEF Becomes
    <3> QED
      BY <1>3, <1>4, <2>1, <3>2, <3>3 DEF Comes
  <2>2. CASE ~(j = i /\ t = s)
    <3>1. players'[j].spells[t] = players[j].spells[t] /\ players'[j].id = players[j].id
      BY <1>4, <1>5, <2>2
    <3>2. Becomes(players[j].id, players[j].spells[t].name, players[j].spells[t],
                  players'[j].spells[t])
      BY <1>2, <3>1 DEF Becomes
    <3> QED
      BY <1>4, <3>1, <3>2 DEF Comes
  <2> QED
    BY <2>1, <2>2
<1>8. SamePlayers
  BY <1>4, <1>5, TidyFacts, ToggledCoherent DEF SamePlayers
<1> QED
  BY <1>2, <1>6, <1>7, <1>8, ZeroIdle DEF Steps, Tidy

\* A champion select carries spells along, with their state.
LEMMA SyncSteps ==
  ASSUME Tidy, NEW team \in Sessions, SyncFromChampSelect(team)
  PROVE  /\ Steps
         /\ DOMAIN players' = DOMAIN team
         /\ \A j \in DOMAIN team :
               /\ players'[j].id = team[j].id
               /\ \A t \in Slots : players'[j].spells[t].name = team[j].loadout[t]
<1>1. idle' \in {idle, 0} /\ exists' = exists
  BY DEF SyncFromChampSelect
<1>2. DOMAIN players' = DOMAIN team /\ team \in Seq([id : RiotIds, loadout : Loadout])
  BY DEF SyncFromChampSelect
<1>3. ASSUME NEW j \in DOMAIN team
      PROVE  /\ team[j].id \in RiotIds /\ team[j].loadout \in Loadout
             /\ players'[j].id = team[j].id
             /\ players'[j].spells = CopySpellState(team[j].id, team[j].loadout)
  <2>1. team[j] \in [id : RiotIds, loadout : Loadout]
    <3>1. Len(team) \in Nat /\ DOMAIN team = 1..Len(team)
      BY <1>2, LenProperties
    <3> QED
      BY <1>2, <3>1, ElementOfSeq
  <2> QED
    BY <2>1 DEF SyncFromChampSelect
<1>4. ASSUME NEW j \in DOMAIN team
      PROVE  /\ players'[j] \in TidyPlayer
             /\ \A t \in Slots : players'[j].spells[t].name = team[j].loadout[t]
  <2>1. \A t \in Slots : CopySpellState(team[j].id, team[j].loadout)[t] \in TidySpell
    BY <1>3, Copied
  <2>2. CopySpellState(team[j].id, team[j].loadout) \in [Slots -> TidySpell]
    BY <2>1 DEF CopySpellState
  <2>3. players'[j] = [id |-> team[j].id,
                       spells |-> CopySpellState(team[j].id, team[j].loadout)]
    BY DEF SyncFromChampSelect
  <2> QED
    BY <1>3, <2>2, <2>3, Copied DEF TidyPlayer
<1>5. players' \in Seq(TidyPlayer)
  <2>1. players' = [j \in DOMAIN team |-> players'[j]]
    BY DEF SyncFromChampSelect
  <2> QED
    BY <1>2, <1>4, <2>1, OnDomain
<1>6. ASSUME NEW j \in DOMAIN players', NEW t \in Slots PROVE Comes(j, t)
  <2> DEFINE id == team[j].id
             n == team[j].loadout[t]
             new == players'[j].spells[t]
  <2>1. new = CopySpellState(id, team[j].loadout)[t] /\ players'[j].id = id /\ new.name = n
    BY <1>2, <1>3, <1>4
  <2>2. id \in RiotIds /\ team[j].loadout \in Loadout
    BY <1>2, <1>3
  <2>3. CASE /\ new = Fresh(n)
             /\ \A i \in DOMAIN players, s \in Slots : ~Found(i, s, id, n)
    BY <2>1, <2>3 DEF Comes
  <2>4. CASE \E i \in DOMAIN players, s \in Slots :
                Found(i, s, id, n) /\ new = players[i].spells[s]
    <3>1. PICK i \in DOMAIN players, s \in Slots :
             Found(i, s, id, n) /\ new = players[i].spells[s]
      BY <2>4
    <3>2. players[i].id = id /\ players[i].spells[s].name = n
      BY <3>1, FoundFacts
    <3>3. Becomes(id, n, players[i].spells[s], new)
      BY <1>1, <3>1 DEF Becomes
    <3> QED
      BY <2>1, <3>1, <3>2, <3>3 DEF Comes
  <2>5. \/ /\ new = Fresh(n)
           /\ \A i \in DOMAIN players, s \in Slots : ~Found(i, s, id, n)
        \/ \E i \in DOMAIN players, s \in Slots :
              Found(i, s, id, n) /\ new = players[i].spells[s]
    <3> HIDE DEF new, id
    <3> QED
      BY <2>1, <2>2, Copied
  <2> QED
    BY <2>3, <2>4, <2>5
<1>7. Tidy'
  BY <1>1, <1>5, ZeroIdle DEF Tidy
<1> QED
  BY <1>2, <1>3, <1>4, <1>6, <1>7 DEF Steps

\* A player added by hand gets fresh spells, the others are left alone.
LEMMA AddSteps ==
  ASSUME Tidy, AddPlayer
  PROVE  /\ Steps
         /\ \/ players' = players
            \/ /\ PlayersWith(Anonymous) = {}
               /\ DOMAIN players' = DOMAIN players \union {Len(players) + 1}
               /\ \A j \in DOMAIN players : players'[j] = players[j]
               /\ players'[Len(players) + 1].id = Anonymous
               /\ \A t \in Slots :
                     players'[Len(players) + 1].spells[t] = Fresh(DefaultLoadout[t])
<1> DEFINE new == [id |-> Anonymous, spells |-> [s \in Slots |-> Fresh(DefaultLoadout[s])]]
           k == Len(players) + 1
<1>1. idle' = 0 /\ exists' = exists
  BY DEF AddPlayer
<1>2. Len(players) \in Nat /\ DOMAIN players = 1..Len(players) /\ players \in Seq(TidyPlayer)
  BY LenProperties DEF Tidy
<1>3. CASE PlayersWith(Anonymous) # {}
  <2>1. players' = players
    BY <1>3 DEF AddPlayer
  <2>2. ASSUME NEW j \in DOMAIN players', NEW t \in Slots PROVE Comes(j, t)
    <3>1. Becomes(players[j].id, players[j].spells[t].name, players[j].spells[t],
                  players'[j].spells[t])
      BY <1>1, <2>1 DEF Becomes
    <3> QED
      BY <2>1, <3>1 DEF Comes
  <2> QED
    BY <1>1, <2>1, <2>2, ZeroIdle DEF Steps, Tidy
<1>4. CASE PlayersWith(Anonymous) = {}
  <2>1. players' = Append(players, new)
    BY <1>4 DEF AddPlayer
  <2>2. new \in TidyPlayer
    <3>1. \A s \in Slots : Fresh(DefaultLoadout[s]) \in TidySpell
      BY FreshCoherent DEF Loadout, TidySpell, Coherent, SpellTypeOK
    <3> QED
      BY <3>1 DEF TidyPlayer
  <2>3. /\ players' \in Seq(TidyPlayer)
        /\ DOMAIN players' = 1..k
        /\ \A j \in DOMAIN players : players'[j] = players[j]
        /\ players'[k] = new
    <3> HIDE DEF new
    <3>1. players' \in Seq(TidyPlayer) /\ Len(players') = k
      BY <1>2, <2>1, <2>2
    <3>2. (\A j \in 1..Len(players) : players'[j] = players[j]) /\ players'[k] = new
      BY <1>2, <2>1, <2>2
    <3> QED
      BY <1>2, <3>1, <3>2, LenProperties
  <2>4. DOMAIN players' = DOMAIN players \union {k}
    BY <1>2, <2>3
  <2>5. ASSUME NEW j \in DOMAIN players', NEW t \in Slots PROVE Comes(j, t)
    <3>1. CASE j \in DOMAIN players
      <4>1. Becomes(players[j].id, players[j].spells[t].name, players[j].spells[t],
                    players'[j].spells[t])
        BY <1>1, <2>3, <3>1 DEF Becomes
      <4> QED
        BY <2>3, <3>1, <4>1 DEF Comes
    <3>2. CASE j = k
      <4>1. players'[j].id = Anonymous /\ players'[j].spells[t] = Fresh(DefaultLoadout[t])
        BY <2>3, <3>2
      <4>2. \A n : \A i \in DOMAIN players, s \in Slots : ~Found(i, s, Anonymous, n)
        BY <1>4 DEF Found, IsFirst
      <4> QED
        BY <4>1, <4>2 DEF Comes, Fresh
    <3> QED
      BY <2>4, <3>1, <3>2
  <2>6. Steps
    BY <1>1, <2>3, <2>5, ZeroIdle DEF Steps, Tidy
  <2>7. /\ players'[k].id = Anonymous
        /\ \A t \in Slots : players'[k].spells[t] = Fresh(DefaultLoadout[t])
    BY <2>3
  <2> HIDE DEF new
  <2> QED
    BY <1>4, <2>3, <2>4, <2>6, <2>7
<1> QED
  BY <1>3, <1>4

\* A room without players.
LEMMA EmptySteps ==
  ASSUME Tidy, players' = <<>>, exists' \in BOOLEAN, idle' = 0
  PROVE  Steps
<1>1. players' \in Seq(TidyPlayer) /\ DOMAIN players' = {}
  OBVIOUS
<1> QED
  BY <1>1, ZeroIdle DEF Steps, Tidy

\* Every step.
LEMMA SpellSteps == Tidy /\ [SpellsNext]_spellVars => Steps
<1> SUFFICES ASSUME Tidy, [SpellsNext]_spellVars PROVE Steps
  OBVIOUS
<1>1. CASE UNCHANGED spellVars
  <2>1. players' = players /\ idle' = idle /\ exists' = exists
    BY <1>1 DEF spellVars
  <2>2. ASSUME NEW j \in DOMAIN players', NEW t \in Slots PROVE Comes(j, t)
    <3>1. Becomes(players[j].id, players[j].spells[t].name, players[j].spells[t],
                  players'[j].spells[t])
      BY <2>1 DEF Becomes
    <3> QED
      BY <2>1, <3>1 DEF Comes
  <2> QED
    BY <2>1, <2>2 DEF Steps, Tidy
<1>2. CASE CreateRoom \/ CleanupOldRooms
  BY <1>2, EmptySteps DEF CreateRoom, CleanupOldRooms
<1> QED
  BY <1>1, <1>2, RefreshSteps, TickSteps, ToggleSteps, SyncSteps, AddSteps DEF SpellsNext

\* The spells of the initial, absent room.
LEMMA InitTidy == SpellsInit => Tidy
<1> SUFFICES ASSUME SpellsInit PROVE Tidy
  OBVIOUS
<1>1. players \in Seq(TidyPlayer)
  BY DEF SpellsInit
<1> QED
  BY <1>1, ZeroIdle DEF SpellsInit, Tidy

THEOREM SpellsAreTidy == SpellsSpec => []Tidy
<1>1. Tidy /\ [SpellsNext]_spellVars => Tidy'
  BY SpellSteps DEF Steps
<1> QED
  BY <1>1, InitTidy, PTL DEF SpellsSpec

(***************************************************************************)
(* Ready flag, end time and remaining seconds of every spell agree, for    *)
(* any cooldowns, haste and fineness of the clock.                         *)
(***************************************************************************)
THEOREM SpellsCoherent == SpellsSpec => []CoherentSpells
  BY SpellsAreTidy, TidyIsCoherent, PTL

-----------------------------------------------------------------------------
(***************************************************************************)
(* The cleanup.                                                            *)
(***************************************************************************)

\* A cooldown that runs was started after the room was last stamped, or the
\* time since then is part of its cooldown.
Stamped ==
    \A i \in DOMAIN players, s \in Slots :
        LET sp == players[i].spells[s]
        IN sp.end > 0 => sp.end + idle <= BaseCooldown[sp.name] * TicksPerSecond

LEMMA StampedStep == Tidy /\ Stamped /\ [SpellsNext]_spellVars => Stamped'
<1> SUFFICES ASSUME Tidy, Stamped, Steps,
                    NEW j \in DOMAIN players', NEW t \in Slots
             PROVE  LET new == players'[j].spells[t]
                    IN new.end > 0
                          => new.end + idle' <= BaseCooldown[new.name] * TicksPerSecond
  BY SpellSteps DEF Stamped
<1> DEFINE id == players'[j].id
           new == players'[j].spells[t]
<1>1. CASE new = Fresh(new.name)
  <2>1. new.end = NoEnd
    BY <1>1 DEF Fresh
  <2> QED
    BY <2>1 DEF NoEnd
<1>2. ASSUME NEW i \in DOMAIN players, NEW s \in Slots,
             players[i].spells[s].name = new.name,
             Becomes(id, new.name, players[i].spells[s], new)
      PROVE  new.end > 0 => new.end + idle' <= BaseCooldown[new.name] * TicksPerSecond
  <2> DEFINE old == players[i].spells[s]
             longest == BaseCooldown[old.name] * TicksPerSecond
  <2>1. /\ old \in Spell /\ Coherent(old) /\ longest \in Nat /\ idle \in Nat
        /\ old.end \in Int /\ old.end <= longest
        /\ old.end > 0 => old.end + idle <= longest
    <3>1. old \in Spell /\ Coherent(old) /\ idle \in Nat
      BY TidyFacts DEF Tidy
    <3>2. longest \in Nat /\ old.end \in Int /\ old.end <= longest
      BY <3>1 DEF Spell, NoEnd, Coherent, SpellTypeOK
    <3> QED
      BY <3>1, <3>2 DEF Stamped
  <2>2. Coherent(new) /\ new.end \in Int /\ new.end <= longest
    <3>1. Tidy' /\ new \in Spell /\ Coherent(new)
      <4>1. Tidy' => players'[j] \in TidyPlayer
        BY ElementOfSeq, LenProperties DEF Tidy
      <4> QED
        BY <4>1 DEF Steps, TidyPlayer, TidySpell
    <3> QED
      BY <1>2, <3>1 DEF Spell, NoEnd, Coherent, SpellTypeOK
  <2>3. CASE idle' = 0
    BY <1>2, <2>2, <2>3
  <2>4. CASE new = old /\ idle' = idle
    BY <2>1, <2>4
  <2>5. CASE new = Refreshed(old) /\ idle' = idle
    <3>1. new.ready \/ new.end = old.end
      BY <2>1, <2>5, RefreshedCoherent
    <3>2. new.ready => new.end = NoEnd
      BY <2>2 DEF Coherent
    <3> QED
      BY <1>2, <2>1, <2>5, <3>1, <3>2 DEF NoEnd
  <2>6. CASE new = Elapsed(old) /\ idle' \in {idle, idle + 1}
    <3>1. IF old.end > 0 THEN new.end = old.end - 1 ELSE new = old
      BY <2>1, <2>6, ElapsedCoherent
    <3> QED
      BY <1>2, <2>1, <2>6, <3>1
  <2> QED
    BY <1>2, <2>3, <2>4, <2>5, <2>6 DEF Becomes
<1> QED
  BY <1>1, <1>2 DEF Steps, Comes

(***************************************************************************)
(* The cleanup never deletes a room with a cooldown running, as long as    *)
(* what the offset of the host leaves of the expiration is no shorter than *)
(* the longest cooldown: on every host in or east of UTC, and on one west  *)
(* of it by less than the difference (cleanupOldRooms, saveRoom).          *)
(***************************************************************************)
NotFarWest ==
    \A n \in SpellNames : BaseCooldown[n] * TicksPerSecond <= Expiration + HostOffset

THEOREM RunningSpared == NotFarWest => (SpellsSpec => CleanupSparesRunning)
<1> SUFFICES ASSUME NotFarWest PROVE SpellsSpec => CleanupSparesRunning
  OBVIOUS
<1>1. Tidy /\ Stamped /\ [SpellsNext]_spellVars =>
        (exists /\ ~exists' =>
           \A i \in DOMAIN players, s \in Slots : players[i].spells[s].end <= 0)
  <2> SUFFICES ASSUME Tidy, Stamped, [SpellsNext]_spellVars, exists, ~exists',
                      NEW i \in DOMAIN players, NEW s \in Slots
               PROVE  players[i].spells[s].end <= 0
    OBVIOUS
  <2>1. idle - HostOffset > Expiration
    BY DEF SpellsNext, spellVars, CreateRoom, AddPlayer, ToggleSpellByRiotId,
           SyncFromChampSelect, RefreshCooldowns, CleanupOldRooms, Tick, Age
  <2> DEFINE sp == players[i].spells[s]
             longest == BaseCooldown[sp.name] * TicksPerSecond
  <2>2. /\ sp.end \in Int /\ idle \in Nat /\ longest \in Nat
        /\ longest <= Expiration + HostOffset
    <3>1. sp \in Spell /\ idle \in Nat
      BY TidyFacts DEF Tidy
    <3> QED
      BY <3>1 DEF Spell, NoEnd, NotFarWest
  <2>3. sp.end > 0 => sp.end + idle <= longest
    BY DEF Stamped
  <2> HIDE DEF sp, longest
  <2> QED
    BY <2>1, <2>2, <2>3 DEF sp
<1>2. SpellsInit => Stamped
  BY DEF SpellsInit, Stamped
<1> QED
  BY <1>1, <1>2, StampedStep, SpellsAreTidy, PTL DEF SpellsSpec, CleanupSparesRunning

-----------------------------------------------------------------------------
(***************************************************************************)
(* Cooldowns follow the players, where Riot ids tell players apart and     *)
(* names their spells.                                                     *)
(***************************************************************************)

\* No two players of a team have the same Riot id (as hidden names do), and no
\* player two spells of the same name (as unknown spells do).
DistinctTeams ==
    /\ \A s, t \in Slots : DefaultLoadout[s] = DefaultLoadout[t] => s = t
    /\ \A team \in Sessions :
          /\ \A i, j \in DOMAIN team : team[i].id = team[j].id => i = j
          /\ \A i \in DOMAIN team, s, t \in Slots :
                team[i].loadout[s] = team[i].loadout[t] => s = t

Distinct ==
    /\ \A i, j \in DOMAIN players : players[i].id = players[j].id => i = j
    /\ \A i \in DOMAIN players, s, t \in Slots :
          players[i].spells[s].name = players[i].spells[t].name => s = t

LEMMA DistinctStep ==
  DistinctTeams /\ Tidy /\ Distinct /\ [SpellsNext]_spellVars => Distinct'
<1> SUFFICES ASSUME DistinctTeams, Tidy, Distinct, [SpellsNext]_spellVars PROVE Distinct'
  OBVIOUS
<1>1. CASE UNCHANGED players
  BY <1>1 DEF Distinct
<1>2. CASE players' = <<>>
  BY <1>2 DEF Distinct
<1>3. CASE SamePlayers
  BY <1>3 DEF SamePlayers, Distinct
<1>4. CASE AddPlayer
  <2>1. CASE players' = players
    BY <1>1, <2>1
  <2> DEFINE k == Len(players) + 1
  <2>2. CASE /\ PlayersWith(Anonymous) = {}
             /\ DOMAIN players' = DOMAIN players \union {k}
             /\ \A j \in DOMAIN players : players'[j] = players[j]
             /\ players'[k].id = Anonymous
             /\ \A t \in Slots : players'[k].spells[t] = Fresh(DefaultLoadout[t])
    <3> HIDE DEF k
    <3>1. \A j \in DOMAIN players : players[j].id # Anonymous
      BY <2>2 DEF PlayersWith
    <3>2. \A s, t \in Slots :
             players'[k].spells[s].name = players'[k].spells[t].name => s = t
      <4>1. \A t \in Slots : Fresh(DefaultLoadout[t]).name = DefaultLoadout[t]
        BY DEF Fresh
      <4>2. \A t \in Slots : players'[k].spells[t].name = DefaultLoadout[t]
        BY <2>2, <4>1
      <4> QED
        BY <4>2 DEF DistinctTeams
    <3> QED
      BY <2>2, <3>1, <3>2 DEF Distinct
  <2> QED
    BY <1>4, <2>1, <2>2, AddSteps
<1>5. ASSUME NEW team \in Sessions, SyncFromChampSelect(team) PROVE Distinct'
  BY <1>5, SyncSteps DEF DistinctTeams, Distinct
<1> QED
  BY <1>1, <1>2, <1>3, <1>4, <1>5, ToggleSteps, RefreshSteps, TickSteps
  DEF SpellsNext, spellVars, CreateRoom, CleanupOldRooms

THEOREM SpellsAreDistinct == DistinctTeams => (SpellsSpec => []Distinct)
<1> SUFFICES ASSUME DistinctTeams PROVE SpellsSpec => []Distinct
  OBVIOUS
<1>1. SpellsInit => Distinct
  BY DEF SpellsInit, Distinct
<1> QED
  BY <1>1, DistinctStep, SpellsAreTidy, PTL DEF SpellsSpec

\* Where players and spells are distinct, an equally named spell is found.
LEMMA DistinctFound ==
  ASSUME Tidy, Distinct, NEW i \in DOMAIN players, NEW s \in Slots
  PROVE  Found(i, s, players[i].id, players[i].spells[s].name)
<1>1. PlayersWith(players[i].id) = {i} /\ SpellsWith(i, players[i].spells[s].name) = {s}
  BY DEF Distinct, PlayersWith, SpellsWith
<1> QED
  BY <1>1, TidyFacts DEF Found, IsFirst, Slots

\* A spell with a namesake before the step comes from it.
LEMMA ComesFrom ==
  ASSUME Tidy, Distinct, Steps, NEW j \in DOMAIN players', NEW t \in Slots,
         NEW i \in DOMAIN players, NEW s \in Slots,
         players[i].id = players'[j].id,
         players[i].spells[s].name = players'[j].spells[t].name
  PROVE  Becomes(players'[j].id, players'[j].spells[t].name, players[i].spells[s],
                 players'[j].spells[t])
<1> DEFINE id == players'[j].id
           new == players'[j].spells[t]
<1>1. Found(i, s, id, new.name)
  BY DistinctFound
<1>2. PICK h \in DOMAIN players, r \in Slots :
         /\ players[h].id = id
         /\ players[h].spells[r].name = new.name
         /\ Becomes(id, new.name, players[h].spells[r], new)
  BY <1>1 DEF Steps, Comes
<1>3. h = i /\ r = s
  BY <1>2 DEF Distinct
<1> QED
  BY <1>2, <1>3

\* A set whose elements are all the same.
LEMMA AtMostOne ==
  ASSUME NEW S, \A x, y \in S : x = y
  PROVE  Cardinality(S) = (IF S = {} THEN 0 ELSE 1)
<1>1. CASE S = {}
  BY <1>1, FS_EmptySet
<1>2. CASE S # {}
  <2>1. PICK x \in S : S = {x}
    BY <1>2
  <2> QED
    BY <1>2, <2>1, FS_Singleton
<1> QED
  BY <1>1, <1>2

(***************************************************************************)
(* A cooldown starts only when its spell is toggled (CopySpellState,       *)
(* ReplacePlayers).                                                        *)
(***************************************************************************)
THEOREM TogglesStart == DistinctTeams => (SpellsSpec => OnlyTogglesStart)
<1> SUFFICES ASSUME DistinctTeams PROVE SpellsSpec => OnlyTogglesStart
  OBVIOUS
<1>1. ASSUME Tidy, Distinct, Steps, Distinct', NEW id \in RiotIds, NEW n \in SpellNames,
             Cardinality(RunningSpells(id, n)') > Cardinality(RunningSpells(id, n))
      PROVE  ToggleSpellByRiotId(id, n)
  <2>1. \A x, y \in RunningSpells(id, n) : x = y
    BY <1>1 DEF RunningSpells, Distinct
  <2>2. \A x, y \in RunningSpells(id, n)' : x = y
    BY <1>1 DEF RunningSpells, Distinct
  <2>3. RunningSpells(id, n)' # {} /\ RunningSpells(id, n) = {}
    <3> DEFINE before == RunningSpells(id, n)
               after == RunningSpells(id, n)'
    <3>1. \A x, y \in before : x = y
      BY <2>1
    <3>2. \A x, y \in after : x = y
      BY <2>2
    <3>3. Cardinality(after) > Cardinality(before)
      BY <1>1
    <3> HIDE DEF before, after
    <3>4. Cardinality(before) = (IF before = {} THEN 0 ELSE 1)
      BY <3>1, AtMostOne
    <3>5. Cardinality(after) = (IF after = {} THEN 0 ELSE 1)
      BY <3>2, AtMostOne
    <3>6. after # {} /\ before = {}
      BY <3>3, <3>4, <3>5
    <3> QED
      BY <3>6 DEF before, after
  <2>4. PICK j \in DOMAIN players', t \in Slots :
           /\ players'[j].id = id
           /\ players'[j].spells[t].name = n
           /\ ~players'[j].spells[t].ready
    BY <2>3 DEF RunningSpells, Running
  <2> DEFINE new == players'[j].spells[t]
  <2>5. new # Fresh(n)
    BY <2>4 DEF Fresh
  <2>6. PICK i \in DOMAIN players, s \in Slots :
           /\ players[i].id = id
           /\ players[i].spells[s].name = n
           /\ Becomes(id, n, players[i].spells[s], new)
    <3>1. Comes(j, t)
      BY <1>1 DEF Steps
    <3> QED
      BY <2>4, <2>5, <3>1 DEF Comes
  <2> DEFINE old == players[i].spells[s]
  <2>7. old.ready /\ Coherent(old) /\ old \in Spell
    <3>1. Coherent(old) /\ old \in Spell
      BY <1>1, TidyFacts
    <3>2. <<i, s>> \notin RunningSpells(id, n)
      BY <2>3
    <3>3. ~(\lnot old.ready)
      BY <2>6, <3>2 DEF RunningSpells, Running
    <3> QED
      BY <3>1, <3>3 DEF Spell
  <2>8. new # old /\ new # Refreshed(old) /\ new # Elapsed(old)
    BY <2>4, <2>7, RefreshedCoherent, ElapsedCoherent
  <2> QED
    BY <2>6, <2>8 DEF Becomes
<1>2. Tidy /\ Distinct /\ Distinct' /\ [SpellsNext]_spellVars =>
        \A id \in RiotIds, n \in SpellNames :
           Cardinality(RunningSpells(id, n)') > Cardinality(RunningSpells(id, n))
              => ToggleSpellByRiotId(id, n)
  BY <1>1, SpellSteps
<1> QED
  BY <1>2, SpellsAreTidy, SpellsAreDistinct, PTL DEF SpellsSpec, OnlyTogglesStart

(***************************************************************************)
(* A running cooldown with a second to go ends or moves only when its      *)
(* spell is toggled, as long as its player keeps the spell (CopySpellState,*)
(* ReplacePlayers, refreshRoomCooldowns).                                  *)
(***************************************************************************)
THEOREM RunningKept == DistinctTeams => (SpellsSpec => CooldownsKept)
<1> SUFFICES ASSUME DistinctTeams PROVE SpellsSpec => CooldownsKept
  OBVIOUS
<1>1. ASSUME Tidy, Distinct, Steps, NEW i \in DOMAIN players, NEW s \in Slots,
             Running(i, s), players[i].spells[s].end >= TicksPerSecond,
             ~ToggleSpellByRiotId(players[i].id, players[i].spells[s].name),
             NEW j \in DOMAIN players', NEW t \in Slots,
             players'[j].id = players[i].id,
             players'[j].spells[t].name = players[i].spells[s].name
      PROVE  players'[j].spells[t].end \in {players[i].spells[s].end,
                                            players[i].spells[s].end - 1}
  <2> DEFINE old == players[i].spells[s]
             new == players'[j].spells[t]
  <2>1. old \in Spell /\ Coherent(old) /\ old.end \in Int
    <3>1. old \in Spell /\ Coherent(old)
      BY <1>1, TidyFacts
    <3> QED
      BY <3>1 DEF Spell, NoEnd
  <2>2. new = old \/ new = Refreshed(old) \/ new = Elapsed(old)
    BY <1>1, ComesFrom DEF Becomes
  <2> QED
    BY <1>1, <2>1, <2>2, RefreshedCoherent, ElapsedCoherent
<1>2. Tidy /\ Distinct /\ [SpellsNext]_spellVars =>
        \A i \in DOMAIN players, s \in Slots :
          LET id == players[i].id
              n == players[i].spells[s].name
              end == players[i].spells[s].end
          IN Running(i, s) /\ end >= TicksPerSecond =>
                \/ ToggleSpellByRiotId(id, n)
                \/ \A j \in DOMAIN players', t \in Slots :
                      players'[j].id = id /\ players'[j].spells[t].name = n
                        => players'[j].spells[t].end \in {end, end - 1}
  BY <1>1, SpellSteps
<1> QED
  BY <1>2, SpellsAreTidy, SpellsAreDistinct, PTL DEF SpellsSpec, CooldownsKept
=============================================================================
