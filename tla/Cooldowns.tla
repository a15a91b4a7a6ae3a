----------------------------- MODULE Cooldowns -----------------------------
(***************************************************************************)
(* The summoner spells of one room: starting, resetting, refreshing and    *)
(* copying cooldowns (internal/services/summoner_spell_service.go,         *)
(* refreshRoomCooldowns and ReplacePlayers of room_service.go) and the     *)
(* expiry of the room, against a clock with ticks shorter than a second.   *)
(*                                                                         *)
(* The room is stored atomically (RoomStore is about how).  Players are    *)
(* found by their Riot id and spells by their name, the first one of each: *)
(* two anonymous players of a champion select have the same id, and two    *)
(* spells the code does not know have the same name.                       *)
(***************************************************************************)
EXTENDS Integers, Sequences, FiniteSets

CONSTANTS
    RiotIds,        \* game name and tag line of a player
    Anonymous,      \* the empty Riot id
    SpellNames,     \* names of summoner spells
    BaseCooldown,   \* seconds, of each spell name (GetSpellCooldown)
    DefaultLoadout, \* the spells of a player added by hand
    Sessions,       \* teams of a champion select: sequences of Riot id and spells
    Haste,          \* DefaultSummonerSpellHaste
    TicksPerSecond,
    Expiration,     \* RoomExpirationDuration, in ticks
    HostOffset      \* offset of the host's time zone from UTC, in ticks

Slots == {1, 2}

Loadout == [Slots -> SpellNames]

ASSUME CooldownsAssumption ==
    /\ Anonymous \in RiotIds
    /\ BaseCooldown \in [SpellNames -> Nat]
    /\ DefaultLoadout \in Loadout
    /\ \A team \in Sessions : team \in Seq([id : RiotIds, loadout : Loadout])
    /\ Haste \in Nat
    /\ TicksPerSecond \in Nat \ {0}
    /\ Expiration \in Nat
    /\ HostOffset \in Int

\* Five minutes at most, against three hours.
ASSUME ExpirationAssumption ==
    \A n \in SpellNames : BaseCooldown[n] * TicksPerSecond <= Expiration

VARIABLES
    exists,         \* is there a room?
    players,        \* its players, in order
    idle            \* ticks since its LastUpdated, up to MaxIdle

spellVars == <<exists, players, idle>>

\* From here on the room is old enough to be deleted, whatever more passes.
MaxIdle == Expiration + 1 + (IF HostOffset > 0 THEN HostOffset ELSE 0)

NoEnd == -1         \* the zero CooldownEndTime

Spell == [name : SpellNames, ready : BOOLEAN, rem : Nat, end : {NoEnd} \union Nat]

SpellTypeOK(sp) ==
    /\ sp \in Spell
    /\ sp.rem <= BaseCooldown[sp.name]
    /\ sp.end <= BaseCooldown[sp.name] * TicksPerSecond

SpellsTypeOK ==
    /\ exists \in BOOLEAN
    /\ idle \in 0..MaxIdle
    /\ players \in Seq([id : RiotIds, spells : [Slots -> Spell]])
    /\ \A i \in DOMAIN players, s \in Slots : SpellTypeOK(players[i].spells[s])

SpellsInit == exists = FALSE /\ players = <<>> /\ idle = 0

-----------------------------------------------------------------------------
(***************************************************************************)
(* One spell.  The end of a cooldown is kept as the ticks left until then. *)
(***************************************************************************)

CalculateCooldown(base, haste) == (base * 100) \div (100 + haste)

Fresh(n) == [name |-> n, ready |-> TRUE, rem |-> 0, end |-> NoEnd]

\* Mutant of Started: the end time ignores haste.
StartedUnhasted(sp) ==
    [sp EXCEPT !.ready = FALSE,
               !.rem = CalculateCooldown(BaseCooldown[sp.name], Haste),
               !.end = BaseCooldown[sp.name] * TicksPerSecond]

Started(sp) ==
    LET cooldown == CalculateCooldown(BaseCooldown[sp.name], Haste)
    IN [sp EXCEPT !.ready = FALSE, !.rem = cooldown, !.end = cooldown * TicksPerSecond]

Reset(sp) == Fresh(sp.name)

\* TogglePlayerSpell on the spell it has found.
Toggled(sp) == IF sp.ready THEN Started(sp) ELSE Reset(sp)

\* Mutant of Refreshed: a cooldown ends when less than no second remains.
RefreshedLate(sp) ==
    LET remaining == sp.end \div TicksPerSecond
    IN IF sp.ready \/ sp.end = NoEnd THEN [sp EXCEPT !.rem = 0]
       ELSE IF remaining < 0 THEN Reset(sp)
       ELSE [sp EXCEPT !.rem = remaining]

\* refreshRoomCooldowns on one spell: whole seconds, truncated.
Refreshed(sp) ==
    LET remaining == sp.end \div TicksPerSecond
    IN IF sp.ready \/ sp.end = NoEnd THEN [sp EXCEPT !.rem = 0]
       ELSE IF remaining <= 0 THEN Reset(sp)
       ELSE [sp EXCEPT !.rem = remaining]

Elapsed(sp) == IF sp.end > 0 THEN [sp EXCEPT !.end = @ - 1] ELSE sp

-----------------------------------------------------------------------------
(***************************************************************************)
(* Finding players and spells.                                             *)
(***************************************************************************)

IsFirst(i, S) == i \in S /\ \A j \in S : i <= j

PlayersWith(id) == {i \in DOMAIN players : players[i].id = id}

SpellsWith(i, n) == {s \in Slots : players[i].spells[s].name = n}

\* FindPlayerByRiotId and FindSpell have found player i and its spell s.
Found(i, s, id, n) == IsFirst(i, PlayersWith(id)) /\ IsFirst(s, SpellsWith(i, n))

\* Mutant of CopySpellState: the state is copied slot by slot.
CopySpellStateBySlot(id, loadout) ==
    [s \in Slots |->
        LET olds == {i \in DOMAIN players : IsFirst(i, PlayersWith(id))}
        IN IF olds = {} THEN Fresh(loadout[s])
           ELSE [players[CHOOSE i \in olds : TRUE].spells[s] EXCEPT !.name = loadout[s]]]

\* Mutant of CopySpellState: only the remaining seconds are carried over.
CopySpellStateFresh(id, loadout) == [s \in Slots |-> Fresh(loadout[s])]

\* CopySpellState: the spells of a player of the session, in the state of the
\* equally named spells of the player that was found.
CopySpellState(id, loadout) ==
    [s \in Slots |->
        LET n == loadout[s]
            olds == {x \in (DOMAIN players) \X Slots : Found(x[1], x[2], id, n)}
        IN IF olds = {} THEN Fresh(n)
           ELSE LET old == CHOOSE x \in olds : TRUE
                IN players[old[1]].spells[old[2]]]

Each(Op(_)) ==
    [i \in DOMAIN players |->
        [players[i] EXCEPT !.spells = [s \in Slots |-> Op(@[s])]]]

-----------------------------------------------------------------------------
(***************************************************************************)
(* Operations of RoomService.                                              *)
(***************************************************************************)

CreateRoom ==
    /\ ~exists
    /\ exists' = TRUE /\ players' = <<>> /\ idle' = 0

\* Mutant of ToggleSpellByRiotId: the room is saved with its old LastUpdated.
ToggleSpellByRiotIdQuietly(id, n) ==
    /\ exists
    /\ \E i \in DOMAIN players, s \in Slots :
          /\ Found(i, s, id, n)
          /\ players' = [players EXCEPT ![i].spells[s] = Toggled(@)]
    /\ UNCHANGED <<exists, idle>>

ToggleSpellByRiotId(id, n) ==
    /\ exists
    /\ \E i \in DOMAIN players, s \in Slots :
          /\ Found(i, s, id, n)
          /\ players' = [players EXCEPT ![i].spells[s] = Toggled(@)]
    /\ idle' = 0
    /\ UNCHANGED exists

\* RefreshCooldowns saves the room without touching LastUpdated.
RefreshCooldowns ==
    /\ exists
    /\ players' = Each(Refreshed)
    /\ UNCHANGED <<exists, idle>>

\* SyncFromChampSelect and ReplacePlayers; equal players are not saved.
SyncFromChampSelect(team) ==
    /\ exists
    /\ players' = [i \in DOMAIN team |->
                     [id |-> team[i].id,
                      spells |-> CopySpellState(team[i].id, team[i].loadout)]]
    /\ idle' = IF players' = players THEN idle ELSE 0
    /\ UNCHANGED exists

\* AddPlayer, called by its handler with an empty Riot id: one such player is
\* appended, and only its champion changes when there is one.
AddPlayer ==
    /\ exists
    /\ players' = IF PlayersWith(Anonymous) # {} THEN players
                  ELSE Append(players, [id |-> Anonymous,
                                        spells |-> [s \in Slots |-> Fresh(DefaultLoadout[s])]])
    /\ idle' = 0
    /\ UNCHANGED exists

\* The age that cleanupOldRooms computes.  LastUpdated is a local time, stored
\* without its offset (TIMESTAMP) and read back as UTC.
Age == idle - HostOffset

CleanupOldRooms ==
    /\ exists /\ Age > Expiration
    /\ exists' = FALSE /\ players' = <<>> /\ idle' = 0

\* A fraction of a second passes.
Tick ==
    /\ players' = Each(Elapsed)
    /\ idle' = IF exists /\ idle < MaxIdle THEN idle + 1 ELSE idle
    /\ UNCHANGED exists

SpellsNext ==
    \/ CreateRoom \/ AddPlayer
    \/ \E id \in RiotIds, n \in SpellNames : ToggleSpellByRiotId(id, n)
    \/ \E team \in Sessions : SyncFromChampSelect(team)
    \/ RefreshCooldowns \/ CleanupOldRooms \/ Tick

SpellsSpec == SpellsInit /\ [][SpellsNext]_spellVars

\* Time passes, and StartCooldownUpdater refreshes every second.
FairSpellsSpec == SpellsSpec /\ WF_spellVars(Tick) /\ WF_spellVars(RefreshCooldowns)

-----------------------------------------------------------------------------
(***************************************************************************)
(* Properties.                                                             *)
(***************************************************************************)

\* Spell s of player i is running out.
Running(i, s) == ~players[i].spells[s].ready

(***************************************************************************)
(* Type correctness, and: ready, end time and remaining seconds agree,     *)
(* whoever wrote them last (TogglePlayerSpell, refreshRoomCooldowns,       *)
(* CopySpellState), and the seconds shown are never a second or more below *)
(* what is left.                                                           *)
(***************************************************************************)
CoherentSpells ==
    /\ SpellsTypeOK
    /\ \A i \in DOMAIN players, s \in Slots :
           LET sp == players[i].spells[s]
           IN /\ sp.ready <=> sp.end = NoEnd
              /\ sp.ready => sp.rem = 0
              /\ ~sp.ready => sp.end < (sp.rem + 1) * TicksPerSecond

\* The spells called n of the players called id that are running out.
RunningSpells(id, n) ==
    {x \in (DOMAIN players) \X Slots :
        /\ players[x[1]].id = id
        /\ players[x[1]].spells[x[2]].name = n
        /\ Running(x[1], x[2])}

(***************************************************************************)
(* A cooldown starts only when somebody toggles the spell: synchronizing a *)
(* champion select starts none (CopySpellState, ReplacePlayers).           *)
(***************************************************************************)
OnlyTogglesStart ==
    [][\A id \in RiotIds, n \in SpellNames :
          Cardinality(RunningSpells(id, n)') > Cardinality(RunningSpells(id, n))
             => ToggleSpellByRiotId(id, n)]_spellVars

(***************************************************************************)
(* A running cooldown with a second or more to go ends or moves only when  *)
(* it is toggled, as long as its player keeps the spell: synchronizing,    *)
(* adding players and refreshing carry its end time along.                 *)
(***************************************************************************)
CooldownsKept ==
    [][\A i \in DOMAIN players, s \in Slots :
          LET id == players[i].id
              n == players[i].spells[s].name
              end == players[i].spells[s].end
          IN Running(i, s) /\ end >= TicksPerSecond =>
                \/ ToggleSpellByRiotId(id, n)
                \/ \A j \in DOMAIN players', t \in Slots :
                      players'[j].id = id /\ players'[j].spells[t].name = n
                        => players'[j].spells[t].end \in {end, end - 1}]_spellVars

(***************************************************************************)
(* The cleanup never deletes a room with a cooldown still running: no      *)
(* cooldown outlasts RoomExpirationDuration, and what starts one also      *)
(* stamps the room (cleanupOldRooms, saveRoom).                            *)
(***************************************************************************)
CleanupSparesRunning ==
    [][exists /\ ~exists' =>
          \A i \in DOMAIN players, s \in Slots : players[i].spells[s].end <= 0]_spellVars

(***************************************************************************)
(* A room is kept for RoomExpirationDuration after its last update         *)
(* (constants.RoomExpirationDuration = 180 * time.Minute).  On a host west *)
(* of UTC its stored time of update lies in the past.                      *)
(***************************************************************************)
KeptUntilExpired == [][exists /\ ~exists' => idle > Expiration]_spellVars

(***************************************************************************)
(* Every cooldown ends, although the refresh truncates and the room is     *)
(* synchronized meanwhile (refreshRoomCooldowns).                          *)
(***************************************************************************)
CooldownsEnd ==
    \A id \in RiotIds, n \in SpellNames : RunningSpells(id, n) # {} ~> RunningSpells(id, n) = {}
=============================================================================
