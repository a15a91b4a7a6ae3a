------------------------- MODULE CurrentRoomProofs -------------------------
(***************************************************************************)
(* Proofs about CurrentRoom, for any number of instances, clients,         *)
(* champion selects and changes of their players, whether or not NATS      *)
(* loses announcements.                                                    *)
(*                                                                         *)
(* Two arguments.  SyncInv: a room is saved by the tick that saw its       *)
(* champion select only, a later select has no room yet, and the tick that *)
(* saves a room goes on to make it the current one.  ShownInv: the         *)
(* announcements wait in the order in which the current room changed, so   *)
(* the last of them is the current room and the last broadcast shows it.   *)
(***************************************************************************)
EXTENDS CurrentRoom, HubProofs

USE HubAssumption, CurrentRoomAssumption

(***************************************************************************)
(* The stored rooms and the current one.                                   *)
(***************************************************************************)

\* Selects are numbered as they open; the tick has seen the latest or an earlier one.
Numbering ==
    /\ select \in {0, selects}
    /\ select # 0 => picks # 0
    /\ seen.select <= selects /\ lastSync <= selects
    /\ seen.select # 0 => seen.picks # 0
    /\ pc \in {"sync", "set"} => seen.select # 0
    /\ pc = "clear" => seen.select = 0
    /\ pc = "idle" => seen = NothingSeen

\* A select that no tick has seen has no room.
UnseenUnsaved ==
    /\ \A k \in Selects : k > selects => saved[k] = 0
    /\ pc = "sync" \/ pc = "set" \/ (pc = "announce" /\ seen.select # 0) =>
          \A k \in Selects : k > seen.select => saved[k] = 0
    /\ (pc = "clear" \/ (pc = "announce" /\ seen.select = 0)) /\ select # 0
          => saved[select] = 0

\* The room of the present select is the current one, or about to be.
SavedIsCurrent ==
    ~forgotten /\ select # 0 /\ saved[select] # 0 =>
        current[Poller] = select \/ (pc = "set" /\ seen.select = select)

\* A tick that has ended in sync leaves a stored room; so does one on its way.
SyncedIsSaved ==
    /\ lastSync # 0 /\ lastSync = select => saved[select] # 0
    /\ pc = "set" \/ (pc = "announce" /\ seen.select # 0) => saved[seen.select] # 0

SyncInv == Numbering /\ UnseenUnsaved /\ SavedIsCurrent /\ SyncedIsSaved

-----------------------------------------------------------------------------
(***************************************************************************)
(* Types.                                                                  *)
(***************************************************************************)

RoomTypes ==
    /\ select \in 0..MaxSelects /\ selects \in 0..MaxSelects
    /\ picks \in Nat
    /\ running \in BOOLEAN
    /\ saved \in [Selects -> Nat]
    /\ current \in [Instances -> Values]
    /\ pc \in {"idle", "sync", "set", "clear", "announce"}
    /\ seen \in [select : 0..MaxSelects, picks : Nat]
    /\ owed \in Values
    /\ inbox \in [Instances -> Seq(Values)]
    /\ behind \in [Instances -> BOOLEAN]
    /\ lastSync \in 0..MaxSelects
    /\ forgotten \in BOOLEAN /\ orphaned \in BOOLEAN

LEMMA NothingSeenType ==
    NothingSeen \in [select : 0..MaxSelects, picks : Nat]
  BY DEF NothingSeen, Selects

\* The poller's tick keeps the types.
LEMMA TickTypes ==
    ASSUME RoomTypes, Numbering, Tick
    PROVE  RoomTypes'
<1> USE NothingSeenType DEF RoomTypes, EndTick, GoTo, clientVars, pollVars, historyVars
<1>1. CASE PollElsewhere
  BY <1>1 DEF PollElsewhere, Selects
<1>2. CASE PollSelect
  BY <1>2 DEF PollSelect
<1>3. CASE SyncUnchanged
  BY <1>3 DEF SyncUnchanged
<1>4. CASE SyncSaved
  BY <1>4 DEF SyncSaved
<1>5. CASE SyncError
  <2>1. UNCHANGED <<clientVars, current, owed, inbox, behind, orphaned>> /\ EndTick(0)
    BY <1>5 DEF SyncError
  <2>2. saved' \in [Selects -> Nat]
    BY <1>5 DEF SyncError
  <2>3. forgotten' \in BOOLEAN
    BY <1>5, Zenon DEF SyncError
  <2> QED
    BY <2>1, <2>2, <2>3
<1>6. CASE SetCurrentRoomID
  <2>1. seen.select \in Values
    BY <1>6 DEF SetCurrentRoomID, Numbering, Selects
  <2>2. seen.select \in 0..MaxSelects
    OBVIOUS
  <2>3. CASE current[Poller] = seen.select
    BY <1>6, <2>2, <2>3 DEF SetCurrentRoomID
  <2>4. CASE current[Poller] # seen.select
    BY <1>6, <2>1, <2>4 DEF SetCurrentRoomID
  <2> QED
    BY <2>3, <2>4
<1>7. CASE ClearCurrentRoomID
  <2>1. None \in Values
    OBVIOUS
  <2>2. CASE current[Poller] = owed
    BY <1>7, <2>1, <2>2 DEF ClearCurrentRoomID
  <2>3. CASE current[Poller] # owed
    BY <1>7, <2>1, <2>3 DEF ClearCurrentRoomID
  <2> QED
    BY <2>2, <2>3
<1>8. CASE PublishCurrentRoomChanged
  BY <1>8 DEF PublishCurrentRoomChanged
<1> QED
  BY <1>1, <1>2, <1>3, <1>4, <1>5, <1>6, <1>7, <1>8 DEF Tick

\* So does every other step.
LEMMA OtherTypes ==
    ASSUME RoomTypes,
           \/ OpenSelect \/ Pick \/ CloseSelect \/ Toggle
           \/ \E i \in Instances :
                 Consume(i) \/ Restart(i) \/ \E k \in Selects : CleanupRoom(i, k)
    PROVE  RoomTypes'
<1> USE NothingSeenType DEF RoomTypes, clientVars, pollVars, historyVars
<1>1. CASE OpenSelect
  <2>1. selects + 1 \in 0..MaxSelects /\ 1 \in Nat
    BY <1>1 DEF OpenSelect
  <2> QED
    BY <1>1, <2>1 DEF OpenSelect
<1>2. CASE Pick
  <2>1. picks' \in Nat
    BY <1>2 DEF Pick
  <2> QED
    BY <1>2, <2>1 DEF Pick
<1>6. CASE CloseSelect
  BY <1>6 DEF CloseSelect
<1>7. CASE Toggle
  BY <1>7 DEF Toggle
<1>3. ASSUME NEW i \in Instances, Consume(i) PROVE RoomTypes'
  BY <1>3 DEF Consume
<1>4. ASSUME NEW i \in Instances, Restart(i) PROVE RoomTypes'
  <2>1. /\ current' \in [Instances -> Values] /\ inbox' \in [Instances -> Seq(Values)]
        /\ behind' \in [Instances -> BOOLEAN]
    BY <1>4 DEF Restart
  <2>2. CASE i = Poller
    <3>1. /\ pc' = "idle" /\ seen' = NothingSeen /\ owed' = None /\ lastSync' = 0
          /\ forgotten' = TRUE /\ orphaned' = FALSE
          /\ UNCHANGED <<clientVars, saved>>
      BY <1>4, <2>2 DEF Restart
    <3>2. forgotten' \in BOOLEAN /\ orphaned' \in BOOLEAN
      BY <3>1, Zenon
    <3> QED
      BY <2>1, <3>1, <3>2, SMTT(30)
  <2>3. CASE i # Poller
    BY <1>4, <2>1, <2>3 DEF Restart
  <2> QED
    BY <2>2, <2>3
<1>5. ASSUME NEW i \in Instances, NEW k \in Selects, CleanupRoom(i, k) PROVE RoomTypes'
  <2>1. saved' \in [Selects -> Nat]
    BY <1>5 DEF CleanupRoom
  <2>2. current' \in [Instances -> Values] /\ behind' \in [Instances -> BOOLEAN]
    <3>1. \/ UNCHANGED <<current, behind>>
          \/ /\ current' = [current EXCEPT ![i] = None]
             /\ behind' = [behind EXCEPT ![i] = TRUE]
      BY <1>5 DEF CleanupRoom
    <3> QED
      BY <3>1
  <2>3. orphaned' \in BOOLEAN
    BY <1>5 DEF CleanupRoom
  <2> QED
    BY <1>5, <2>1, <2>2, <2>3 DEF CleanupRoom
<1> QED
  BY <1>1, <1>2, <1>3, <1>4, <1>5, <1>6, <1>7

-----------------------------------------------------------------------------
(***************************************************************************)
(* The stored rooms and the current one, step by step.                     *)
(***************************************************************************)

\* The League client keeps SyncInv: a select that opens has no room yet.
LEMMA ClientSync ==
    ASSUME RoomTypes, SyncInv, OpenSelect \/ Pick \/ CloseSelect \/ Toggle
    PROVE  SyncInv'
<1> USE DEF RoomTypes, SyncInv, clientVars, pollVars, historyVars, Selects
<1>1. CASE OpenSelect
  <2>1. Numbering'
    BY <1>1 DEF OpenSelect, Numbering
  <2>2. UnseenUnsaved'
    BY <1>1 DEF OpenSelect, Numbering, UnseenUnsaved
  <2>3. SavedIsCurrent' /\ SyncedIsSaved'
    BY <1>1 DEF OpenSelect, Numbering, UnseenUnsaved, SavedIsCurrent, SyncedIsSaved
  <2> QED
    BY <2>1, <2>2, <2>3
<1>2. CASE Pick
  BY <1>2 DEF Pick, Numbering, UnseenUnsaved, SavedIsCurrent, SyncedIsSaved
<1>3. CASE CloseSelect
  BY <1>3 DEF CloseSelect, Numbering, UnseenUnsaved, SavedIsCurrent, SyncedIsSaved
<1>4. CASE Toggle
  BY <1>4 DEF Toggle, Numbering, UnseenUnsaved, SavedIsCurrent, SyncedIsSaved
<1> QED
  BY <1>1, <1>2, <1>3, <1>4

\* The tick keeps SyncInv: what it saves it makes current (StartChampSelectSync).
LEMMA TickSync ==
    ASSUME RoomTypes, SyncInv, Tick
    PROVE  SyncInv'
<1> USE DEF RoomTypes, SyncInv, EndTick, GoTo, NothingSeen, clientVars, pollVars, historyVars,
            Selects, Numbering, UnseenUnsaved, SavedIsCurrent, SyncedIsSaved
<1>1. CASE PollElsewhere
  BY <1>1 DEF PollElsewhere
<1>2. CASE PollSelect
  BY <1>2 DEF PollSelect
<1>3. CASE SyncUnchanged
  BY <1>3 DEF SyncUnchanged
<1>4. CASE SyncSaved
  <2>1. /\ saved' = [saved EXCEPT ![seen.select] = seen.picks]
        /\ pc = "sync" /\ pc' = "set"
        /\ UNCHANGED <<clientVars, current, seen, lastSync, forgotten>>
    BY <1>4 DEF SyncSaved
  <2>2. Numbering' /\ seen.select \in Selects /\ seen.picks # 0
    BY <2>1
  <2>3. UnseenUnsaved' /\ SyncedIsSaved'
    BY <2>1, <2>2
  <2>4. SavedIsCurrent'
    BY <2>1, <2>2
  <2> QED
    BY <2>2, <2>3, <2>4
<1>5. CASE SyncError
  <2>1. CASE UNCHANGED <<saved, forgotten>>
    BY <1>5, <2>1 DEF SyncError
  <2>2. CASE ~UNCHANGED <<saved, forgotten>>
    <3>1. /\ saved' = [saved EXCEPT ![seen.select] = seen.picks]
          /\ ~forgotten' => current[Poller] = seen.select
          /\ pc = "sync" /\ pc' = "idle" /\ seen' = NothingSeen /\ lastSync' = 0
          /\ UNCHANGED <<clientVars, current>>
      BY <1>5, <2>2 DEF SyncError
    <3>2. Numbering' /\ seen.select \in Selects /\ seen.picks # 0
      BY <3>1
    <3>3. UnseenUnsaved' /\ SyncedIsSaved'
      BY <3>1, <3>2
    <3>4. SavedIsCurrent'
      BY <3>1, <3>2
    <3> QED
      BY <3>2, <3>3, <3>4
  <2> QED
    BY <2>1, <2>2
<1>6. CASE SetCurrentRoomID
  <2>1. CASE current[Poller] = seen.select
    BY <1>6, <2>1 DEF SetCurrentRoomID
  <2>2. CASE current[Poller] # seen.select
    <3>1. /\ current' = [current EXCEPT ![Poller] = seen.select] /\ pc' = "announce"
          /\ pc = "set" /\ UNCHANGED <<clientVars, seen, saved, lastSync>>
      BY <1>6, <2>2 DEF SetCurrentRoomID
    <3>2. Numbering' /\ UnseenUnsaved' /\ SyncedIsSaved'
      BY <3>1
    <3>3. SavedIsCurrent'
      BY <3>1
    <3> QED
      BY <3>2, <3>3
  <2> QED
    BY <2>1, <2>2
<1>7. CASE ClearCurrentRoomID
  <2>1. /\ pc = "clear" /\ pc' \in {"idle", "announce"}
        /\ UNCHANGED <<clientVars, saved, forgotten>>
        /\ IF pc' = "idle" THEN seen' = NothingSeen /\ lastSync' = 0
           ELSE UNCHANGED <<seen, lastSync>>
    BY <1>7 DEF ClearCurrentRoomID
  <2>2. Numbering' /\ UnseenUnsaved'
    BY <2>1
  <2>3. SavedIsCurrent' /\ SyncedIsSaved'
    BY <2>1
  <2> QED
    BY <2>2, <2>3
<1>8. CASE PublishCurrentRoomChanged
  BY <1>8 DEF PublishCurrentRoomChanged
<1> QED
  BY <1>1, <1>2, <1>3, <1>4, <1>5, <1>6, <1>7, <1>8 DEF Tick

\* A cleanup and a restart keep SyncInv: rooms in use are spared, and a restart
\* of the poller is remembered (forgotten).
LEMMA InstanceSync ==
    ASSUME RoomTypes, SyncInv, NEW i \in Instances,
           Restart(i) \/ \E k \in Selects : CleanupRoom(i, k)
    PROVE  SyncInv'
<1> USE DEF RoomTypes, SyncInv, NothingSeen, clientVars, pollVars, historyVars,
            Selects, Numbering, UnseenUnsaved, SavedIsCurrent, SyncedIsSaved
<1>1. CASE Restart(i)
  <2>1. CASE i = Poller
    BY <1>1, <2>1 DEF Restart
  <2>2. CASE i # Poller
    <3>1. current'[Poller] = current[Poller] /\ UNCHANGED <<clientVars, saved, pollVars, lastSync, forgotten>>
      BY <1>1, <2>2 DEF Restart
    <3> QED
      BY <3>1
  <2> QED
    BY <2>1, <2>2
<1>2. ASSUME NEW k \in Selects, CleanupRoom(i, k) PROVE SyncInv'
  <2>1. /\ saved' = [saved EXCEPT ![k] = 0] /\ k # select /\ k # seen.select
        /\ UNCHANGED <<clientVars, pollVars, lastSync, forgotten>>
    <3> HIDE DEF RoomTypes, SyncInv
    <3> QED
      BY <1>2 DEF CleanupRoom
  <2>2. Numbering' /\ UnseenUnsaved' /\ SyncedIsSaved'
    <3>1. Numbering'
      BY <2>1
    <3>2. /\ saved \in [1..MaxSelects -> Nat] /\ MaxSelects \in Nat
          /\ select \in 0..MaxSelects /\ seen.select \in 0..MaxSelects
      OBVIOUS
    <3>3. UnseenUnsaved /\ SyncedIsSaved /\ (pc = "set" => seen.select # 0)
      OBVIOUS
    <3> HIDE DEF RoomTypes, SyncInv, Numbering, SavedIsCurrent
    <3>4. /\ \A j \in 1..MaxSelects : saved'[j] \in {saved[j], 0}
          /\ select # 0 => saved'[select] = saved[select]
          /\ seen.select # 0 => saved'[seen.select] = saved[seen.select]
          /\ UNCHANGED <<select, selects, pc, seen, lastSync>>
      BY <2>1, <3>2
    <3>5. UnseenUnsaved' /\ SyncedIsSaved'
      BY <3>4, <3>3
    <3> QED
      BY <3>1, <3>5
  <2>3. SavedIsCurrent'
    <3>1. CASE current' = current
      BY <2>1, <3>1
    <3>2. CASE current[i] = k /\ current' = [current EXCEPT ![i] = None]
      BY <2>1, <3>2
    <3> QED
      BY <1>2, <3>1, <3>2 DEF CleanupRoom
  <2> QED
    BY <2>2, <2>3
<1> QED
  BY <1>1, <1>2

\* No tick, and no cleanup but the excepted ones, leaves the current room without
\* a stored one.
LEMMA ExistsStep ==
    ASSUME RoomTypes, SyncInv, CurrentRoomExists,
           \/ OpenSelect \/ Pick \/ CloseSelect \/ Toggle \/ Tick
           \/ \E i \in Instances :
                 Consume(i) \/ Restart(i) \/ \E k \in Selects : CleanupRoom(i, k)
    PROVE  CurrentRoomExists'
<1> USE DEF RoomTypes, SyncInv, CurrentRoomExists, Selects, clientVars, pollVars, historyVars
<1>1. CASE OpenSelect \/ Pick \/ CloseSelect \/ Toggle
  BY <1>1 DEF OpenSelect, Pick, CloseSelect, Toggle
<1>2. CASE PollElsewhere \/ PollSelect \/ SyncUnchanged \/ PublishCurrentRoomChanged
  BY <1>2 DEF PollElsewhere, PollSelect, SyncUnchanged, PublishCurrentRoomChanged
<1>3. CASE SyncSaved \/ SyncError
  BY <1>3 DEF SyncSaved, SyncError, Numbering
<1>4. CASE SetCurrentRoomID
  BY <1>4 DEF SetCurrentRoomID, SyncedIsSaved
<1>5. CASE ClearCurrentRoomID
  <2>1. saved' = saved
    BY <1>5 DEF ClearCurrentRoomID
  <2>2. CASE current[Poller] # owed
    BY <1>5, <2>1, <2>2 DEF ClearCurrentRoomID
  <2>3. CASE current[Poller] = owed
    BY <1>5, <2>1, <2>3 DEF ClearCurrentRoomID
  <2> QED
    BY <2>2, <2>3
<1>6. ASSUME NEW i \in Instances, Consume(i) PROVE CurrentRoomExists'
  BY <1>6 DEF Consume
<1>7. ASSUME NEW i \in Instances, Restart(i) PROVE CurrentRoomExists'
  BY <1>7 DEF Restart
<1>8. ASSUME NEW i \in Instances, NEW k \in Selects, CleanupRoom(i, k) PROVE CurrentRoomExists'
  <2>1. saved' = [saved EXCEPT ![k] = 0]
    BY <1>8 DEF CleanupRoom
  <2>2. current'[Poller] \in {current[Poller], None}
    BY <1>8 DEF CleanupRoom
  <2>3. CASE current[Poller] = k
    <3>1. orphaned' = (current'[Poller] = k)
      BY <1>8, <2>3, Zenon DEF CleanupRoom
    <3> QED
      BY <2>1, <2>2, <2>3, <3>1
  <2>4. CASE current[Poller] # k
    <3>1. orphaned' = orphaned
      BY <1>8, <2>4, Zenon DEF CleanupRoom
    <3> QED
      BY <2>1, <2>2, <2>4, <3>1
  <2> QED
    BY <2>3, <2>4
<1> QED
  BY <1>1, <1>2, <1>3, <1>4, <1>5, <1>6, <1>7, <1>8 DEF Tick

-----------------------------------------------------------------------------
(***************************************************************************)
(* What the clients of the polling instance are shown.                     *)
(***************************************************************************)

\* Something is on its way to the clients of the polling instance, or was lost.
Pending == behind[Poller] \/ inbox[Poller] # <<>> \/ pc = "announce"

Shown(c) == IF stage[c] = "loaded" THEN first[c] ELSE view[c]

\* The last announcement made, or about to be made, is of the current room.
LastIsCurrent ==
    ~behind[Poller] =>
        IF pc = "announce" THEN owed = current[Poller]
        ELSE inbox[Poller] # <<>> => inbox[Poller][Len(inbox[Poller])] = current[Poller]

CastIsCurrent == ~Pending /\ ~Idle(Poller) => job[Poller].value = current[Poller]

\* The broadcast of the current room will reach c.
ToldNext(c) ==
    /\ job[Poller].value = current[Poller]
    /\ job[Poller].listed => c \in job[Poller].left

ViewIsCurrent ==
    \A c \in At(Poller) \ overtaken :
        stage[c] \in {"loaded", "open"} /\ c \notin closed \union absent /\ ~Pending
            => Shown(c) = current[Poller] \/ ToldNext(c)

ShownInv == LastIsCurrent /\ CastIsCurrent /\ ViewIsCurrent

\* A step that leaves the hub and the current room alone, and does not end what
\* is on its way, keeps ShownInv.
LEMMA SilentShown ==
    ASSUME RoomTypes, ShownInv, LastIsCurrent', UNCHANGED hubVars,
           ~Pending' => ~Pending /\ current'[Poller] = current[Poller]
    PROVE  ShownInv'
<1>1. CastIsCurrent'
  BY DEF ShownInv, CastIsCurrent, Idle, hubVars
<1>2. ViewIsCurrent'
  BY DEF ShownInv, ViewIsCurrent, Shown, ToldNext, At, hubVars, handlerVars
<1> QED
  BY <1>1, <1>2 DEF ShownInv

\* The tick keeps ShownInv: the current room changes under the mutex and is
\* announced by the same goroutine (SetCurrentRoomID, ClearCurrentRoomID).
LEMMA TickShown ==
    ASSUME RoomTypes, ShownInv, Tick
    PROVE  ShownInv'
<1> USE DEF EndTick, GoTo, clientVars, pollVars, historyVars
<1>1. CASE \/ PollElsewhere \/ PollSelect \/ SyncUnchanged \/ SyncSaved \/ SyncError
  <2>1. /\ UNCHANGED <<hubVars, current, inbox, behind>>
        /\ pc # "announce" /\ pc' # "announce"
    BY <1>1 DEF PollElsewhere, PollSelect, SyncUnchanged, SyncSaved, SyncError
  <2>2. LastIsCurrent'
    BY <2>1 DEF ShownInv, LastIsCurrent
  <2> QED
    BY <2>1, <2>2, SilentShown DEF Pending
<1>2. CASE SetCurrentRoomID
  <2>1. pc = "set" /\ UNCHANGED <<hubVars, inbox>>
    BY <1>2 DEF SetCurrentRoomID
  <2>2. CASE current[Poller] = seen.select
    <3>1. UNCHANGED <<current, behind>> /\ pc' = "idle"
      BY <1>2, <2>2 DEF SetCurrentRoomID
    <3>2. LastIsCurrent'
      BY <2>1, <3>1 DEF ShownInv, LastIsCurrent
    <3> QED
      BY <2>1, <3>1, <3>2, SilentShown DEF Pending
  <2>3. CASE current[Poller] # seen.select
    <3>1. pc' = "announce" /\ owed' = current'[Poller]
      BY <1>2, <2>3 DEF SetCurrentRoomID, RoomTypes
    <3> QED
      BY <2>1, <3>1, SilentShown DEF Pending, LastIsCurrent
  <2> QED
    BY <2>2, <2>3
<1>3. CASE ClearCurrentRoomID
  <2>1. pc = "clear" /\ UNCHANGED <<hubVars, inbox>>
    BY <1>3 DEF ClearCurrentRoomID
  <2>2. CASE current[Poller] # owed
    <3>1. UNCHANGED <<current, behind>> /\ pc' = "idle"
      BY <1>3, <2>2 DEF ClearCurrentRoomID
    <3>2. LastIsCurrent'
      BY <2>1, <3>1 DEF ShownInv, LastIsCurrent
    <3> QED
      BY <2>1, <3>1, <3>2, SilentShown DEF Pending
  <2>3. CASE current[Poller] = owed
    <3>1. pc' = "announce" /\ owed' = current'[Poller]
      BY <1>3, <2>3 DEF ClearCurrentRoomID, RoomTypes
    <3> QED
      BY <2>1, <3>1, SilentShown DEF Pending, LastIsCurrent
  <2> QED
    BY <2>2, <2>3
<1>4. CASE PublishCurrentRoomChanged
  <2>1. PICK D \in SUBSET Instances :
          /\ inbox' = [i \in Instances |-> IF i \in D THEN Append(inbox[i], owed) ELSE inbox[i]]
          /\ behind' = [i \in Instances |-> behind[i] \/ i \notin D]
    BY <1>4 DEF PublishCurrentRoomChanged
  <2>2. pc = "announce" /\ pc' = "idle" /\ UNCHANGED <<hubVars, current>>
    BY <1>4 DEF PublishCurrentRoomChanged
  <2>3. CASE behind'[Poller]
    BY <2>2, <2>3, SilentShown DEF Pending, LastIsCurrent
  <2>4. CASE ~behind'[Poller]
    <3>1. inbox'[Poller] = Append(inbox[Poller], owed) /\ ~behind[Poller]
      BY <2>1, <2>4
    <3>2. inbox[Poller] \in Seq(Values) /\ owed \in Values
      BY DEF RoomTypes
    <3>3. inbox'[Poller] # <<>> /\ inbox'[Poller][Len(inbox'[Poller])] = owed
      BY <3>1, <3>2
    <3>4. owed = current[Poller]
      BY <2>2, <3>1 DEF ShownInv, LastIsCurrent
    <3>5. LastIsCurrent'
      BY <2>2, <3>3, <3>4 DEF LastIsCurrent
    <3> QED
      BY <2>2, <3>3, <3>5, SilentShown DEF Pending
  <2> QED
    BY <2>3, <2>4
<1> QED
  BY <1>1, <1>2, <1>3, <1>4 DEF Tick

\* The League client and the cleanup keep ShownInv: what the cleanup clears is
\* counted as lost.
LEMMA SilentStepsShown ==
    ASSUME RoomTypes, ShownInv,
           \/ OpenSelect \/ Pick \/ CloseSelect \/ Toggle
           \/ \E i \in Instances, k \in Selects : CleanupRoom(i, k)
    PROVE  ShownInv'
<1> USE DEF clientVars, pollVars, historyVars
<1>1. CASE OpenSelect \/ Pick \/ CloseSelect \/ Toggle
  <2>1. UNCHANGED <<hubVars, current, pollVars, inbox, behind>>
    BY <1>1 DEF OpenSelect, Pick, CloseSelect, Toggle
  <2>2. LastIsCurrent'
    BY <2>1 DEF ShownInv, LastIsCurrent
  <2> QED
    BY <2>1, <2>2, SilentShown DEF Pending
<1>2. ASSUME NEW i \in Instances, NEW k \in Selects, CleanupRoom(i, k) PROVE ShownInv'
  <2>1. UNCHANGED <<hubVars, pollVars, inbox>>
    BY <1>2 DEF CleanupRoom
  <2>2. \/ behind'[Poller]
        \/ behind'[Poller] = behind[Poller] /\ current'[Poller] = current[Poller]
    BY <1>2 DEF CleanupRoom, RoomTypes
  <2>3. LastIsCurrent'
    BY <2>1, <2>2 DEF ShownInv, LastIsCurrent
  <2> QED
    BY <2>1, <2>2, <2>3, SilentShown DEF Pending
<1> QED
  BY <1>1, <1>2

\* The consumption of an announcement keeps ShownInv (handleCurrentRoomChanged):
\* announcements are consumed in the order in which they were made.
LEMMA ConsumeShown ==
    ASSUME RoomTypes, HubTypeOK, ShownInv, NEW i \in Instances, Consume(i)
    PROVE  ShownInv'
<1> USE DEF clientVars, pollVars, historyVars
<1>1. UNCHANGED <<stage, first, view, closed, absent, overtaken, current, owed, behind, pc>>
  BY DEF Consume, BeginCast, handlerVars
<1>2. CASE i # Poller
  <2>1. inbox'[Poller] = inbox[Poller] /\ job'[Poller] = job[Poller]
    BY <1>2 DEF Consume, BeginCast, RoomTypes, HubTypeOK
  <2> QED
    BY <1>1, <2>1 DEF ShownInv, LastIsCurrent, CastIsCurrent, ViewIsCurrent, Pending, Shown,
                      ToldNext, Idle, At
<1>3. CASE i = Poller
  <2> DEFINE s == inbox[Poller]
  <2>1. s \in Seq(Values) /\ s # <<>> /\ inbox'[Poller] = Tail(s)
    BY <1>3 DEF Consume, RoomTypes
  <2>2. job'[Poller].value = Head(s) /\ ~job'[Poller].listed
    BY <1>3 DEF Consume, BeginCast, Idle, NoJob, HubTypeOK
  <2>3. CASE Tail(s) = <<>>
    <3>1. Head(s) = s[Len(s)]
      <4>1. Len(s) = 1
        <5>1. Len(s) \in Nat /\ Len(s) # 0
          BY <2>1
        <5>2. Len(Tail(s)) = Len(s) - 1
          BY <2>1
        <5>3. Len(Tail(s)) = 0
          <6>1. Len(<<>>) = 0
            OBVIOUS
          <6> QED
            BY <6>1, <2>3, Zenon
        <5> QED
          BY <5>1, <5>2, <5>3
      <4> QED
        BY <2>1, <4>1
    <3>2. ~behind[Poller] /\ pc # "announce" => Head(s) = current[Poller]
      BY <2>1, <3>1 DEF ShownInv, LastIsCurrent
    <3>3. LastIsCurrent'
      BY <1>1, <2>1, <2>3 DEF ShownInv, LastIsCurrent
    <3>4. CastIsCurrent'
      BY <1>1, <2>2, <3>2 DEF CastIsCurrent, Pending
    <3>5. ViewIsCurrent'
      BY <1>1, <2>2, <3>2 DEF ViewIsCurrent, Pending, ToldNext
    <3> QED
      BY <3>3, <3>4, <3>5 DEF ShownInv
  <2>4. CASE Tail(s) # <<>>
    <3>1. Tail(s)[Len(Tail(s))] = s[Len(s)]
      BY <2>1, <2>4
    <3>2. LastIsCurrent'
      BY <1>1, <2>1, <3>1 DEF ShownInv, LastIsCurrent
    <3> QED
      BY <1>1, <2>1, <2>4, <3>2 DEF ShownInv, CastIsCurrent, ViewIsCurrent, Pending
  <2> QED
    BY <2>3, <2>4
<1> QED
  BY <1>2, <1>3

\* A restart keeps ShownInv: the poller's takes its clients with it.
LEMMA RestartShown ==
    ASSUME RoomTypes, HubTypeOK, ShownInv, NEW i \in Instances, Restart(i)
    PROVE  ShownInv'
<1> USE DEF clientVars, pollVars, historyVars
<1>1. CASE i = Poller
  <2>1. /\ inbox'[Poller] = <<>> /\ pc' = "idle" /\ Idle(Poller)'
        /\ \A c \in At(Poller) : stage'[c] \in {"new", "gone"}
    BY <1>1 DEF Restart, StopHub, Idle, At, RoomTypes, HubTypeOK
  <2> QED
    BY <2>1 DEF ShownInv, LastIsCurrent, CastIsCurrent, ViewIsCurrent, At
<1>2. CASE i # Poller
  <2>1. /\ inbox'[Poller] = inbox[Poller] /\ job'[Poller] = job[Poller]
        /\ current'[Poller] = current[Poller] /\ behind'[Poller] = behind[Poller]
        /\ UNCHANGED <<pc, owed, first, view, absent, overtaken>> /\ closed \subseteq closed'
        /\ \A c \in At(Poller) : stage'[c] = stage[c]
    BY <1>2 DEF Restart, StopHub, At, RoomTypes, HubTypeOK
  <2>2. LastIsCurrent' /\ CastIsCurrent'
    BY <2>1 DEF ShownInv, LastIsCurrent, CastIsCurrent, Pending, Idle
  <2>3. ViewIsCurrent'
    BY <2>1 DEF ShownInv, ViewIsCurrent, Pending, Shown, ToldNext, At
  <2> QED
    BY <2>2, <2>3 DEF ShownInv
<1> QED
  BY <1>1, <1>2

\* A step of the handler of a connection keeps ShownInv.
LEMMA ClientShown ==
    ASSUME RoomTypes, HubTypeOK, ShownInv, NEW c \in Conns, UNCHANGED roomVars,
           \/ Connect(c) \/ Handle(c) \/ PeerGoes(c)
           \/ ReadFirst(c, current[InstanceOf[c]])
    PROVE  ShownInv'
<1>1. job' = job /\ UNCHANGED <<current, inbox, behind, pc, owed>>
  BY DEF Connect, Handle, PeerGoes, ReadFirst, WriteFirst, ReadEnds, HandlerLeaves, HandlerReturns, Close,
         roomVars, pollVars, historyVars
<1>2. LastIsCurrent' /\ CastIsCurrent'
  BY <1>1 DEF ShownInv, LastIsCurrent, CastIsCurrent, Pending, Idle
<1>3. ASSUME NEW d \in Conns \ {c}
      PROVE  Shown(d)' = Shown(d) /\ stage'[d] = stage[d]
  BY <1>3 DEF Shown, Connect, Handle, PeerGoes, ReadFirst, WriteFirst, WriteOK,
              WriteFails, ReadEnds, HandlerLeaves, HandlerReturns, Close, handlerVars, HubTypeOK
<1>4. overtaken' = overtaken /\ closed \subseteq closed' /\ absent \subseteq absent'
  BY DEF Connect, Handle, PeerGoes, ReadFirst, WriteFirst, ReadEnds, HandlerLeaves,
         HandlerReturns, Close, Forget
<1>5. \/ stage'[c] \notin {"loaded", "open"}
      \/ Shown(c)' = current[InstanceOf[c]]
      \/ Shown(c)' = Shown(c) /\ stage[c] \in {"loaded", "open"}
      \/ c \in absent'
  BY DEF Shown, Connect, Handle, PeerGoes, ReadFirst, WriteFirst, WriteOK,
         WriteFails, ReadEnds, HandlerLeaves, HandlerReturns, Close, handlerVars, HubTypeOK
<1>6. ViewIsCurrent'
  BY <1>1, <1>3, <1>4, <1>5 DEF ShownInv, ViewIsCurrent, ToldNext, Pending, At
<1> QED
  BY <1>2, <1>6 DEF ShownInv

\* A step of a broadcast keeps ShownInv: its list holds every client of the
\* instance that has read its first value.
LEMMA BroadcastShown ==
    ASSUME RoomTypes, HubInv, ShownInv, NEW i \in Instances, Broadcast(i)
    PROVE  ShownInv'
<1> USE DEF HubInv, HubTypeOK
<1>1. UNCHANGED <<current, inbox, behind, pc, owed>>
  BY DEF Broadcast, roomVars, pollVars, historyVars
<1>2. LastIsCurrent'
  BY <1>1 DEF ShownInv, LastIsCurrent
<1>3. CASE ListClients(i)
  <2>1. /\ job'[i].value = job[i].value /\ job'[i].left = members \intersect At(i)
        /\ \A j \in Instances \ {i} : job'[j] = job[j]
        /\ ~Idle(i) /\ ~job[i].listed
    BY <1>3 DEF ListClients, Idle, NoJob
  <2>2. CastIsCurrent'
    BY <1>1, <2>1 DEF ShownInv, CastIsCurrent, Pending, Idle
  <2>3. ViewIsCurrent'
    BY <1>1, <1>3, <2>1 DEF ShownInv, ViewIsCurrent, Pending, ToldNext, Shown, ListClients,
          handlerVars, MembersAreServed, DroppedAreLost, At
  <2> QED
    BY <1>2, <2>2, <2>3 DEF ShownInv
<1>4. CASE EndCast(i)
  <2>1. /\ Idle(i)' /\ job[i].listed /\ job[i].left = {}
        /\ \A j \in Instances \ {i} : job'[j] = job[j]
    BY <1>4 DEF EndCast, Idle
  <2>2. CastIsCurrent'
    BY <1>1, <2>1 DEF ShownInv, CastIsCurrent, Pending, Idle
  <2>3. ViewIsCurrent'
    BY <1>1, <1>4, <2>1 DEF ShownInv, ViewIsCurrent, Pending, ToldNext, Shown, EndCast,
          handlerVars, At
  <2> QED
    BY <1>2, <2>2, <2>3 DEF ShownInv
<1>5. ASSUME NEW c \in Conns, CastTo(i, c) PROVE ShownInv'
  <2>1. /\ job'[i].value = job[i].value /\ job'[i].left = job[i].left \ {c}
        /\ job'[i].listed = job[i].listed
        /\ \A j \in Instances \ {i} : job'[j] = job[j]
        /\ ~Idle(i) /\ InstanceOf[c] = i
    BY <1>5 DEF CastTo, Idle, NoJob, JobShape, At
  <2>2. CastIsCurrent'
    BY <1>1, <2>1 DEF ShownInv, CastIsCurrent, Pending, Idle
  <2>3. /\ \A d \in Conns \ {c} : Shown(d)' = Shown(d)
        /\ stage' = stage /\ overtaken \subseteq overtaken' /\ closed \subseteq closed'
        /\ absent' = absent
    BY <1>5 DEF CastTo, Shown, WriteOK, WriteFails, Drop, Forget, handlerVars
  <2>4. \/ c \in overtaken' \union closed' \union absent'
        \/ stage[c] # "loaded" /\ Shown(c)' = job[i].value
    BY <1>5 DEF CastTo, Shown, WriteOK, WriteFails, Drop, Forget, handlerVars
  <2>5. ViewIsCurrent'
    BY <1>1, <2>1, <2>3, <2>4 DEF ShownInv, ViewIsCurrent, ToldNext, CastIsCurrent, Pending, At
  <2> QED
    BY <1>2, <2>2, <2>5 DEF ShownInv
<1>6. ASSUME NEW c \in At(i), CloseDropped(c) PROVE ShownInv'
  <2>1. /\ UNCHANGED <<job, stage, first, view, overtaken, absent>> /\ closed \subseteq closed'
        /\ \A d \in Conns : Shown(d)' = Shown(d)
    BY <1>6 DEF CloseDropped, Close, Shown, handlerVars
  <2>2. CastIsCurrent'
    BY <1>1, <2>1 DEF ShownInv, CastIsCurrent, Pending, Idle
  <2>3. ViewIsCurrent'
    BY <1>1, <2>1 DEF ShownInv, ViewIsCurrent, Pending, ToldNext, At
  <2> QED
    BY <1>2, <2>2, <2>3 DEF ShownInv
<1> QED
  BY <1>3, <1>4, <1>5, <1>6 DEF Broadcast, Cast

-----------------------------------------------------------------------------
(***************************************************************************)
(* The theorems.                                                           *)
(***************************************************************************)

CurrentInv == RoomTypes /\ HubInv /\ SyncInv /\ CurrentRoomExists /\ ShownInv

\* The initial state satisfies the inductive invariant.
LEMMA InitCurrentInv == Init => CurrentInv
<1> SUFFICES ASSUME Init PROVE CurrentInv
  OBVIOUS
<1>1. HubInv
  BY HubInitInv DEF Init
<1>2. RoomTypes
  <2>1. <<>> \in Seq(Values) /\ None \in Values /\ 0 \in 0..MaxSelects /\ 0 \in Nat
    OBVIOUS
  <2> QED
    BY <2>1, NothingSeenType DEF Init, RoomTypes
<1>3. SyncInv
  BY DEF Init, SyncInv, Numbering, UnseenUnsaved, SavedIsCurrent, SyncedIsSaved, NothingSeen
<1>4. CurrentRoomExists
  BY DEF Init, CurrentRoomExists, Selects
<1>5. ShownInv
  BY DEF Init, HubInit, ShownInv, LastIsCurrent, CastIsCurrent, ViewIsCurrent, Idle, At
<1> QED
  BY <1>1, <1>2, <1>3, <1>4, <1>5 DEF CurrentInv

\* To the hub, every step is one of its own or none.
LEMMA HubStep == RoomTypes /\ Next => [HubNext]_hubVars
<1> SUFFICES ASSUME RoomTypes, Next PROVE [HubNext]_hubVars
  OBVIOUS
<1>1. CASE OpenSelect \/ Pick \/ CloseSelect \/ Toggle
  BY <1>1 DEF OpenSelect, Pick, CloseSelect, Toggle
<1>2. CASE Tick
  BY <1>2 DEF Tick, PollElsewhere, PollSelect, SyncUnchanged, SyncSaved, SyncError,
              SetCurrentRoomID, ClearCurrentRoomID, PublishCurrentRoomChanged
<1>3. ASSUME NEW i \in Instances, Consume(i) PROVE [HubNext]_hubVars
  <2>1. Head(inbox[i]) \in Values /\ BeginCast(i, Head(inbox[i]))
    BY <1>3 DEF Consume, RoomTypes
  <2> QED
    BY <2>1 DEF HubNext
<1>4. ASSUME NEW i \in Instances, Broadcast(i) \/ Restart(i) PROVE [HubNext]_hubVars
  BY <1>4 DEF Broadcast, Restart, HubNext
<1>5. ASSUME NEW i \in Instances, NEW k \in Selects, CleanupRoom(i, k)
      PROVE  [HubNext]_hubVars
  BY <1>5 DEF CleanupRoom
<1>6. ASSUME NEW c \in Conns, ConnectClient(c) \/ Serve(c) PROVE [HubNext]_hubVars
  BY <1>6 DEF ConnectClient, Serve, HubNext, RoomTypes
<1>7. ASSUME NEW c \in Conns, PeerGoes(c) PROVE [HubNext]_hubVars
  BY <1>7 DEF HubNext
<1> QED
  BY <1>1, <1>2, <1>3, <1>4, <1>5, <1>6, <1>7 DEF Next

\* A step that leaves all of this module's variables alone keeps its invariants.
LEMMA RoomsUnchanged ==
    ASSUME CurrentInv, UNCHANGED roomVars
    PROVE  RoomTypes' /\ SyncInv' /\ CurrentRoomExists'
<1> USE DEF CurrentInv, roomVars, clientVars, pollVars, historyVars
<1>1. RoomTypes'
  BY DEF RoomTypes
<1>2. SyncInv'
  BY DEF SyncInv, Numbering, UnseenUnsaved, SavedIsCurrent, SyncedIsSaved
<1>3. CurrentRoomExists'
  BY DEF CurrentRoomExists
<1> QED
  BY <1>1, <1>2, <1>3

\* Every step keeps the inductive invariant.
LEMMA NextCurrentInv == CurrentInv /\ [Next]_vars => CurrentInv'
<1> SUFFICES ASSUME CurrentInv, [Next]_vars PROVE CurrentInv'
  OBVIOUS
<1> USE DEF CurrentInv, HubInv
<1>1. CASE UNCHANGED vars
  <2>1. HubInv' /\ RoomTypes' /\ SyncInv' /\ CurrentRoomExists'
    BY <1>1, HubNextInv, RoomsUnchanged DEF vars
  <2>2. LastIsCurrent'
    BY <1>1 DEF vars, roomVars, pollVars, historyVars, ShownInv, LastIsCurrent
  <2>3. ShownInv'
    BY <1>1, <2>2, SilentShown DEF vars, roomVars, pollVars, historyVars, Pending
  <2> QED
    BY <2>1, <2>3
<1>2. CASE Next
  <2>1. HubInv'
    BY <1>2, HubStep, HubNextInv
  <2>2. CASE OpenSelect \/ Pick \/ CloseSelect \/ Toggle
    BY <2>1, <2>2, OtherTypes, ClientSync, ExistsStep, SilentStepsShown
  <2>3. CASE Tick
    BY <2>1, <2>3, TickTypes, TickSync, ExistsStep, TickShown DEF SyncInv
  <2>4. ASSUME NEW i \in Instances, Consume(i) PROVE CurrentInv'
    <3>1. SyncInv'
      BY <2>4 DEF Consume, clientVars, pollVars, historyVars, SyncInv, Numbering, UnseenUnsaved,
                  SavedIsCurrent, SyncedIsSaved
    <3> QED
      BY <2>1, <2>4, <3>1, OtherTypes, ExistsStep, ConsumeShown
  <2>5. ASSUME NEW i \in Instances, Broadcast(i) PROVE CurrentInv'
    BY <2>1, <2>5, RoomsUnchanged, BroadcastShown DEF Broadcast
  <2>6. ASSUME NEW i \in Instances, Restart(i) PROVE CurrentInv'
    BY <2>1, <2>6, OtherTypes, InstanceSync, ExistsStep, RestartShown
  <2>7. ASSUME NEW i \in Instances, NEW k \in Selects, CleanupRoom(i, k) PROVE CurrentInv'
    BY <2>1, <2>7, OtherTypes, InstanceSync, ExistsStep, SilentStepsShown
  <2>8. ASSUME NEW c \in Conns, ConnectClient(c) \/ Serve(c) PROVE CurrentInv'
    BY <2>1, <2>8, RoomsUnchanged, ClientShown DEF ConnectClient, Serve
  <2>9. ASSUME NEW c \in Conns, PeerGoes(c), UNCHANGED roomVars PROVE CurrentInv'
    BY <2>1, <2>9, RoomsUnchanged, ClientShown
  <2> QED
    <3> HIDE DEF CurrentInv
    <3>1. CASE \E i \in Instances : Consume(i) \/ Broadcast(i) \/ Restart(i)
      BY <2>4, <2>5, <2>6, <3>1
    <3>2. CASE \E i \in Instances, k \in Selects : CleanupRoom(i, k)
      BY <2>7, <3>2
    <3>3. CASE \E c \in Conns : ConnectClient(c) \/ Serve(c)
      BY <2>8, <3>3
    <3>4. CASE \E c \in Conns : PeerGoes(c) /\ UNCHANGED roomVars
      BY <2>9, <3>4
    <3> QED
      BY <1>2, <2>2, <2>3, <3>1, <3>2, <3>3, <3>4 DEF Next
<1> QED
  BY <1>1, <1>2

\* The inductive invariant holds in every state.
THEOREM CurrentInvariance == Spec => []CurrentInv
  BY InitCurrentInv, NextCurrentInv, PTL DEF Spec

(***************************************************************************)
(* The state of the current room and of its hub has its declared type.     *)
(***************************************************************************)
THEOREM CurrentTypes == Spec => []TypeOK
<1>1. CurrentInv => TypeOK
  BY DEF CurrentInv, RoomTypes, HubInv, TypeOK
<1> QED
  BY <1>1, CurrentInvariance, PTL

(***************************************************************************)
(* The clients of the polling instance see its current room once nothing   *)
(* is on its way to them and nothing was lost (SetCurrentRoomID,           *)
(* ClearCurrentRoomID, publishCurrentRoomChanged).                         *)
(***************************************************************************)
THEOREM QuietClientsSeeCurrent == Spec => []QuietMeansCurrent
<1>1. CurrentInv => QuietMeansCurrent
  <2> SUFFICES ASSUME CurrentInv, NEW c \in At(Poller) \ overtaken, Watching(c), Quiet(Poller)
               PROVE  view[c] = current[Poller]
    BY DEF QuietMeansCurrent
  <2>1. ~Pending
    BY DEF Quiet, Pending
  <2>2. ~ToldNext(c)
    <3>1. job[Poller].value = NoValue /\ current[Poller] \in Values
      BY DEF Quiet, Idle, NoJob, CurrentInv, RoomTypes
    <3> QED
      BY <3>1 DEF ToldNext
  <2> QED
    BY <2>1, <2>2 DEF Watching, CurrentInv, ShownInv, ViewIsCurrent, Shown
<1> QED
  BY <1>1, CurrentInvariance, PTL

(***************************************************************************)
(* A tick without an error makes the room of its champion select current,  *)
(* or finds it so, unless the current room had been forgotten              *)
(* (SyncFromChampSelect).                                                  *)
(***************************************************************************)
THEOREM SyncedUnlessForgotten == Spec => []SyncedIsCurrentUnlessForgotten
<1>1. CurrentInv => SyncedIsCurrentUnlessForgotten
  BY DEF CurrentInv, SyncInv, SavedIsCurrent, SyncedIsSaved, SyncedIsCurrentUnlessForgotten
<1> QED
  BY <1>1, CurrentInvariance, PTL

(***************************************************************************)
(* The current room is a stored room, unless its deletion was reported as  *)
(* an error or made by another instance (cleanupOldRooms,                  *)
(* clearCurrentRoomIDLocked).                                              *)
(***************************************************************************)
THEOREM CurrentRoomIsStored == Spec => []CurrentRoomExists
<1>1. CurrentInv => CurrentRoomExists
  BY DEF CurrentInv
<1> QED
  BY <1>1, CurrentInvariance, PTL

(***************************************************************************)
(* The connections of /ws/current-room are a hub: polling, the current     *)
(* room and restarts only decide which values are shown and when           *)
(* (HandleCurrentRoomWebSocket, BroadcastCurrentRoom).                     *)
(***************************************************************************)
THEOREM CurrentImplementsHub == Spec => HubSpec
<1>1. Init => HubInit
  BY DEF Init
<1>2. CurrentInv /\ [Next]_vars => [HubNext]_hubVars
  BY HubStep DEF CurrentInv, vars
<1> QED
  BY <1>1, <1>2, CurrentInvariance, PTL DEF Spec, HubSpec

(***************************************************************************)
(* So the map of connections is exact here too: however the two steps of a *)
(* removal by a handler and by a broadcast interleave, none is left in the *)
(* map unserved, or out of it and open (removeCurrentRoomClient).          *)
(***************************************************************************)
THEOREM CurrentMembership == Spec => []MembersAreServed
  BY CurrentImplementsHub, HubMembership, PTL
=============================================================================
