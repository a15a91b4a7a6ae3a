---------------------------- MODULE MCCooldowns ----------------------------
(***************************************************************************)
(* Small instances of Cooldowns: cooldowns of four and three seconds.      *)
(***************************************************************************)
EXTENDS Cooldowns, TLC

CONSTANTS me, anon, flash, smite

Bases == [n \in SpellNames |-> IF n = flash THEN 4 ELSE 3]

FlashFirst == <<flash, smite>>
SmiteFirst == <<smite, flash>>

Member(id, loadout) == [id |-> id, loadout |-> loadout]

\* The local player and a teammate, joining, leaving and swapping spells.
Teams ==
    { <<Member(me, FlashFirst)>>,
      <<Member(me, FlashFirst), Member(anon, FlashFirst)>>,
      <<Member(me, SmiteFirst), Member(anon, FlashFirst)>>,
      <<Member(anon, FlashFirst), Member(me, FlashFirst)>> }

\* Two teammates whose names the League client hides.
HiddenNames == { <<Member(anon, FlashFirst), Member(anon, FlashFirst)>> }

West == -(Expiration + 1)
=============================================================================
