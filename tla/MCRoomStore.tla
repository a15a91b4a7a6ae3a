---------------------------- MODULE MCRoomStore ----------------------------
(***************************************************************************)
(* Small instances of RoomStore.                                           *)
(***************************************************************************)
EXTENDS RoomStore, TLC

CONSTANTS s1, s2, w1, w2

OneService == [t \in Threads |-> s1]

\* w2 runs in the other instance.
TwoServices == [t \in Threads |-> IF t = w2 THEN s2 ELSE s1]

Symmetry ==
    Permutations(Updates) \union Permutations(Writers) \union Permutations(Readers)
=============================================================================
