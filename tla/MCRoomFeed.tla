----------------------------- MODULE MCRoomFeed -----------------------------
(***************************************************************************)
(* Small instances of RoomFeed.                                            *)
(***************************************************************************)
EXTENDS RoomFeed

CONSTANT i1

OneInstance == [c \in Conns |-> i1]

Versions == 1..MaxChanges
=============================================================================
