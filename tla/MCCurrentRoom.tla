--------------------------- MODULE MCCurrentRoom ---------------------------
(***************************************************************************)
(* Small instances of CurrentRoom.                                         *)
(***************************************************************************)
EXTENDS CurrentRoom, TLC

CONSTANTS i1, i2, c2

\* c2 is served by the instance that does not poll.
Placement == [c \in Conns |-> IF c = c2 THEN i2 ELSE i1]

\* The players of the first select change once; nobody changes.
FirstChanges == [k \in Selects |-> IF k = 1 THEN 2 ELSE 1]
NoneChanges == [k \in Selects |-> 1]

RoomIds == Selects \union {None}
=============================================================================
