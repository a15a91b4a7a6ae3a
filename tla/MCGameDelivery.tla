-------------------------- MODULE MCGameDelivery --------------------------
(***************************************************************************)
(* Small instances of GameDelivery: one game with two game.started events  *)
(* (again occurred before start, in another room) and two game.ended       *)
(* events (stop after both starts, early before start).  bad never passes  *)
(* validation.                                                             *)
(***************************************************************************)
EXTENDS GameDelivery

CONSTANTS start, again, stop, early, bad, g1, room1, room2

MCGameOf == [e \in Events |-> g1]
MCRoomOf == [e \in Events |-> IF e = again THEN room2 ELSE room1]
MCAt == [e \in Events |->
           CASE e = start -> 2
             [] e = stop -> 3
             [] OTHER -> 1]

\* Only copies of start exist more than once: a replayed one, or one that the
\* relay published again.
OneCopy == [e \in Events |-> 1]
StartTwice == [e \in Events |-> IF e = start THEN 2 ELSE 1]

\* With BadTwice only bad is ever buried, also again outside the duplicate
\* window; the others stay pending until they can be applied.
OneRecord == [e \in Events |-> 1]
TwoRecords == [e \in Events |-> 2]
BadTwice == [e \in Events |-> IF e = bad THEN 2 ELSE 0]
=============================================================================
