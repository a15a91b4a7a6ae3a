-------------------------- MODULE MCGamePipeline --------------------------
(***************************************************************************)
(* A small instance of GamePipeline: one game, whose end occurs after its  *)
(* start.                                                                  *)
(***************************************************************************)
EXTENDS GamePipeline

MCOccurredAt ==
    [e \in GameEvents |-> 2 * e.game + (IF e \in Started THEN 0 ELSE 1)]

\* Only starts may be replayed, or accepted twice.
StartTwice == [e \in GameEvents |-> IF e \in Started THEN 2 ELSE 1]
OneEach == [e \in GameEvents |-> 1]
=============================================================================
