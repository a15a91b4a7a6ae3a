-------------------------- MODULE MCGameLifecycle --------------------------
(***************************************************************************)
(* Small instances of GameLifecycle.                                       *)
(***************************************************************************)
EXTENDS GameLifecycle
=============================================================================
