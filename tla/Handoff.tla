------------------------------ MODULE Handoff ------------------------------
(***************************************************************************)
(* What every leg of the game event pipeline promises, without saying how: *)
(* a holder that owes an item to a receiver gives the item up only after   *)
(* the receiver has it.  The item may be handed over any number of times;  *)
(* it is never in neither place.                                           *)
(*                                                                         *)
(* OutboxRelay implements it between the outbox table and the GAME_EVENTS  *)
(* stream, GameDelivery between the stream and the game sessions or the    *)
(* dead letters, and between the dead letters and the replayed stream.     *)
(***************************************************************************)
CONSTANT Items

VARIABLES
    owed,       \* items the holder still has to hand over
    taken       \* items the receiver has (or has had)

vars == <<owed, taken>>

TypeOK == owed \subseteq Items /\ taken \subseteq Items

Init == owed = {} /\ taken = {}

\* The holder accepts responsibility for an item.
Offer(i) ==
    /\ i \notin owed
    /\ owed' = owed \union {i}
    /\ UNCHANGED taken

\* The receiver gets an item the holder owes, and the holder may not know it.
Take(i) ==
    /\ i \in owed
    /\ taken' = taken \union {i}
    /\ UNCHANGED owed

\* The holder gives up an item the receiver has.
Release(i) ==
    /\ i \in owed \intersect taken
    /\ owed' = owed \ {i}
    /\ UNCHANGED taken

Next == \E i \in Items : Offer(i) \/ Take(i) \/ Release(i)

Spec == Init /\ [][Next]_vars
=============================================================================
