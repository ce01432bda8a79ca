------------------------------- MODULE HandOff -------------------------------
(***************************************************************************)
(* What semaphore.c promises: Turns numbers go from one thread to the     *)
(* other through a place for one number, each is added exactly once, and   *)
(* no number is overwritten before it was added.                           *)
(***************************************************************************)
EXTENDS Integers

CONSTANTS
    Numbers,     \* the numbers that can be handed over
    NoNumber,    \* the place is empty
    Turns,       \* how many are handed over
    Plus(_, _)   \* the addition

VARIABLES place, given, sum

Init == place = NoNumber /\ given = 0 /\ sum = 0

Give == /\ place = NoNumber /\ given < Turns
        /\ place' \in Numbers
        /\ given' = given + 1
        /\ sum' = sum

Take == /\ place # NoNumber
        /\ sum' = Plus(sum, place)
        /\ place' = NoNumber
        /\ given' = given

Next == Give \/ Take

Spec == Init /\ [][Next]_<<place, given, sum>>
=============================================================================
