-------------------------------- MODULE Turns --------------------------------
(***************************************************************************)
(* The counted loops of the programs that are written as scripts.          *)
(***************************************************************************)
EXTENDS Integers, Sequences

\* The calls of a loop that runs n times.
Repeat(n, body) ==
    LET turns[k \in 0..n] == IF k = 0 THEN <<>> ELSE body \o turns[k - 1]
    IN  turns[n]
=============================================================================
