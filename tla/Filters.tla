------------------------------- MODULE Filters -------------------------------
(***************************************************************************)
(* The part of a sequence whose entries are in a set, in their order.  It  *)
(* is SelectSeq, as a recursive function about which ListProofs proves.    *)
(***************************************************************************)
EXTENDS Integers, Sequences, FiniteSets

Filter(s, S) ==
    LET kept[n \in 0..Len(s)] ==
            IF n = 0 THEN <<>>
            ELSE IF s[n] \in S THEN Append(kept[n - 1], s[n]) ELSE kept[n - 1]
    IN  kept[Len(s)]
=============================================================================
