----------------------------- MODULE MCPrograms -----------------------------
(* An instance of Programs and of SemaHandOff for TLC, where one of the     *)
(* machines has a program to run: four-value ints in the latter, so that    *)
(* its sum wraps, and the source's five rounds.                             *)
EXTENDS Programs, SemaHandOff, MCExchanges

MCNumbers == {-1, 0, 1}

\* Two threads that have taken their turns, and a main that has returned.
Over == /\ early = FALSE /\ semOne = 0 /\ semTwo = 1 /\ num = 0 /\ readData = 0
        /\ rpc = "done" /\ i = 0 /\ apc = "done" /\ j = 0 /\ sum = 0 /\ main = "end"

all == <<streams, tasks, datagrams, vars>>
TakingTurns(step) == /\ {ex, prog, talk} = {"none"}
                     /\ step /\ UNCHANGED <<streams, tasks, datagrams>>
AnyInit == \/ OneInit /\ Over
           \/ S!Init /\ T!Init /\ D!Init /\ {ex, prog, talk} = {"none"} /\ Init
AnyNext     == (OneNext /\ UNCHANGED vars) \/ TakingTurns(Next)
AnyProgress == (OneProgress /\ UNCHANGED vars) \/ TakingTurns(Next)
AnySpec == AnyInit /\ [][AnyNext]_all /\ WF_all(AnyProgress)
=============================================================================
