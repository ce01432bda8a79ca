------------------------------ MODULE Programs ------------------------------
(***************************************************************************)
(* One of the programs without an event loop, whichever its machine: the   *)
(* exchanges over TCP (Streams), the processes and threads (Tasks), or     *)
(* the exchanges over UDP (Datagrams).  The machines share nothing; in a   *)
(* behaviour two of them have nothing to run.                              *)
(***************************************************************************)
EXTENDS Calls, FiniteSets

CONSTANTS Main, Exchanges, Impatient, Fds,   \* as in Streams
          NUM_THREAD, Loops,    \* as in Tasks
          Messages, Pieces, MaxFaults   \* as in Datagrams

ASSUME ProgramConstants == /\ Fds \in SUBSET (Nat \ {0}) /\ Impatient \subseteq Clients
                           /\ NUM_THREAD \in Nat \ {0} /\ NUM_THREAD % 2 = 0 /\ Loops \in Nat
                           /\ Messages \in Nat /\ Pieces \in Nat /\ MaxFaults \in Nat

VARIABLES ex, todo, sock, out, fdt, net, backlog, listening, mutex, guest, killed, rcvd, wrote,
          short, hurt, strayed, loose, shown
streams == <<ex, todo, sock, out, fdt, net, backlog, listening, mutex, guest, killed, rcvd, wrote,
             short, hurt, strayed, loose, shown>>
VARIABLES prog, ops, mem, str, reg, lock, sem, event, gone, pipe, ended, signals, armed, output
tasks == <<prog, ops, mem, str, reg, lock, sem, event, gone, pipe, ended, signals, armed, output>>
VARIABLES talk, calls, inbox, open, peer, said, got, refused, faults, left
datagrams == <<talk, calls, inbox, open, peer, said, got, refused, faults, left>>

S == INSTANCE Streams
T == INSTANCE Tasks
D == INSTANCE Datagrams

OneInit == /\ S!Init /\ T!Init /\ D!Init
           /\ Cardinality({ex, prog, talk} \ {"none"}) = 1
\* The machine that has something to run takes the steps.
Streaming(step)  == ex # "none"   /\ step /\ UNCHANGED <<tasks, datagrams>>
Tasking(step)    == prog # "none" /\ step /\ UNCHANGED <<streams, datagrams>>
Messaging(step)  == talk # "none" /\ step /\ UNCHANGED <<streams, tasks>>
OneNext     == Streaming(S!Next) \/ Tasking(T!Next) \/ Messaging(D!Next)
OneProgress == Streaming(S!Progress) \/ Tasking(T!Progress) \/ Messaging(D!Progress)
OneSpec == OneInit /\ [][OneNext]_<<streams, tasks, datagrams>> /\ WF_<<streams, tasks, datagrams>>(OneProgress)

\* Of the three, where they are explained.
ReplyRight    == S!ReplyRight
PrintsEnd     == S!PrintsEnd
OwnConnection == S!OwnConnection
Served        == S!Served
Outcome == T!Outcome
AllEnd  == T!AllEnd
InStep  == D!InStep
AllHear == D!AllHear
=============================================================================
