------------------------------- MODULE PortEcho -------------------------------
(***************************************************************************)
(* The completion-port echo server IOCPEchoServ_win.c of Chapter 23 and    *)
(* its client StableEchoClnt_win.c, which waits for its whole line.        *)
(*                                                                         *)
(* main accepts and posts the first receive; any of the worker threads     *)
(* takes the next completion from the port.  A completed receive is turned *)
(* into a send of the same buffer, and a new receive is posted, so several *)
(* threads may work for one client.  The end of a connection frees         *)
(* handleInfo, which completions of earlier sends still refer to.          *)
(***************************************************************************)
EXTENDS Integers, Sequences, FiniteSets, SequencesExt

CONSTANTS
    Clients, Workers,
    NoOne,        \* no client
    BUF_SIZE,     \* most units one receive takes
    SockBuf,      \* units a client's connection holds unread
    Writers,      \* bound: the clients that write; all can connect and leave
    MaxLine,      \* bound: units in a line
    MaxLines      \* bound: lines a client writes

ASSUME NoOneAssumption == NoOne \notin Clients /\ Writers \subseteq Clients
ASSUME SizesAssumption == /\ BUF_SIZE \in Nat \ {0} /\ BUF_SIZE <= SockBuf
                          /\ {SockBuf, MaxLine, MaxLines} \subseteq Nat

VARIABLES
    up,           \* the server process is running
    accepted,     \* the connection main has accepted and not armed, or NoOne
    handleInfo,   \* per connection: none, live or freed
    sock,         \* per connection: none, open or closed
    recv,         \* the connections with a receive posted
    sends,        \* per connection: the texts of its posted sends
    port,         \* the queue of completions
    wpc, task,    \* where a worker is, and the completion it handles
    backlog,      \* the listen queue
    conn,         \* the connection at the server's end: idle, open, fin, rst
    inq, outq,    \* units arrived and unread; on their way back
    str_len, message, lines     \* the client's locals; lines written so far

main    == <<up, accepted>>
objects == <<handleInfo, sock>>
posted  == <<recv, sends, port>>
workers == <<wpc, task>>
net     == <<backlog, conn, inq, outq>>
clients == <<str_len, message, lines>>
vars == <<main, objects, posted, workers, net, clients>>

Completion(c, mode, data) == [of |-> c, rwMode |-> mode, data |-> data]
NoTask == Completion(NoOne, "WRITE", <<>>)

Init ==
    /\ up = TRUE /\ accepted = NoOne
    /\ handleInfo = [c \in Clients |-> "none"] /\ sock = [c \in Clients |-> "none"]
    /\ recv = {} /\ sends = [c \in Clients |-> <<>>] /\ port = <<>>
    /\ wpc = [w \in Workers |-> "wait"] /\ task = [w \in Workers |-> NoTask]
    /\ backlog = <<>> /\ conn = [c \in Clients |-> "idle"]
    /\ inq = [c \in Clients |-> <<>>] /\ outq = [c \in Clients |-> <<>>]
    /\ str_len = [c \in Clients |-> 0] /\ message = [c \in Clients |-> <<>>]
    /\ lines = [c \in Clients |-> 0]

-----------------------------------------------------------------------------
(* The client: StableEchoClnt_win.c.                                       *)

\* The client is in the loop that receives until str_len units are back.
Waiting(c) == conn[c] = "open" /\ Len(message[c]) < str_len[c]

Connect(c) ==
    /\ conn[c] = "idle"
    /\ conn' = [conn EXCEPT ![c] = "open"]
    /\ backlog' = Append(backlog, c)
    /\ UNCHANGED <<main, objects, posted, workers, inq, outq, clients>>

SendLine(c) ==
    /\ c \in Writers /\ conn[c] = "open" /\ ~Waiting(c) /\ lines[c] < MaxLines
    /\ \E n \in 1..MaxLine :
         /\ str_len' = [str_len EXCEPT ![c] = n]
         /\ inq' = [inq EXCEPT ![c] = [k \in 1..n |-> k]]
    /\ message' = [message EXCEPT ![c] = <<>>]
    /\ lines' = [lines EXCEPT ![c] = @ + 1]
    /\ UNCHANGED <<main, objects, posted, workers, backlog, conn, outq>>

ReadReply(c) ==
    /\ Waiting(c) /\ outq[c] # <<>>
    /\ message' = [message EXCEPT ![c] = @ \o outq[c]]
    /\ outq' = [outq EXCEPT ![c] = <<>>]
    /\ UNCHANGED <<main, objects, posted, workers, backlog, conn, inq, str_len, lines>>

\* "q" at the prompt, or the user interrupts: a reset if echo was not read.
Leave(c) ==
    /\ conn[c] = "open"
    /\ conn' = [conn EXCEPT ![c] = IF outq[c] = <<>> THEN "fin" ELSE "rst"]
    /\ outq' = [outq EXCEPT ![c] = <<>>]
    /\ UNCHANGED <<main, objects, posted, workers, backlog, inq, clients>>

-----------------------------------------------------------------------------
(* Overlapped calls.  A call on a connection known to be reset fails at    *)
(* once and nothing is queued for it; otherwise its end is queued.         *)

Fails(c) == conn[c] = "rst" /\ inq[c] = <<>>

PostRecv(c) == recv' = IF Fails(c) THEN recv ELSE recv \cup {c}

\* What a receive takes, nothing at the end of the connection or for a reset.
RecvText(c) == SubSeq(inq[c], 1, Min({BUF_SIZE, Len(inq[c])}))

RecvDone(c) ==
    /\ c \in recv
    /\ inq[c] # <<>> \/ conn[c] \in {"fin", "rst"}
    /\ recv' = recv \ {c}
    /\ port' = Append(port, Completion(c, "READ", RecvText(c)))
    /\ inq' = [inq EXCEPT ![c] = SubSeq(@, Len(RecvText(c)) + 1, Len(@))]
    /\ UNCHANGED <<main, objects, sends, workers, backlog, conn, outq, clients>>

SendDone(c) ==
    /\ sends[c] # <<>>
    /\ \/ /\ conn[c] = "open" /\ Len(outq[c]) + Len(Head(sends[c])) <= SockBuf
          /\ outq' = [outq EXCEPT ![c] = @ \o Head(sends[c])]
          /\ UNCHANGED conn
       \/ /\ conn[c] = "fin"                       \* a reset may come back
          /\ \E s \in {"fin", "rst"} : conn' = [conn EXCEPT ![c] = s]
          /\ UNCHANGED outq
       \/ conn[c] = "rst" /\ UNCHANGED <<conn, outq>>
    /\ sends' = [sends EXCEPT ![c] = Tail(@)]
    /\ port' = Append(port, Completion(c, "WRITE", <<>>))
    /\ UNCHANGED <<main, objects, recv, workers, backlog, inq, clients>>

-----------------------------------------------------------------------------
(* The server: main.                                                       *)

\* accept, a new handleInfo, and the socket is tied to the port.
Accept ==
    /\ accepted = NoOne /\ backlog # <<>>
    /\ accepted' = Head(backlog) /\ backlog' = Tail(backlog)
    /\ handleInfo' = [handleInfo EXCEPT ![Head(backlog)] = "live"]
    /\ sock' = [sock EXCEPT ![Head(backlog)] = "open"]
    /\ UNCHANGED <<up, posted, workers, conn, inq, outq, clients>>

\* accept fails: ErrorHandling ends the process.
AcceptError ==
    /\ accepted = NoOne /\ backlog # <<>>
    /\ up' = FALSE
    /\ UNCHANGED <<accepted, objects, posted, workers, net, clients>>

\* The first WSARecv of a connection.
FirstRecv ==
    /\ accepted # NoOne
    /\ PostRecv(accepted)
    /\ accepted' = NoOne
    /\ UNCHANGED <<up, objects, sends, port, workers, net, clients>>

-----------------------------------------------------------------------------
(* The server: a worker in EchoThreadMain.                                 *)

GetStatus(w) ==
    /\ wpc[w] = "wait" /\ port # <<>>
    /\ task' = [task EXCEPT ![w] = Head(port)] /\ port' = Tail(port)
    /\ wpc' = [wpc EXCEPT ![w] = "load"]
    /\ UNCHANGED <<main, objects, recv, sends, net, clients>>

\* Where a worker goes with a completion: one of a send is freed, an empty
\* receive ends the connection, another is echoed.
NoModeTest(t) == IF t.data = <<>> THEN "close" ELSE "send"
Branch(t) == IF t.rwMode = "WRITE" THEN "wait" ELSE IF t.data = <<>> THEN "close" ELSE "send"

\* sock = handleInfo->hClntSock, freed or not, and the test of rwMode.
Load(w) ==
    /\ wpc[w] = "load"
    /\ wpc' = [wpc EXCEPT ![w] = Branch(task[w])]
    /\ task' = [task EXCEPT ![w] = IF Branch(@) = "wait" THEN NoTask ELSE @]
    /\ UNCHANGED <<main, objects, posted, net, clients>>

CloseSocket(w) ==
    /\ wpc[w] = "close"
    /\ sock' = [sock EXCEPT ![task[w].of] = "closed"]
    /\ wpc' = [wpc EXCEPT ![w] = "free"]
    /\ UNCHANGED <<main, handleInfo, posted, task, net, clients>>

FreeHandle(w) ==
    /\ wpc[w] = "free"
    /\ handleInfo' = [handleInfo EXCEPT ![task[w].of] = "freed"]
    /\ wpc' = [wpc EXCEPT ![w] = "wait"] /\ task' = [task EXCEPT ![w] = NoTask]
    /\ UNCHANGED <<main, sock, posted, net, clients>>

\* A worker that posts the next receive before it sends.
SendAfterRecv(w) ==
    \/ /\ wpc[w] = "send" /\ PostRecv(task[w].of)
       /\ wpc' = [wpc EXCEPT ![w] = "late"]
       /\ UNCHANGED <<main, objects, sends, port, task, net, clients>>
    \/ /\ wpc[w] = "late"
       /\ sends' = [sends EXCEPT ![task[w].of] = Append(@, task[w].data)]
       /\ wpc' = [wpc EXCEPT ![w] = "wait"] /\ task' = [task EXCEPT ![w] = NoTask]
       /\ UNCHANGED <<main, objects, recv, port, net, clients>>

\* WSASend of what was received.
Send(w) ==
    /\ wpc[w] = "send"
    /\ LET c == task[w].of
       IN  sends' = IF conn[c] = "rst" THEN sends
                    ELSE [sends EXCEPT ![c] = Append(@, task[w].data)]
    /\ wpc' = [wpc EXCEPT ![w] = "recv"]
    /\ task' = [task EXCEPT ![w] = Completion(task[w].of, "READ", <<>>)]
    /\ UNCHANGED <<main, objects, recv, port, net, clients>>

\* A worker that posts no further receive.
RecvForgotten(w) ==
    /\ wpc[w] = "recv"
    /\ wpc' = [wpc EXCEPT ![w] = "wait"] /\ task' = [task EXCEPT ![w] = NoTask]
    /\ UNCHANGED <<main, objects, posted, net, clients>>

\* WSARecv into a new ioInfo.
Recv(w) ==
    /\ wpc[w] = "recv"
    /\ PostRecv(task[w].of)
    /\ wpc' = [wpc EXCEPT ![w] = "wait"] /\ task' = [task EXCEPT ![w] = NoTask]
    /\ UNCHANGED <<main, objects, sends, port, net, clients>>

-----------------------------------------------------------------------------
Main == up /\ (Accept \/ AcceptError \/ FirstRecv)

Worker(w) == /\ up
             /\ \/ GetStatus(w) \/ Load(w) \/ CloseSocket(w) \/ FreeHandle(w)
                \/ Send(w) \/ Recv(w)

System(c) == up /\ (RecvDone(c) \/ SendDone(c))

Client(c) == up /\ (Connect(c) \/ SendLine(c) \/ ReadReply(c) \/ Leave(c))

Next == \/ Main \/ \E w \in Workers : Worker(w)
        \/ \E c \in Clients : System(c) \/ Client(c)

Spec == Init /\ [][Next]_vars

\* Every thread is scheduled, posted operations end, a waiting client reads.
Progress == \/ Main \/ \E w \in Workers : Worker(w)
            \/ \E c \in Clients : System(c) \/ (up /\ ReadReply(c))
FairSpec == Spec /\ WF_vars(Progress)

-----------------------------------------------------------------------------
Lines == Seq(1..MaxLine)
Completions == [of : Clients \cup {NoOne}, rwMode : {"READ", "WRITE"}, data : Lines]

\* Type invariant of all the variables.
TypeOK ==
    /\ up \in BOOLEAN /\ accepted \in Clients \cup {NoOne}
    /\ handleInfo \in [Clients -> {"none", "live", "freed"}]
    /\ sock \in [Clients -> {"none", "open", "closed"}]
    /\ recv \subseteq Clients /\ sends \in [Clients -> Seq(Lines)]
    /\ port \in Seq(Completions)
    /\ wpc \in [Workers -> {"wait", "load", "close", "free", "send", "recv"}]
    /\ task \in [Workers -> Completions]
    /\ \A w \in Workers : Len(task[w].data) <= BUF_SIZE
    /\ backlog \in Seq(Clients)
    /\ conn \in [Clients -> {"idle", "open", "fin", "rst"}]
    /\ \A q \in {inq, outq, message} : q \in [Clients -> Lines]
    /\ str_len \in [Clients -> 0..MaxLine] /\ lines \in [Clients -> 0..MaxLines]

IsRead(t, c) == t.of = c /\ t.rwMode = "READ"

\* The receives of c that are posted, completed, or with a worker.
QueuedReads(c)  == {k \in DOMAIN port : IsRead(port[k], c)}
HandledReads(c) == {w \in Workers : wpc[w] # "wait" /\ IsRead(task[w], c)}
Receives(c) == Cardinality(recv \cap {c}) + Cardinality(QueuedReads(c))
                   + Cardinality(HandledReads(c))

\* A connection has one receive, posted, completed or being handled, from
\* main's first to the last: two would let two workers echo out of order or
\* free handleInfo twice, none would leave the client unheard, which happens
\* only when a receive is refused after a reset.
OneReceive ==
    \A c \in Clients :
        /\ Receives(c) <= 1
        /\ sock[c] = "open" /\ accepted # c => Receives(c) = 1 \/ conn[c] = "rst"

\* A freed handleInfo is reached only through completions of sends, for which
\* the socket loaded from it is not used: a receive always finds its
\* connection open and its handleInfo live, until its own worker frees it.
FreedNotUsed ==
    \A c \in Clients : Receives(c) > 0 =>
        /\ handleInfo[c] = "live"
        /\ sock[c] = "closed" => \E w \in HandledReads(c) : wpc[w] = "free"

\* What the workers and the port hold of c's line, in the order received.
Held(c) ==
    FlattenSeq(sends[c])
      \o (IF HandledReads(c) = {} THEN <<>> ELSE task[CHOOSE w \in HandledReads(c) : TRUE].data)
      \o (IF QueuedReads(c) = {} THEN <<>> ELSE port[CHOOSE k \in QueuedReads(c) : TRUE].data)

\* A line comes back whole and in order, whichever workers handle its pieces.
EchoIntact ==
    \A c \in Clients : conn[c] = "open" =>
        message[c] \o outq[c] \o Held(c) \o inq[c] = [k \in 1..str_len[c] |-> k]

\* A client gets its line back, unless it leaves or the server ends.
EchoReturns == \A c \in Writers : Waiting(c) ~> ~Waiting(c) \/ ~up

\* The socket of a client that left is closed and its handleInfo freed,
\* unless a receive was refused after a reset.
DepartureNoticed ==
    \A c \in Clients :
        conn[c] = "fin" ~> handleInfo[c] = "freed" \/ conn[c] = "rst" \/ ~up
=============================================================================
