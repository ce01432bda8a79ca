------------------------------ MODULE SelectEcho ------------------------------
(***************************************************************************)
(* The select echo servers of Chapter 12, for Linux and for Windows, and   *)
(* their client, which writes a line and reads once, so that a part of an  *)
(* echo may stay unread until the next line.                               *)
(*                                                                         *)
(* One loop asks select which sockets of reads have news, in the copy      *)
(* cpy_reads, and goes through them.  On Linux a set is a bitmap and the   *)
(* loop counts descriptors; on Windows it is an array that FD_CLR compacts *)
(* and the loop counts its entries, while reads changes under it.          *)
(***************************************************************************)
EXTENDS Filters, SequencesExt

CONSTANTS
    Clients, FDs, ServFd, NoFd,
    SetSizes,     \* values of FD_SETSIZE, which a Windows build can set
    BUF_SIZE,     \* most units one read returns
    SockBuf,      \* units a client's connection holds unread
    Writers,      \* bound: the clients that write; all can connect and leave
    MaxLine,      \* bound: units in a line
    MaxLines      \* bound: lines a client writes

ASSUME FDsAssumption   == /\ FDs \cup {ServFd} \subseteq Nat \ {0}
                          /\ {ServFd, NoFd} \cap FDs = {} /\ ServFd # NoFd
ASSUME LowestAssumption == \A fd \in FDs : ServFd < fd
ASSUME SizesAssumption == /\ SetSizes \subseteq Nat \ {0} /\ BUF_SIZE \in Nat \ {0}
                          /\ SockBuf \in Nat /\ BUF_SIZE <= SockBuf
                          /\ MaxLine \in Nat /\ MaxLines \in Nat
ASSUME WritersAssumption == Writers \subseteq Clients

VARIABLES
    win,          \* the Windows program runs; never changes
    FD_SETSIZE,   \* entries of its sets; never changes
    up,           \* the server process is running
    reads,        \* the set, in the order of registration
    cpy_reads,    \* what select made of its copy, stale entries included
    fd_num,       \* how many sockets select reported
    fd_max,       \* Linux: the largest descriptor there has been
    i,            \* the loop's counter, from 1; 0 at select
    buf,          \* read and not written yet
    fdOf,         \* the server's socket for a connection, or NoFd
    backlog,      \* the listen queue
    conn,         \* idle, open, fin, rst, dead, or closed by the server
    inq, outq,    \* units arrived and unread; on their way back
    asked,        \* the client waits in its one read
    sent, got,    \* units the client has written; what it has displayed
    lines,        \* lines written
    refused,      \* ghost: accepted while the Windows set was full
    misclosed     \* ghost: a socket other than the one that ended was closed

scan    == <<cpy_reads, fd_num, i>>
sets    == <<reads, fd_max, refused>>
clients == <<asked, sent, got, lines>>
net     == <<fdOf, backlog, conn, inq, outq>>
program == <<win, FD_SETSIZE>>
vars == <<program, up, scan, sets, buf, net, clients, misclosed>>

Init ==
    /\ win \in BOOLEAN /\ up = TRUE
    /\ FD_SETSIZE \in IF win THEN SetSizes ELSE {0}
    /\ reads = <<ServFd>> /\ cpy_reads = <<>> /\ fd_num = 0
    /\ fd_max = ServFd /\ i = 0 /\ buf = <<>>
    /\ fdOf = [c \in Clients |-> NoFd] /\ backlog = <<>>
    /\ conn = [c \in Clients |-> "idle"]
    /\ inq = [c \in Clients |-> <<>>] /\ outq = [c \in Clients |-> <<>>]
    /\ asked = [c \in Clients |-> FALSE]
    /\ sent = [c \in Clients |-> 0] /\ got = [c \in Clients |-> <<>>]
    /\ lines = [c \in Clients |-> 0]
    /\ refused = {} /\ misclosed = FALSE

Open(fd) == fd = ServFd \/ \E c \in Clients : fdOf[c] = fd

Readable(fd) ==
    \/ fd = ServFd /\ backlog # <<>>
    \/ \E c \in Clients : /\ fdOf[c] = fd
                          /\ inq[c] # <<>> \/ conn[c] \in {"fin", "rst", "dead"}

-----------------------------------------------------------------------------
(* The client: echo_client.c, echo_client_win.c.  What clients do after    *)
(* the server has ended is left out.                                       *)

Waiting(c) == asked[c] /\ conn[c] = "open"

Connect(c) ==
    /\ up /\ conn[c] = "idle"
    /\ conn' = [conn EXCEPT ![c] = "open"]
    /\ backlog' = Append(backlog, c)
    /\ UNCHANGED <<program, up, scan, sets, buf, fdOf, inq, outq, clients, misclosed>>

WriteLine(c) ==
    /\ c \in Writers /\ up /\ conn[c] = "open" /\ ~asked[c] /\ lines[c] < MaxLines
    /\ \E n \in 1..MaxLine :
         /\ inq' = [inq EXCEPT ![c] = @ \o [k \in 1..n |-> sent[c] + k]]
         /\ sent' = [sent EXCEPT ![c] = @ + n]
    /\ asked' = [asked EXCEPT ![c] = TRUE]
    /\ lines' = [lines EXCEPT ![c] = @ + 1]
    /\ UNCHANGED <<program, up, scan, sets, buf, fdOf, backlog, conn, outq, got, misclosed>>

\* The one read returns what is there.
ReadReply(c) ==
    /\ up /\ asked[c] /\ outq[c] # <<>> /\ conn[c] \in {"open", "closed"}
    /\ got' = [got EXCEPT ![c] = @ \o outq[c]]
    /\ outq' = [outq EXCEPT ![c] = <<>>]
    /\ asked' = [asked EXCEPT ![c] = FALSE]
    /\ UNCHANGED <<program, up, scan, sets, buf, fdOf, backlog, conn, inq, sent, lines, misclosed>>

\* "q" at the prompt, or the user interrupts: the end of the process, of which
\* nothing is left, closes the connection, by a reset if a part of an echo was
\* not read.
Leave(c) ==
    /\ up /\ conn[c] = "open"
    /\ conn' = [conn EXCEPT ![c] = IF outq[c] = <<>> THEN "fin" ELSE "rst"]
    /\ outq' = [outq EXCEPT ![c] = <<>>]
    /\ asked' = [asked EXCEPT ![c] = FALSE] /\ sent' = [sent EXCEPT ![c] = 0]
    /\ got' = [got EXCEPT ![c] = <<>>] /\ lines' = [lines EXCEPT ![c] = 0]
    /\ UNCHANGED <<program, up, scan, sets, buf, fdOf, backlog, inq, misclosed>>

-----------------------------------------------------------------------------
(* The server: main.                                                       *)

\* Which sockets select looks at, and what it leaves in the copy: those with
\* news first and, in the array of Windows, the old entries after them.
Examined(fd) == win \/ fd <= fd_max
ReadyFds     == {fd \in ToSet(reads) : Examined(fd) /\ Readable(fd)}

Select ==
    /\ up /\ i = 0 /\ \A k \in DOMAIN reads : Open(reads[k])
    /\ \E ready \in {Filter(reads, ReadyFds)} :
         /\ ready # <<>>
         /\ fd_num' = Len(ready)
         /\ cpy_reads' = ready \o SubSeq(reads, Len(ready) + 1, Len(reads))
    /\ i' = 1
    /\ UNCHANGED <<program, up, sets, buf, net, clients, misclosed>>

\* A socket of the set is not one any more: select fails, the loop ends and
\* the end of the process closes every connection.
SelectError ==
    /\ up /\ i = 0 /\ \E k \in DOMAIN reads : ~Open(reads[k])
    /\ up' = FALSE
    /\ UNCHANGED <<program, scan, sets, buf, net, clients, misclosed>>

FdIsIn(fd)  == fd \in ToSet(reads)
FdIsSet(fd) == fd \in ToSet(SubSeq(cpy_reads, 1, fd_num))

\* The loop: how far it counts, and the socket it looks at.
LimitShort == IF win THEN Len(reads) ELSE fd_max - 1
Limit == IF win THEN Len(reads) ELSE fd_max
Slot(k) == IF win THEN reads[k] ELSE k

Scanning    == up /\ i \in 1..Limit /\ buf = <<>>
Serving(fd) == Scanning /\ Slot(i) = fd /\ FdIsSet(fd)

\* The turns of the loop for sockets that are not set only count.
Skip ==
    /\ Scanning /\ ~FdIsSet(Slot(i))
    /\ i' = Min({k \in i..(Limit + 1) : k > Limit \/ FdIsSet(Slot(k))})
    /\ UNCHANGED <<program, up, cpy_reads, fd_num, sets, buf, net, clients, misclosed>>

EndOfLoop ==
    /\ up /\ i > Limit /\ i > 0
    /\ i' = 0 /\ cpy_reads' = <<>> /\ fd_num' = 0
    /\ UNCHANGED <<program, up, sets, buf, net, clients, misclosed>>

FreeFds == {fd \in FDs : ~Open(fd)}

\* The largest descriptor, with a new one.
OldMax(fd) == fd_max
NewMax(fd) == IF fd_max < fd THEN fd ELSE fd_max

\* Linux gives the lowest free descriptor, Windows promises nothing.
Accept ==
    /\ Serving(ServFd) /\ backlog # <<>>
    /\ \E fd \in FreeFds :
         /\ win \/ \A f \in FreeFds : fd <= f
         /\ fdOf' = [fdOf EXCEPT ![Head(backlog)] = fd]
         /\ IF win /\ Len(reads) >= FD_SETSIZE         \* FD_SET does nothing
            THEN reads' = reads /\ refused' = refused \cup {Head(backlog)}
            ELSE reads' = Append(reads, fd) /\ refused' = refused
         /\ fd_max' = NewMax(fd)
    /\ backlog' = Tail(backlog) /\ i' = i + 1
    /\ UNCHANGED <<program, up, cpy_reads, fd_num, buf, conn, inq, outq, clients, misclosed>>

\* accept fails: error_handling ends the process.
AcceptError ==
    /\ Serving(ServFd) /\ backlog # <<>>
    /\ up' = FALSE
    /\ UNCHANGED <<program, scan, sets, buf, net, clients, misclosed>>

ReadLen(c) == Min({BUF_SIZE, Len(inq[c])})

\* read returns data.
ReadData(c) ==
    /\ Serving(fdOf[c]) /\ inq[c] # <<>>
    /\ buf' = SubSeq(inq[c], 1, ReadLen(c))
    /\ inq' = [inq EXCEPT ![c] = SubSeq(@, ReadLen(c) + 1, Len(@))]
    /\ UNCHANGED <<program, up, scan, sets, fdOf, backlog, conn, outq, clients, misclosed>>

\* What the end of a connection closes: the loop's descriptor, or the entry
\* of the copied array at the loop's counter.
Closed == IF win THEN cpy_reads[i] ELSE i

\* FD_CLR takes a socket out of the set.
FdClr(fd) == Filter(reads, ToSet(reads) \ {fd})

\* read returns 0.  A connection closed with text unread is reset.
ReadEof(c) ==
    /\ Serving(fdOf[c]) /\ inq[c] = <<>> /\ conn[c] \in {"fin", "dead"}
    /\ reads' = FdClr(fdOf[c])
    /\ LET gone == {d \in Clients : fdOf[d] = Closed}
       IN  /\ fdOf' = [d \in Clients |-> IF d \in gone THEN NoFd ELSE fdOf[d]]
           /\ conn' = [d \in Clients |-> IF d \in gone THEN "closed" ELSE conn[d]]
           /\ inq' = [d \in Clients |-> IF d \in gone THEN <<>> ELSE inq[d]]
           /\ outq' = [d \in Clients |-> IF d \in gone /\ inq[d] # <<>> THEN <<>> ELSE outq[d]]
    /\ misclosed' = (misclosed \/ Closed # fdOf[c])
    /\ i' = i + 1
    /\ UNCHANGED <<program, up, cpy_reads, fd_num, fd_max, refused, buf, backlog, clients>>

\* read returns -1 for a reset, on Windows every time; the write of length -1
\* has no effect.  So has a read from a socket closed by mistake.
AfterReset == IF win THEN "rst" ELSE "dead"

ReadReset(c) ==
    /\ Serving(fdOf[c]) /\ inq[c] = <<>> /\ conn[c] = "rst"
    /\ conn' = [conn EXCEPT ![c] = AfterReset]
    /\ i' = i + 1
    /\ UNCHANGED <<program, up, cpy_reads, fd_num, sets, buf, fdOf, backlog, inq, outq, clients, misclosed>>

ReadClosed ==
    /\ Scanning /\ FdIsSet(Slot(i)) /\ ~Open(Slot(i))
    /\ i' = i + 1
    /\ UNCHANGED <<program, up, cpy_reads, fd_num, sets, buf, net, clients, misclosed>>

EchoedOne == SubSeq(buf, 2, Len(buf))
Echoed    == buf

\* write: the echo; it blocks until there is room.
WriteEcho(c) ==
    /\ up /\ buf # <<>> /\ Slot(i) = fdOf[c]
    /\ \/ /\ conn[c] = "open" /\ Len(outq[c]) + Len(buf) <= SockBuf
          /\ outq' = [outq EXCEPT ![c] = @ \o Echoed]
          /\ UNCHANGED <<up, conn>>
       \/ /\ conn[c] = "fin"                      \* accepted; a reset may come back
          /\ \E s \in {"fin", AfterReset} : conn' = [conn EXCEPT ![c] = s]
          /\ UNCHANGED <<up, outq>>
       \/ /\ conn[c] = "rst"                      \* the pending error
          /\ conn' = [conn EXCEPT ![c] = AfterReset]
          /\ UNCHANGED <<up, outq>>
       \/ /\ conn[c] = "dead"                     \* SIGPIPE ends the process
          /\ up' = FALSE
          /\ UNCHANGED <<conn, outq>>
    /\ buf' = <<>> /\ i' = i + 1
    /\ UNCHANGED <<program, cpy_reads, fd_num, sets, fdOf, backlog, inq, clients, misclosed>>

-----------------------------------------------------------------------------
Serve(c) == ReadData(c) \/ ReadEof(c) \/ ReadReset(c) \/ WriteEcho(c)

Server == \/ Select \/ SelectError \/ Skip \/ EndOfLoop \/ Accept \/ AcceptError \/ ReadClosed
          \/ \E c \in Clients : Serve(c)

Client(c) == Connect(c) \/ WriteLine(c) \/ ReadReply(c) \/ Leave(c)

Next == Server \/ \E c \in Clients : Client(c)

Spec == Init /\ [][Next]_vars

\* The server is scheduled and a client that waits reads.
FairSpec == Spec /\ WF_vars(Server) /\ \A c \in Writers : WF_vars(ReadReply(c))

-----------------------------------------------------------------------------
\* Type invariant of all the variables.
TypeOK ==
    /\ {win, up, misclosed} \subseteq BOOLEAN /\ FD_SETSIZE \in SetSizes \cup {0}
    /\ reads \in Seq(FDs \cup {ServFd}) /\ cpy_reads \in Seq(FDs \cup {ServFd})
    /\ fd_num \in 0..Len(cpy_reads) /\ fd_max \in FDs \cup {ServFd} /\ i \in Nat
    /\ buf \in Seq(Nat) /\ Len(buf) <= BUF_SIZE
    /\ fdOf \in [Clients -> FDs \cup {NoFd}] /\ backlog \in Seq(Clients)
    /\ conn \in [Clients -> {"idle", "open", "fin", "rst", "dead", "closed"}]
    /\ \A q \in {inq, outq, got} : q \in [Clients -> Seq(Nat)]
    /\ asked \in [Clients -> BOOLEAN] /\ sent \in [Clients -> Nat]
    /\ lines \in [Clients -> 0..MaxLines] /\ refused \subseteq Clients

\* Until a wrong socket is closed, the set has exactly the open sockets, each
\* once, except those FD_SET dropped because the set was full.
ReadsExact ==
    ~misclosed =>
        /\ IsInjective(reads)
        /\ ToSet(reads) = {ServFd} \cup {fdOf[c] : c \in {d \in Clients \ refused : fdOf[d] # NoFd}}

\* Sockets are blocking, so the snapshot must still be right when the loop
\* comes to an entry: no read of a socket without news stops the server.
NeverBlocksOnRead ==
    i > 0 /\ ~misclosed =>
        \A k \in (IF buf = <<>> THEN i ELSE i + 1)..Limit :
            FdIsSet(Slot(k)) => Readable(Slot(k))

\* The two together: the set and its snapshot are right while the loop changes them.
SetExact == TypeOK /\ ReadsExact /\ NeverBlocksOnRead

\* The text comes back whole and in order, over several lines and reads.
EchoIntact ==
    \A c \in Clients : conn[c] = "open" =>
        got[c] \o outq[c] \o (IF buf # <<>> /\ Slot(i) = fdOf[c] THEN buf ELSE <<>>) \o inq[c]
            = [k \in 1..sent[c] |-> k]

\* The server is in write for a client that sits at its prompt with unread
\* echo: everybody waits for its user.
Blocked == buf # <<>> /\ \E c \in Clients :
              /\ Slot(i) = fdOf[c] /\ conn[c] = "open" /\ ~asked[c]
              /\ Len(outq[c]) + Len(buf) > SockBuf

\* A client gets an answer to its line, whatever other sockets have news,
\* come and go, unless the server ends or is blocked, or FD_SET dropped it.
EchoReturns ==
    \A c \in Writers : Waiting(c) ~> ~Waiting(c) \/ ~up \/ Blocked \/ c \in refused

\* A client that left is closed, except that the Windows server never
\* removes a socket that was reset.
DepartureNoticed ==
    \A c \in Clients :
        conn[c] \in {"fin", "rst", "dead"} ~>
            \/ conn[c] = "closed" \/ ~up \/ Blocked \/ c \in refused
            \/ win /\ conn[c] = "rst"

\* What the comment says of the branch that closes: the socket closed is the
\* one whose end of file was read, so that nobody who is connected loses the
\* connection because others left.  False of the Windows program.
OnlyEndedClosed ==
    [][\A c \in Clients : conn'[c] = "closed" /\ conn[c] # "closed" =>
            conn[c] \in {"fin", "dead"} /\ inq[c] = <<>>]_vars
=============================================================================
