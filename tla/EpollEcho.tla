------------------------------ MODULE EpollEcho ------------------------------
(***************************************************************************)
(* The epoll echo servers of Chapter 17, level-triggered with blocking     *)
(* sockets (echo_epollserv.c, echo_EPLTserv.c) or edge-triggered with      *)
(* nonblocking ones (echo_EPETserv.c), and their client echo_client.c,     *)
(* which writes a line and reads until the whole line has come back.       *)
(*                                                                         *)
(* The server is one loop: take a batch of events, then serve them one by  *)
(* one while new data, connections and departures keep arriving.  A line   *)
(* is the sequence 1..str_len of its units.                                *)
(***************************************************************************)
EXTENDS Epoll

CONSTANTS
    Clients, FDs, ServFd, NoFd,
    EPOLL_SIZE,   \* most events one epoll_wait reports
    BUF_SIZE,     \* the server's buffer
    SockBuf,      \* units the server's socket and the client's hold unread
    MaxLine,      \* bound: units in a line
    MaxLines      \* bound: lines a client writes

ASSUME FDsAssumption   == FDs \subseteq Int /\ {ServFd, NoFd} \cap FDs = {} /\ ServFd # NoFd
ASSUME SizesAssumption == /\ EPOLL_SIZE \in Nat \ {0} /\ BUF_SIZE \in Nat \ {0}
                          /\ MaxLine \in Nat /\ MaxLines \in Nat
                          /\ SockBuf \in Nat /\ MaxLine <= SockBuf

VARIABLES
    edge,         \* which program runs; never changes
    up,           \* the server process is running
    batch,        \* ep_events from i on; <<>> is epoll_wait
    buf,          \* read and not written yet
    ready,        \* the kernel's list of descriptors with news
    backlog,      \* the listen queue
    fdOf,         \* the server's descriptor for a connection, or NoFd
    conn,         \* the connection as the server's end of TCP sees it
    net, inq,     \* units on their way to the server; arrived and unread
    outq,         \* units on their way to the client
    str_len, message, lines     \* the client's locals; lines written so far

server  == <<edge, up, batch, buf>>
kernel  == <<ready, backlog, fdOf, conn, net, inq, outq>>
clients == <<str_len, message, lines>>
vars == <<server, kernel, clients>>

Sources == FDs \cup {ServFd}

\* setup: the listening socket is registered, level-triggered in every program.
Init ==
    /\ edge \in BOOLEAN /\ up = TRUE
    /\ batch = <<>> /\ buf = <<>> /\ ready = <<>> /\ backlog = <<>>
    /\ fdOf = [c \in Clients |-> NoFd] /\ conn = [c \in Clients |-> "idle"]
    /\ net = [c \in Clients |-> <<>>] /\ inq = [c \in Clients |-> <<>>]
    /\ outq = [c \in Clients |-> <<>>] /\ message = [c \in Clients |-> <<>>]
    /\ str_len = [c \in Clients |-> 0] /\ lines = [c \in Clients |-> 0]

\* Which registrations are level-triggered: serv_sock's always, a client's
\* unless EPOLLET was asked for.
EdgeListening(fd) == ~edge
Level(fd) == fd = ServFd \/ ~edge

HasNews(c) == inq[c] # <<>> \/ conn[c] \in {"fin", "rst", "dead"}

Readable(fd) == IF fd = ServFd THEN backlog # <<>>
                               ELSE \E c \in Clients : fdOf[c] = fd /\ HasNews(c)

ReadableFds == {fd \in Sources : Readable(fd)}

\* The list after news on c's connection, if c is registered.
WokenBy(c) == IF fdOf[c] = NoFd THEN ready ELSE Woken(ready, fdOf[c])

-----------------------------------------------------------------------------
(* The client: echo_client.c.                                              *)

\* The client is inside the loop that reads until str_len units are back.
Waiting(c) == conn[c] = "open" /\ Len(message[c]) < str_len[c]

Connect(c) ==
    /\ up /\ conn[c] = "idle"
    /\ conn' = [conn EXCEPT ![c] = "open"]
    /\ backlog' = Append(backlog, c)
    /\ ready' = Woken(ready, ServFd)
    /\ UNCHANGED <<server, fdOf, net, inq, outq, clients>>

WriteLine(c) ==
    /\ up /\ conn[c] = "open" /\ ~Waiting(c) /\ lines[c] < MaxLines
    /\ \E n \in 1..MaxLine :
         /\ str_len' = [str_len EXCEPT ![c] = n]
         /\ net' = [net EXCEPT ![c] = [k \in 1..n |-> k]]
    /\ message' = [message EXCEPT ![c] = <<>>]
    /\ lines' = [lines EXCEPT ![c] = @ + 1]
    /\ UNCHANGED <<server, ready, backlog, fdOf, conn, inq, outq>>

\* A segment arrives at the server's socket.
Arrive(c) ==
    /\ net[c] # <<>>
    /\ \E n \in 1..Len(net[c]) :
         /\ inq' = [inq EXCEPT ![c] = @ \o SubSeq(net[c], 1, n)]
         /\ net' = [net EXCEPT ![c] = SubSeq(@, n + 1, Len(@))]
    /\ ready' = WokenBy(c)
    /\ UNCHANGED <<server, backlog, fdOf, conn, outq, clients>>

ReadReply(c) ==
    /\ Waiting(c) /\ outq[c] # <<>>
    /\ message' = [message EXCEPT ![c] = @ \o outq[c]]
    /\ outq' = [outq EXCEPT ![c] = <<>>]
    /\ UNCHANGED <<server, ready, backlog, fdOf, conn, net, inq, str_len, lines>>

\* "q" at the prompt: close.
Quit(c) ==
    /\ conn[c] = "open" /\ ~Waiting(c)
    /\ conn' = [conn EXCEPT ![c] = "fin"]
    /\ ready' = WokenBy(c)
    /\ UNCHANGED <<server, backlog, fdOf, net, inq, outq, clients>>

\* The user interrupts a client that waits for its echo; TCP resets the
\* connection if that throws data away.  (Its own data has arrived.)
Killed(c) ==
    /\ Waiting(c) /\ net[c] = <<>>
    /\ conn' = [conn EXCEPT ![c] = IF outq[c] = <<>> THEN "fin" ELSE "rst"]
    /\ outq' = [outq EXCEPT ![c] = <<>>]
    /\ ready' = WokenBy(c)
    /\ UNCHANGED <<server, backlog, fdOf, net, inq, clients>>

-----------------------------------------------------------------------------
(* The server: main.                                                       *)

EpollWait ==
    /\ up /\ batch = <<>>
    /\ LET live == Filter(ready, ReadableFds)
       IN  /\ live # <<>>
           /\ batch' = Reported(live, EPOLL_SIZE)
           /\ ready' = Requeued(live, {fd \in Sources : Level(fd)}, EPOLL_SIZE)
    /\ UNCHANGED <<edge, up, buf, backlog, fdOf, conn, net, inq, outq, clients>>

\* The event the loop is at, when it is not in the middle of an echo.
Serving(fd) == up /\ batch # <<>> /\ Head(batch) = fd /\ buf = <<>>

FreeFds == {fd \in FDs : \A c \in Clients : fdOf[c] # fd}

\* An event on serv_sock: accept one connection and register it; epoll looks
\* at once whether there is news on it already.
Accept ==
    /\ Serving(ServFd) /\ backlog # <<>>
    /\ \E fd \in FreeFds :
         /\ \A f \in FreeFds : fd <= f
         /\ fdOf' = [fdOf EXCEPT ![Head(backlog)] = fd]
         /\ ready' = IF HasNews(Head(backlog)) THEN Woken(ready, fd) ELSE ready
    /\ backlog' = Tail(backlog) /\ batch' = Tail(batch)
    /\ UNCHANGED <<edge, up, buf, conn, net, inq, outq, clients>>

\* accept fails, for want of a descriptor or of memory: error_handling exits.
AcceptError ==
    /\ Serving(ServFd) /\ backlog # <<>>
    /\ up' = FALSE
    /\ UNCHANGED <<edge, batch, buf, kernel, clients>>

\* How much one read returns.
ReadLen(c) == Min({BUF_SIZE, Len(inq[c])})

\* Where the loop goes on after an event that leaves the descriptor open: the
\* edge-triggered program reads it again, the others take the next event.
ReadOnce  == Tail(batch)
AfterRead == IF edge THEN batch ELSE Tail(batch)

\* read returns data.
ReadData(c) ==
    /\ Serving(fdOf[c]) /\ inq[c] # <<>>
    /\ buf' = SubSeq(inq[c], 1, ReadLen(c))
    /\ inq' = [inq EXCEPT ![c] = SubSeq(@, ReadLen(c) + 1, Len(@))]
    /\ UNCHANGED <<edge, up, batch, ready, backlog, fdOf, conn, net, outq, clients>>

\* read returns 0: unregister, close, next event.
ReadEof(c) ==
    /\ Serving(fdOf[c]) /\ inq[c] = <<>> /\ conn[c] \in {"fin", "dead"}
    /\ ready' = Forgotten(ready, fdOf[c])
    /\ fdOf' = [fdOf EXCEPT ![c] = NoFd]
    /\ batch' = Tail(batch)
    /\ UNCHANGED <<edge, up, buf, backlog, conn, net, inq, outq, clients>>

\* read returns -1 for the reset.  The level-triggered programs then write
\* with length -1, to no effect; the edge-triggered one reads again.
ReadReset(c) ==
    /\ Serving(fdOf[c]) /\ inq[c] = <<>> /\ conn[c] = "rst"
    /\ conn' = [conn EXCEPT ![c] = "dead"]
    /\ batch' = AfterRead
    /\ UNCHANGED <<edge, up, buf, ready, backlog, fdOf, net, inq, outq, clients>>

\* read returns -1, EAGAIN: the edge-triggered program has drained the socket.
Drained(c) ==
    /\ edge /\ Serving(fdOf[c]) /\ ~HasNews(c)
    /\ batch' = Tail(batch)
    /\ UNCHANGED <<edge, up, buf, kernel, clients>>

\* How many units of buf the socket takes: a blocking write waits until there
\* is room for all, a nonblocking one takes what fits and the rest is lost.
TakenShort(c) == Len(buf) - 1
Taken(c) == IF edge THEN Min({Len(buf), SockBuf - Len(outq[c])}) ELSE Len(buf)

\* write: the echo.
WriteEcho(c) ==
    /\ up /\ buf # <<>> /\ Head(batch) = fdOf[c]
    /\ \/ /\ conn[c] = "open" /\ Len(outq[c]) + Taken(c) <= SockBuf
          /\ outq' = [outq EXCEPT ![c] = @ \o SubSeq(buf, 1, Taken(c))]
          /\ UNCHANGED <<up, conn, ready>>
       \/ /\ conn[c] = "fin"                      \* accepted; a reset may come back
          /\ \E s \in {"fin", "dead"} : conn' = [conn EXCEPT ![c] = s]
          /\ ready' = IF conn' = conn THEN ready ELSE Woken(ready, fdOf[c])
          /\ UNCHANGED <<up, outq>>
       \/ /\ conn[c] = "rst"                      \* the pending error
          /\ conn' = [conn EXCEPT ![c] = "dead"]
          /\ UNCHANGED <<up, outq, ready>>
       \/ /\ conn[c] = "dead"                     \* SIGPIPE ends the process
          /\ up' = FALSE
          /\ UNCHANGED <<conn, outq, ready>>
    /\ buf' = <<>>
    /\ batch' = AfterRead
    /\ UNCHANGED <<edge, backlog, fdOf, net, inq, clients>>

-----------------------------------------------------------------------------
Serve(c) == ReadData(c) \/ ReadEof(c) \/ ReadReset(c) \/ Drained(c) \/ WriteEcho(c)

Server == EpollWait \/ Accept \/ AcceptError \/ \E c \in Clients : Serve(c)

Client(c) == Connect(c) \/ WriteLine(c) \/ ReadReply(c) \/ Quit(c) \/ Killed(c)

Next == Server \/ \E c \in Clients : Client(c) \/ Arrive(c)

Spec == Init /\ [][Next]_vars

\* The server is scheduled, TCP delivers, a waiting client reads.  Nobody has
\* to connect, write or leave.
Fairness == /\ WF_vars(Server)
            /\ \A c \in Clients : WF_vars(Arrive(c)) /\ WF_vars(ReadReply(c))

FairSpec == Spec /\ Fairness

-----------------------------------------------------------------------------
\* Type invariant of all the variables.
TypeOK ==
    /\ edge \in BOOLEAN /\ up \in BOOLEAN
    /\ batch \in Seq(Sources) /\ Len(batch) <= EPOLL_SIZE
    /\ buf \in Seq(1..MaxLine) /\ Len(buf) <= BUF_SIZE
    /\ ready \in Seq(Sources) /\ IsInjective(ready)
    /\ backlog \in Seq(Clients) /\ fdOf \in [Clients -> FDs \cup {NoFd}]
    /\ conn \in [Clients -> {"idle", "open", "fin", "rst", "dead"}]
    /\ \A q \in {net, inq, outq, message} : q \in [Clients -> Seq(1..MaxLine)]
    /\ str_len \in [Clients -> 0..MaxLine] /\ lines \in [Clients -> 0..MaxLines]

\* No wake-up is lost: whatever can be read on a descriptor the server
\* watches, the kernel will report it or the loop is about to serve it.  In
\* the edge-triggered program this rests on reading until EAGAIN.
NoLostWakeup ==
    up => \A fd \in Sources :
            Readable(fd) => fd \in ToSet(ready) \cup ToSet(batch)

\* An event still to be served is about a descriptor that is still open:
\* nothing the loop does for one event can invalidate another of the batch.
NoStaleEvent ==
    \A i \in DOMAIN batch : batch[i] = ServFd \/ \E c \in Clients : fdOf[c] = batch[i]

\* The two together: what the kernel and the loop know of events is all there is.
EventsExact == TypeOK /\ NoLostWakeup /\ NoStaleEvent

\* The echo the server holds for c.
Held(c) == IF buf # <<>> /\ Head(batch) = fdOf[c] THEN buf ELSE <<>>

\* A line comes back whole and in order: what the client has of its line,
\* what is on the way back, in the server, unread and on the way there are
\* together exactly the line.
EchoIntact ==
    \A c \in Clients : conn[c] = "open" =>
        message[c] \o outq[c] \o Held(c) \o inq[c] \o net[c] = [k \in 1..str_len[c] |-> k]

\* A client gets its line back however the events of the others come in
\* between, unless it is interrupted or the server dies.
EchoReturns == \A c \in Clients : Waiting(c) ~> ~Waiting(c) \/ ~up
=============================================================================
