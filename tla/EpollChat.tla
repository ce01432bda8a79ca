------------------------------ MODULE EpollChat ------------------------------
(***************************************************************************)
(* The epoll chat server of Chapter 17 (07_chat_serv.c) with its clients   *)
(* (07_chat_clnt.c).  One thread serves edge-triggered events on           *)
(* nonblocking sockets: it reads a client until EAGAIN, writing every      *)
(* chunk at once to all the descriptors in clnt_sock_arr.  What does not   *)
(* fit a client's socket buffer is lost: no write is checked or repeated.  *)
(*                                                                         *)
(* A unit of text is <<sender, number>>.                                   *)
(***************************************************************************)
EXTENDS Epoll

CONSTANTS
    Clients, FDs, ServFd, NoFd,
    EPOLL_SIZE,      \* most events one epoll_wait reports
    MAX_CLNT_SIZE,   \* length of clnt_sock_arr
    BUF_SIZE,        \* the server's buffer
    SockBuf,         \* units a client's connection holds unread
    MaxSent          \* bound: units a client writes

ASSUME FDsAssumption   == FDs \subseteq Int /\ {ServFd, NoFd} \cap FDs = {} /\ ServFd # NoFd
ASSUME SizesAssumption == /\ EPOLL_SIZE \in Nat \ {0} /\ BUF_SIZE \in Nat \ {0}
                          /\ {MAX_CLNT_SIZE, SockBuf, MaxSent} \subseteq Nat

\* Main files a descriptor without comparing clnt_cnt with MAX_CLNT_SIZE: that
\* no more clients come than the array holds is up to those who run the server.
ASSUME CapacityAssumption == IsFiniteSet(Clients) /\ Cardinality(Clients) <= MAX_CLNT_SIZE

VARIABLES
    up,              \* the server process is running
    batch,           \* ep_events from i on; <<>> is epoll_wait
    buf, j,          \* the chunk being broadcast and the loop's index
    clnt_sock_arr, clnt_cnt,
    ready, backlog,  \* the kernel's list of news; the listen queue
    fdOf,            \* the server's descriptor for a connection, or NoFd
    conn,            \* the connection as the server's end of TCP sees it
    inq, outq,       \* units arrived and unread; on the way to the client
    got, sent        \* units a client has displayed; how many it has written

server  == <<up, batch, buf, j, clnt_sock_arr, clnt_cnt>>
network == <<ready, backlog, fdOf, conn, inq, outq>>
clients == <<got, sent>>
vars == <<server, network, clients>>

Sources == FDs \cup {ServFd}
Slots == 0..(MAX_CLNT_SIZE - 1)

\* clnt_sock_arr is zeroed; NoFd stands for the 0 of an unused slot.
Init ==
    /\ up = TRUE /\ batch = <<>> /\ buf = <<>> /\ j = 0
    /\ clnt_sock_arr = [k \in Slots |-> NoFd] /\ clnt_cnt = 0
    /\ ready = <<>> /\ backlog = <<>>
    /\ fdOf = [c \in Clients |-> NoFd] /\ conn = [c \in Clients |-> "idle"]
    /\ inq = [c \in Clients |-> <<>>] /\ outq = [c \in Clients |-> <<>>]
    /\ got = [c \in Clients |-> <<>>] /\ sent = [c \in Clients |-> 0]

Level(fd) == fd = ServFd

HasNews(c) == inq[c] # <<>> \/ conn[c] \in {"fin", "rst", "dead"}

Readable(fd) == IF fd = ServFd THEN backlog # <<>>
                               ELSE \E c \in Clients : fdOf[c] = fd /\ HasNews(c)

ReadableFds == {fd \in Sources : Readable(fd)}

\* The list after news on c's connection, if c is registered.
WokenBy(c) == IF fdOf[c] = NoFd THEN ready ELSE Woken(ready, fdOf[c])

-----------------------------------------------------------------------------
(* The client: 07_chat_clnt.c.                                             *)

Connect(c) ==
    /\ up /\ conn[c] = "idle"
    /\ conn' = [conn EXCEPT ![c] = "open"]
    /\ backlog' = Append(backlog, c)
    /\ ready' = Woken(ready, ServFd)
    /\ UNCHANGED <<server, fdOf, inq, outq, clients>>

\* send_msg: a line.
Say(c) ==
    /\ up /\ conn[c] = "open" /\ sent[c] < MaxSent
    /\ sent' = [sent EXCEPT ![c] = @ + 1]
    /\ inq' = [inq EXCEPT ![c] = Append(@, <<c, sent[c] + 1>>)]
    /\ ready' = WokenBy(c)
    /\ UNCHANGED <<server, backlog, fdOf, conn, outq, got>>

\* send_msg: "q"; TCP resets the connection if unread text is thrown away.
Quit(c) ==
    /\ conn[c] = "open"
    /\ conn' = [conn EXCEPT ![c] = IF outq[c] = <<>> THEN "fin" ELSE "rst"]
    /\ outq' = [outq EXCEPT ![c] = <<>>]
    /\ ready' = WokenBy(c)
    /\ UNCHANGED <<server, backlog, fdOf, inq, clients>>

\* recv_msg: display what has arrived.
Display(c) ==
    /\ conn[c] = "open" /\ outq[c] # <<>>
    /\ got' = [got EXCEPT ![c] = @ \o outq[c]]
    /\ outq' = [outq EXCEPT ![c] = <<>>]
    /\ UNCHANGED <<server, ready, backlog, fdOf, conn, inq, sent>>

-----------------------------------------------------------------------------
(* The server: main.                                                       *)

EpollWait ==
    /\ up /\ batch = <<>>
    /\ LET live == Filter(ready, ReadableFds)
       IN  /\ live # <<>>
           /\ batch' = Reported(live, EPOLL_SIZE)
           /\ ready' = Requeued(live, {fd \in Sources : Level(fd)}, EPOLL_SIZE)
    /\ UNCHANGED <<up, buf, j, clnt_sock_arr, clnt_cnt, backlog, fdOf, conn, inq, outq, clients>>

\* The event the loop is at, when it is not in the middle of a broadcast.
Serving(fd) == up /\ batch # <<>> /\ Head(batch) = fd /\ buf = <<>>

FreeFds == {fd \in FDs : \A c \in Clients : fdOf[c] # fd}

\* accept, append to clnt_sock_arr, register; epoll looks at once whether
\* there is news on the connection already.
Accept ==
    /\ Serving(ServFd) /\ backlog # <<>>
    /\ \E fd \in FreeFds :
         /\ \A f \in FreeFds : fd <= f
         /\ fdOf' = [fdOf EXCEPT ![Head(backlog)] = fd]
         /\ clnt_sock_arr' = [clnt_sock_arr EXCEPT ![clnt_cnt] = fd]
         /\ ready' = IF HasNews(Head(backlog)) THEN Woken(ready, fd) ELSE ready
    /\ clnt_cnt' = clnt_cnt + 1
    /\ backlog' = Tail(backlog) /\ batch' = Tail(batch)
    /\ UNCHANGED <<up, buf, j, conn, inq, outq, clients>>

\* accept fails, for want of a descriptor or of memory: error_handling exits.
AcceptError ==
    /\ Serving(ServFd) /\ backlog # <<>>
    /\ up' = FALSE
    /\ UNCHANGED <<batch, buf, j, clnt_sock_arr, clnt_cnt, network, clients>>

\* What a read of n units leaves in the socket.
Unread(q, n) == SubSeq(q, n + 1, Len(q))

\* read returns data: start the broadcast.
ReadData(c) ==
    /\ Serving(fdOf[c]) /\ inq[c] # <<>>
    /\ LET n == Min({BUF_SIZE, Len(inq[c])})
       IN  /\ buf' = SubSeq(inq[c], 1, n)
           /\ inq' = [inq EXCEPT ![c] = Unread(@, n)]
    /\ j' = 0
    /\ UNCHANGED <<up, batch, clnt_sock_arr, clnt_cnt, ready, backlog, fdOf, conn, outq, clients>>

\* The slot of fd, or clnt_cnt if there is none.
SlotOf(fd) == Min({clnt_cnt} \cup {k \in Slots : k < clnt_cnt /\ clnt_sock_arr[k] = fd})

\* The inner loop: the entries from slot k on move down by one.
ShiftFromStart(k) ==
    [i \in Slots |-> IF i < clnt_cnt - 1 THEN clnt_sock_arr[i + 1] ELSE clnt_sock_arr[i]]
ShiftDown(k) ==
    [i \in Slots |-> IF k <= i /\ i < clnt_cnt - 1 THEN clnt_sock_arr[i + 1] ELSE clnt_sock_arr[i]]

\* read returns 0: unregister, remove from clnt_sock_arr, close, next event.
ReadEof(c) ==
    /\ Serving(fdOf[c]) /\ inq[c] = <<>> /\ conn[c] \in {"fin", "dead"}
    /\ ready' = Forgotten(ready, fdOf[c])
    /\ clnt_sock_arr' = ShiftDown(SlotOf(fdOf[c]))
    /\ clnt_cnt' = clnt_cnt - 1
    /\ fdOf' = [fdOf EXCEPT ![c] = NoFd]
    /\ batch' = Tail(batch)
    /\ UNCHANGED <<up, buf, j, backlog, conn, inq, outq, clients>>

\* read returns -1 for the reset; errno is not EAGAIN, so read again.
ReadReset(c) ==
    /\ Serving(fdOf[c]) /\ inq[c] = <<>> /\ conn[c] = "rst"
    /\ conn' = [conn EXCEPT ![c] = "dead"]
    /\ UNCHANGED <<server, ready, backlog, fdOf, inq, outq, clients>>

\* read returns -1, EAGAIN: next event.
Drained(c) ==
    /\ Serving(fdOf[c]) /\ ~HasNews(c)
    /\ batch' = Tail(batch)
    /\ UNCHANGED <<up, buf, j, clnt_sock_arr, clnt_cnt, network, clients>>

\* How many units of buf a nonblocking write leaves in c's connection.
Taken(c) == Min({Len(buf), SockBuf - Len(outq[c])})

\* One turn of the broadcast loop: write to the client c in slot j.
WriteTo(c) ==
    /\ up /\ buf # <<>> /\ j < clnt_cnt /\ clnt_sock_arr[j] = fdOf[c]
    /\ \/ /\ conn[c] = "open"
          /\ outq' = [outq EXCEPT ![c] = @ \o SubSeq(buf, 1, Taken(c))]
          /\ UNCHANGED <<up, conn, ready>>
       \/ /\ conn[c] = "fin"                      \* accepted; a reset may come back
          /\ \E s \in {"fin", "dead"} : conn' = [conn EXCEPT ![c] = s]
          /\ ready' = IF conn' = conn THEN ready ELSE Woken(ready, fdOf[c])
          /\ UNCHANGED <<up, outq>>
       \/ /\ conn[c] = "rst"                      \* the pending error
          /\ conn' = [conn EXCEPT ![c] = "dead"]
          /\ UNCHANGED <<up, outq, ready>>
       \/ /\ conn[c] = "dead"                     \* SIGPIPE ends the process
          /\ up' = FALSE
          /\ UNCHANGED <<conn, outq, ready>>
    /\ j' = j + 1
    /\ UNCHANGED <<batch, buf, clnt_sock_arr, clnt_cnt, backlog, fdOf, inq, clients>>

\* The broadcast is over: read the same descriptor again.
NextEvent     == Tail(batch)
SameEvent     == batch
BroadcastDone ==
    /\ up /\ buf # <<>> /\ j >= clnt_cnt
    /\ buf' = <<>>
    /\ batch' = SameEvent
    /\ UNCHANGED <<up, j, clnt_sock_arr, clnt_cnt, network, clients>>

-----------------------------------------------------------------------------
Serve(c) == ReadData(c) \/ ReadEof(c) \/ ReadReset(c) \/ Drained(c) \/ WriteTo(c)

Server == EpollWait \/ Accept \/ AcceptError \/ BroadcastDone \/ \E c \in Clients : Serve(c)

Client(c) == Connect(c) \/ Say(c) \/ Quit(c) \/ Display(c)

Next == Server \/ \E c \in Clients : Client(c)

Spec == Init /\ [][Next]_vars

\* The server process is scheduled; the clients owe nothing, not even to read.
FairSpec == Spec /\ WF_vars(Server)

-----------------------------------------------------------------------------
Units   == Clients \X (1..MaxSent)

\* Type invariant of all the variables.
TypeOK ==
    /\ up \in BOOLEAN /\ batch \in Seq(Sources) /\ ready \in Seq(Sources)
    /\ buf \in Seq(Units) /\ j \in Nat
    /\ clnt_cnt \in 0..MAX_CLNT_SIZE /\ clnt_sock_arr \in [Slots -> FDs \cup {NoFd}]
    /\ backlog \in Seq(Clients) /\ fdOf \in [Clients -> FDs \cup {NoFd}]
    /\ conn \in [Clients -> {"idle", "open", "fin", "rst", "dead"}]
    /\ \A q \in {inq, outq, got} : q \in [Clients -> Seq(Units)]
    /\ sent \in [Clients -> 0..MaxSent]

Registered == {c \in Clients : fdOf[c] # NoFd}

\* The first clnt_cnt entries of clnt_sock_arr are the open client
\* descriptors, each once, although accept reuses the numbers of closed ones:
\* a broadcast skips nobody, repeats nobody and writes to no closed number.
ArrayExact ==
    /\ clnt_cnt = Cardinality(Registered)
    /\ {clnt_sock_arr[k] : k \in 0..(clnt_cnt - 1)} = {fdOf[c] : c \in Registered}

\* No wake-up is lost: whatever can be read on a descriptor the server
\* watches, the kernel will report it or the loop is about to serve it.
NoLostWakeup ==
    up => \A fd \in Sources :
            Readable(fd) => fd \in ToSet(ready) \cup ToSet(batch)

\* The two together: the loop reaches every client, to read and to write.
LoopExact == TypeOK /\ ArrayExact /\ NoLostWakeup

\* A client that leaves is taken off the array and its descriptor closed,
\* whatever the others send meanwhile, unless the process is gone.
DepartureNoticed ==
    \A c \in Clients :
        (fdOf[c] # NoFd /\ conn[c] \in {"fin", "rst", "dead"}) ~> (fdOf[c] = NoFd \/ ~up)

Stream(r) == got[r] \o outq[r]

\* What the comment on the broadcast loop says: everything goes to all the
\* clients that are connected.  When a broadcast ends, every connected client
\* that was on the array has the whole chunk at the end of its stream.
SentToAll ==
    [][BroadcastDone => \A c \in Registered : conn[c] = "open" =>
            \E n \in 0..(Len(Stream(c)) - Len(buf)) :
                SubSeq(Stream(c), n + 1, n + Len(buf)) = buf]_vars
=============================================================================
