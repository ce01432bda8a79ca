---------------------------- MODULE ThreadedChat ----------------------------
(***************************************************************************)
(* The multi-threaded chat server of Chapter 18 (chat_server.c) with its   *)
(* clients (chat_clnt.c).  The main thread accepts connections, files each *)
(* descriptor in clnt_socks under the mutex and starts a detached handler, *)
(* passing it the ADDRESS of its own local variable clnt_sock.  A handler  *)
(* copies the descriptor through that address, broadcasts whatever it      *)
(* reads to every registered descriptor under the mutex, and unregisters   *)
(* and closes its descriptor at end of file.                               *)
(*                                                                         *)
(* A connection, the client program at its far end and the handler that    *)
(* main starts for it share one identity, a member of Clients.  Data is a  *)
(* stream of units <<sender, number>>: TCP keeps their order and nothing   *)
(* else, so a read returns any prefix of what has arrived.                 *)
(***************************************************************************)
EXTENDS Integers, Sequences, FiniteSets

CONSTANTS
    Clients,     \* connections; each connects at most once
    FDs,         \* descriptors the process can give to connections
    MAX_CLNT,    \* length of clnt_socks
    BUF_SIZE,    \* most units one read returns
    SockBuf,     \* units a client's receive buffer holds
    MaxSent,     \* bound: units a client writes in its life,
    Brief,       \* one for these clients
    NoFd, NoOne

ASSUME FDsAssumption   == FDs \subseteq Int /\ NoFd \notin FDs
ASSUME SizesAssumption == /\ MAX_CLNT \in Nat /\ BUF_SIZE \in Nat \ {0}
                          /\ SockBuf \in Nat /\ MaxSent \in Nat
ASSUME NoOneAssumption == NoOne \notin Clients /\ IsFiniteSet(Clients)

\* Main files a descriptor without comparing clnt_cnt with MAX_CLNT: that no
\* more clients come than the array holds is up to those who run the server.
ASSUME CapacityAssumption == Cardinality(Clients) <= MAX_CLNT

VARIABLES
    up,          \* the server process is running
    clnt_sock,   \* main's local variable, shared with the handlers by address
    cur,         \* the connection main is between accept and pthread_create for
    mutex,       \* the thread that holds it, or NoOne
    clnt_cnt, clnt_socks,
    pc, sock, msg, idx,     \* per handler: position and locals
    meant,       \* ghost: the descriptor main accepted for this handler
    backlog,     \* connections waiting in the listen queue, in order
    fdOf,        \* the server's open descriptor for a connection, or NoFd
    conn,        \* the connection as the server's end of TCP sees it
    inq,         \* units sent to the server and not read yet
    outq,        \* units in the client's receive buffer
    got,         \* units the client has displayed, in order
    sent         \* how many units the client has written

mainVars   == <<clnt_sock, cur>>
registry   == <<clnt_cnt, clnt_socks>>
threadVars == <<pc, sock, msg, idx, meant>>
netVars    == <<backlog, fdOf, conn, inq, outq, got, sent>>
vars == <<up, mutex, mainVars, registry, threadVars, netVars>>

Units == Clients \X (1..MaxSent)
Slots == 0..(MAX_CLNT - 1)
PCs   == {"none", "accepted", "registered", "start", "read", "lock", "write",
          "remove", "close", "done"}
Live  == {"registered", "start", "read", "lock", "write", "remove"}

Init ==
    /\ up = TRUE /\ mutex = NoOne
    /\ clnt_sock = NoFd /\ cur = NoOne
    /\ clnt_cnt = 0 /\ clnt_socks = [k \in Slots |-> NoFd]
    /\ pc = [c \in Clients |-> "none"]
    /\ sock = [c \in Clients |-> NoFd] /\ meant = [c \in Clients |-> NoFd]
    /\ msg = [c \in Clients |-> <<>>] /\ idx = [c \in Clients |-> 0]
    /\ backlog = <<>>
    /\ fdOf = [c \in Clients |-> NoFd]
    /\ conn = [c \in Clients |-> "idle"]
    /\ inq = [c \in Clients |-> <<>>] /\ outq = [c \in Clients |-> <<>>]
    /\ got = [c \in Clients |-> <<>>] /\ sent = [c \in Clients |-> 0]

-----------------------------------------------------------------------------
(* The clients: chat_clnt.c.                                               *)

Connect(c) ==
    /\ up /\ conn[c] = "idle"
    /\ conn' = [conn EXCEPT ![c] = "open"]
    /\ backlog' = Append(backlog, c)
    /\ UNCHANGED <<up, mutex, mainVars, registry, threadVars, fdOf, inq, outq, got, sent>>

\* send_msg: one line read from the keyboard is written to the socket.
ClientSend(c) ==
    /\ up /\ conn[c] = "open" /\ sent[c] < MaxSent
    /\ c \in Brief => sent[c] = 0
    /\ sent' = [sent EXCEPT ![c] = @ + 1]
    /\ inq' = [inq EXCEPT ![c] = Append(@, <<c, sent[c] + 1>>)]
    /\ UNCHANGED <<up, mutex, mainVars, registry, threadVars, backlog, fdOf, conn, outq, got>>

\* send_msg: "q" closes the socket and exits.  TCP ends the connection with
\* a FIN, or with a reset when unread data is thrown away.
ClientQuit(c) ==
    /\ up /\ conn[c] = "open"
    /\ conn' = [conn EXCEPT ![c] = IF outq[c] = <<>> THEN "fin" ELSE "rst"]
    /\ outq' = [outq EXCEPT ![c] = <<>>]
    /\ UNCHANGED <<up, mutex, mainVars, registry, threadVars, backlog, fdOf, inq, got, sent>>

\* recv_msg: display what has arrived.
ClientRecv(c) ==
    /\ conn[c] = "open" /\ outq[c] # <<>>
    /\ got' = [got EXCEPT ![c] = @ \o outq[c]]
    /\ outq' = [outq EXCEPT ![c] = <<>>]
    /\ UNCHANGED <<up, mutex, mainVars, registry, threadVars, backlog, fdOf, conn, inq, sent>>

-----------------------------------------------------------------------------
(* The main thread: main.                                                  *)

FreeFds == {fd \in FDs : \A c \in Clients : fdOf[c] # fd}

\* accept returns the lowest free descriptor; main stores it in the variable
\* whose address the earlier handlers were given.
Accept ==
    /\ up /\ cur = NoOne /\ backlog # <<>>
    /\ \E fd \in FreeFds :
         /\ \A f \in FreeFds : fd <= f
         /\ clnt_sock' = fd
         /\ fdOf' = [fdOf EXCEPT ![Head(backlog)] = fd]
         /\ meant' = [meant EXCEPT ![Head(backlog)] = fd]
    /\ cur' = Head(backlog)
    /\ pc' = [pc EXCEPT ![Head(backlog)] = "accepted"]
    /\ backlog' = Tail(backlog)
    /\ UNCHANGED <<up, mutex, registry, sock, msg, idx, conn, inq, outq, got, sent>>

\* accept fails (the descriptor table is full): error_handling exits.
AcceptError ==
    /\ up /\ cur = NoOne /\ backlog # <<>> /\ FreeFds = {}
    /\ up' = FALSE
    /\ UNCHANGED <<mutex, mainVars, registry, threadVars, netVars>>

\* lock; clnt_socks[clnt_cnt++] = clnt_sock; unlock.
Register ==
    /\ up /\ cur # NoOne /\ pc[cur] = "accepted" /\ mutex = NoOne
    /\ clnt_socks' = [clnt_socks EXCEPT ![clnt_cnt] = clnt_sock]
    /\ clnt_cnt' = clnt_cnt + 1
    /\ pc' = [pc EXCEPT ![cur] = "registered"]
    /\ UNCHANGED <<up, mutex, mainVars, sock, msg, idx, meant, netVars>>

\* pthread_create with &clnt_sock, pthread_detach, back to accept.
CreateThread ==
    /\ up /\ cur # NoOne /\ pc[cur] = "registered"
    /\ pc' = [pc EXCEPT ![cur] = "start"]
    /\ cur' = NoOne
    /\ UNCHANGED <<up, mutex, clnt_sock, registry, sock, msg, idx, meant, netVars>>

-----------------------------------------------------------------------------
(* A handler: handle_clnt and the send_msg it calls.                       *)

\* int clnt_sock = *((int*)arg): whatever main's variable holds by now.
StartHandler(t) ==
    /\ up /\ pc[t] = "start"
    /\ sock' = [sock EXCEPT ![t] = clnt_sock]
    /\ pc' = [pc EXCEPT ![t] = "read"]
    /\ UNCHANGED <<up, mutex, mainVars, registry, msg, idx, meant, netVars>>

\* What a read of n units leaves in the socket.
Unread(q, n) == SubSeq(q, n + 1, Len(q))

\* read returns data.
ReadData(t) ==
    /\ up /\ pc[t] = "read"
    /\ \E c \in Clients, n \in 1..BUF_SIZE :
         /\ fdOf[c] = sock[t] /\ n <= Len(inq[c])
         /\ msg' = [msg EXCEPT ![t] = SubSeq(inq[c], 1, n)]
         /\ inq' = [inq EXCEPT ![c] = Unread(@, n)]
    /\ pc' = [pc EXCEPT ![t] = "lock"]
    /\ UNCHANGED <<up, mutex, mainVars, registry, sock, idx, meant,
                   backlog, fdOf, conn, outq, got, sent>>

\* read returns 0: the loop ends.
ReadEof(t) ==
    /\ up /\ pc[t] = "read"
    /\ \E c \in Clients :
         fdOf[c] = sock[t] /\ inq[c] = <<>> /\ conn[c] \in {"fin", "dead"}
    /\ pc' = [pc EXCEPT ![t] = "remove"]
    /\ UNCHANGED <<up, mutex, mainVars, registry, sock, msg, idx, meant, netVars>>

\* read returns -1, after a reset or on a descriptor that is not open.  The
\* loop only stops at 0, so send_msg runs with length -1.
ReadError(t) ==
    /\ up /\ pc[t] = "read"
    /\ \/ /\ \A c \in Clients : fdOf[c] # sock[t]
          /\ UNCHANGED conn
       \/ \E c \in Clients :
            /\ fdOf[c] = sock[t] /\ inq[c] = <<>> /\ conn[c] = "rst"
            /\ conn' = [conn EXCEPT ![c] = "dead"]
    /\ msg' = [msg EXCEPT ![t] = <<>>]
    /\ pc' = [pc EXCEPT ![t] = "lock"]
    /\ UNCHANGED <<up, mutex, mainVars, registry, sock, idx, meant,
                   backlog, fdOf, inq, outq, got, sent>>

SendNoLock(t) ==
    /\ up /\ pc[t] = "lock"
    /\ mutex' = t
    /\ idx' = [idx EXCEPT ![t] = 0]
    /\ pc' = [pc EXCEPT ![t] = "write"]
    /\ UNCHANGED <<up, mainVars, registry, sock, msg, meant, netVars>>

SendLock(t) ==
    /\ up /\ pc[t] = "lock" /\ mutex = NoOne
    /\ mutex' = t
    /\ idx' = [idx EXCEPT ![t] = 0]
    /\ pc' = [pc EXCEPT ![t] = "write"]
    /\ UNCHANGED <<up, mainVars, registry, sock, msg, meant, netVars>>

\* What write(fd, msg, len) does to the connection c behind fd.
Deliver(t, c) ==
    \/ /\ conn[c] = "open"                        \* blocks until there is room
       /\ Len(outq[c]) + Len(msg[t]) <= SockBuf
       /\ outq' = [outq EXCEPT ![c] = @ \o msg[t]]
       /\ UNCHANGED <<up, conn>>
    \/ /\ conn[c] = "fin"                         \* accepted; a reset comes back
       /\ \E s \in {"fin", "dead"} : conn' = [conn EXCEPT ![c] = s]
       /\ UNCHANGED <<up, outq>>
    \/ /\ conn[c] = "rst"                         \* the pending error, returned once
       /\ conn' = [conn EXCEPT ![c] = "dead"]
       /\ UNCHANGED <<up, outq>>
    \/ /\ conn[c] = "dead"                        \* SIGPIPE ends the process
       /\ up' = FALSE
       /\ UNCHANGED <<conn, outq>>

\* One turn of send_msg's loop, under the mutex.
SendWrite(t) ==
    /\ up /\ pc[t] = "write" /\ idx[t] < clnt_cnt
    /\ idx' = [idx EXCEPT ![t] = @ + 1]
    /\ \/ /\ \/ msg[t] = <<>>                     \* length -1: EFAULT
             \/ \A c \in Clients : fdOf[c] # clnt_socks[idx[t]]    \* EBADF
          /\ UNCHANGED <<up, conn, outq>>
       \/ \E c \in Clients : /\ msg[t] # <<>> /\ fdOf[c] = clnt_socks[idx[t]]
                             /\ Deliver(t, c)
    /\ UNCHANGED <<mutex, mainVars, registry, pc, sock, msg, meant,
                   backlog, fdOf, inq, got, sent>>

SendKeepsLock(t) ==
    /\ up /\ pc[t] = "write" /\ idx[t] >= clnt_cnt
    /\ pc' = [pc EXCEPT ![t] = "read"]
    /\ msg' = [msg EXCEPT ![t] = <<>>]
    /\ UNCHANGED <<up, mutex, mainVars, registry, sock, idx, meant, netVars>>

SendUnlock(t) ==
    /\ up /\ pc[t] = "write" /\ idx[t] >= clnt_cnt
    /\ mutex' = NoOne
    /\ pc' = [pc EXCEPT ![t] = "read"]
    /\ msg' = [msg EXCEPT ![t] = <<>>]
    /\ UNCHANGED <<up, mainVars, registry, sock, idx, meant, netVars>>

\* The inner loop: entries after slot k move down by one.
ShiftPast(k) ==
    [j \in Slots |-> IF k < j /\ j < clnt_cnt - 1 THEN clnt_socks[j + 1] ELSE clnt_socks[j]]
ShiftDown(k) ==
    [j \in Slots |-> IF k <= j /\ j < clnt_cnt - 1 THEN clnt_socks[j + 1] ELSE clnt_socks[j]]

\* clnt_cnt--, after the search and outside its if.
CountIfFound(t) == IF \E k \in Slots : k < clnt_cnt /\ clnt_socks[k] = sock[t]
                   THEN clnt_cnt - 1 ELSE clnt_cnt
CountBoth(t)    == IF \E k \in Slots : k < clnt_cnt /\ clnt_socks[k] = sock[t]
                   THEN clnt_cnt - 2 ELSE clnt_cnt - 1
CountDown(t)    == clnt_cnt - 1

\* lock; remove the first entry that equals the descriptor, if any, and
\* decrement the count either way; unlock.
Remove(t) ==
    /\ up /\ pc[t] = "remove" /\ mutex = NoOne
    /\ \/ \E k \in Slots :
            /\ k < clnt_cnt /\ clnt_socks[k] = sock[t]
            /\ \A j \in Slots : j < k => clnt_socks[j] # sock[t]
            /\ clnt_socks' = ShiftDown(k)
       \/ /\ \A k \in Slots : k < clnt_cnt => clnt_socks[k] # sock[t]
          /\ UNCHANGED clnt_socks
    /\ clnt_cnt' = CountDown(t)
    /\ pc' = [pc EXCEPT ![t] = "close"]
    /\ UNCHANGED <<up, mutex, mainVars, sock, msg, idx, meant, netVars>>

CloseNothing(t) ==
    /\ up /\ pc[t] = "close"
    /\ pc' = [pc EXCEPT ![t] = "done"]
    /\ UNCHANGED <<up, mutex, mainVars, registry, sock, msg, idx, meant, netVars>>

\* close(clnt_sock): no effect when the descriptor is not open.
CloseSock(t) ==
    /\ up /\ pc[t] = "close"
    /\ fdOf' = [c \in Clients |-> IF fdOf[c] = sock[t] THEN NoFd ELSE fdOf[c]]
    /\ pc' = [pc EXCEPT ![t] = "done"]
    /\ UNCHANGED <<up, mutex, mainVars, registry, sock, msg, idx, meant,
                   backlog, conn, inq, outq, got, sent>>

-----------------------------------------------------------------------------
Main == Accept \/ AcceptError \/ Register \/ CreateThread

Handler(t) == \/ StartHandler(t)
              \/ ReadData(t) \/ ReadEof(t) \/ ReadError(t)
              \/ SendLock(t) \/ SendWrite(t) \/ SendUnlock(t)
              \/ Remove(t) \/ CloseSock(t)

Client(c) == Connect(c) \/ ClientSend(c) \/ ClientQuit(c) \/ ClientRecv(c)

Next == Main \/ \E c \in Clients : Handler(c) \/ Client(c)

Spec == Init /\ [][Next]_vars

\* The scheduler runs every thread that can run; a client's receiving thread
\* always returns to read.  Nobody is obliged to connect, send or quit.
Fairness == /\ WF_vars(Main)
            /\ \A c \in Clients : WF_vars(Handler(c)) /\ WF_vars(ClientRecv(c))

FairSpec == Spec /\ Fairness

-----------------------------------------------------------------------------
(* Properties.                                                             *)

ServerTypes ==
    /\ up \in BOOLEAN /\ mutex \in Clients \cup {NoOne}
    /\ clnt_sock \in FDs \cup {NoFd} /\ cur \in Clients \cup {NoOne}
    /\ clnt_cnt \in 0..MAX_CLNT /\ clnt_socks \in [Slots -> FDs \cup {NoFd}]

ThreadTypes ==
    /\ pc \in [Clients -> PCs] /\ idx \in [Clients -> Nat]
    /\ sock \in [Clients -> FDs \cup {NoFd}] /\ meant \in [Clients -> FDs \cup {NoFd}]
    /\ msg \in [Clients -> Seq(Units)]

NetTypes ==
    /\ backlog \in Seq(Clients) /\ fdOf \in [Clients -> FDs \cup {NoFd}]
    /\ conn \in [Clients -> {"idle", "open", "fin", "rst", "dead"}]
    /\ inq \in [Clients -> Seq(Units)] /\ outq \in [Clients -> Seq(Units)]
    /\ got \in [Clients -> Seq(Units)] /\ sent \in [Clients -> 0..MaxSent]

\* Type invariant of all the variables.
TypeOK == ServerTypes /\ ThreadTypes /\ NetTypes

LiveSet == {c \in Clients : pc[c] \in Live}
Filed   == 0..(clnt_cnt - 1)

\* A handler copied a descriptor other than the one main accepted for it:
\* main had accepted again and overwritten clnt_sock in between.
Misdirected ==
    \E t \in Clients : /\ pc[t] \notin {"none", "accepted", "registered", "start"}
                       /\ sock[t] # meant[t]

\* clnt_cnt counts the handlers that have registered and not yet
\* unregistered, whatever descriptors the hand-off gave them: register and
\* remove stay paired, so the count can neither go negative nor drift.
CountMatchesHandlers == clnt_cnt = Cardinality(LiveSet)

\* While no hand-off has gone wrong, the first clnt_cnt entries of clnt_socks
\* are the open descriptors of exactly the connections with a live handler,
\* each once: no broadcast reaches a closed or reused descriptor.
RegistryExact ==
    ~Misdirected =>
        /\ \A j, k \in Filed : clnt_socks[j] = clnt_socks[k] => j = k
        /\ {clnt_socks[k] : k \in Filed} = {fdOf[c] : c \in LiveSet}
        /\ \A c \in LiveSet : fdOf[c] # NoFd

\* Everything the server has put in the stream towards client r.
Stream(r) == got[r] \o outq[r]

\* Each client sees every other client's text without gap, repetition or
\* reordering from the first unit it sees of it: after a unit, the next of the
\* same sender has the next number.
StreamsIntact ==
    ~Misdirected =>
        \A r \in Clients : \A k, l \in DOMAIN Stream(r) :
            /\ k < l /\ Stream(r)[k][1] = Stream(r)[l][1]
            /\ \A m \in (k + 1)..(l - 1) : Stream(r)[m][1] # Stream(r)[k][1]
            => Stream(r)[l][2] = Stream(r)[k][2] + 1

\* Holding the mutex for a whole broadcast gives all clients one order: two
\* units that two clients both see, both see in the same order.
SameOrder ==
    ~Misdirected =>
        \A r, s \in Clients :
            \A i, j \in DOMAIN Stream(r), k, l \in DOMAIN Stream(s) :
                /\ Stream(r)[i] = Stream(s)[k]
                /\ Stream(r)[j] = Stream(s)[l]
                /\ i < j
                => k < l

\* The two together: the clients' screens agree.
StreamsAgree == StreamsIntact /\ SameOrder

\* A handler that has read something finishes its broadcast and returns to
\* read, however the others contend for the mutex and however slowly the
\* clients drain their sockets, unless the process is gone.
BroadcastCompletes ==
    \A t \in Clients :
        pc[t] = "lock" ~> (pc[t] = "read" \/ ~up \/ Misdirected)

\* A departed client's descriptor is eventually unregistered and closed.
DepartureNoticed ==
    \A c \in Clients :
        (fdOf[c] # NoFd /\ conn[c] \in {"fin", "rst", "dead"})
            ~> (fdOf[c] = NoFd \/ ~up \/ Misdirected)
=============================================================================
