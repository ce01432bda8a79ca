------------------------------- MODULE AsynNoti -------------------------------
(***************************************************************************)
(* The asynchronous-notification servers of Chapter 21, the echo server    *)
(* and the chat server: one thread waits for the events in hEventArr, and  *)
(* scans on from the first signaled one, accepting, receiving and closing; *)
(* hSockArr and hEventArr are compacted under the scan.  Windows records   *)
(* what happens on a socket until the server enumerates it.                *)
(***************************************************************************)
EXTENDS Integers, Sequences, FiniteSets

CONSTANTS
    Clients, NoOne,
    BUF_SIZE,     \* most units one recv takes
    Writers,      \* bound: the clients that write; all can connect and leave
    MaxLine,      \* bound: units in a line
    MaxLines      \* bound: lines a client writes

VARIABLES
    service,              \* "echo" or "chat"
    hSockArr, hEventArr,  \* index -> the socket, the owner of the event
    numOfClntSock,
    apc, i,               \* where the thread is; the loop index of the scan
    netEvents,            \* what it enumerated for hSockArr[i]
    signaled,             \* the owners of signaled events
    recorded,             \* socket -> what Windows has recorded for it
    enabled,              \* sockets whose next data is recorded
    told,                 \* the ends that were recorded, each with its socket
    closed,               \* clients whose socket the server has closed
    backlog, conn, inq, outq, \* the listen queue; server's ends; units on their way
    str_len, message, lines   \* the client's locals; lines written so far

arrays == <<hSockArr, hEventArr, numOfClntSock>>
thread == <<apc, i, netEvents>>
events == <<signaled, recorded, enabled, told>>
net    == <<conn, inq, outq>>
clients == <<str_len, message, lines>>
vars == <<service, arrays, thread, events, closed, backlog, net, clients>>

hServSock == "hServSock"
Sockets   == Clients \cup {hServSock}
Indices   == 0..Cardinality(Clients) + 1   \* WSA_MAXIMUM_WAIT_EVENTS, never reached
Filled    == 0..numOfClntSock - 1

Init ==
    /\ service \in {"echo", "chat"}
    /\ hSockArr = [k \in Indices |-> IF k = 0 THEN hServSock ELSE NoOne] /\ hEventArr = hSockArr
    /\ numOfClntSock = 1 /\ apc = "wait" /\ i = 0 /\ netEvents = {}
    /\ signaled = {} /\ recorded = [s \in Sockets |-> {}] /\ enabled = {} /\ told = {}
    /\ closed = {} /\ backlog = <<>> /\ conn = [c \in Clients |-> "idle"]
    /\ inq = [c \in Clients |-> <<>>] /\ outq = [c \in Clients |-> <<>>]
    /\ str_len = [c \in Clients |-> 0] /\ message = [c \in Clients |-> <<>>]
    /\ lines = [c \in Clients |-> 0]

-----------------------------------------------------------------------------
(* Windows.                                                                *)

\* The event of socket s is the one that WSAEventSelect got.
Watched(c) == c \notin closed /\ \E k \in Filled : hSockArr[k] = c
Record(s, what) == /\ recorded' = [recorded EXCEPT ![s] = @ \cup {what}]
                   /\ signaled' = signaled \cup {s}

\* Data is recorded once, until the next recv.
DataArrives(c) ==
    /\ Watched(c) /\ c \in enabled /\ inq[c] # <<>>
    /\ Record(c, "FD_READ") /\ enabled' = enabled \ {c}
    /\ UNCHANGED <<service, arrays, thread, told, closed, backlog, net, clients>>

\* The end of a connection is recorded once, and once more with an error if a reset
\* comes after it; it need not wait until the data has been read.
End(c) == IF conn[c] = "fin" THEN "FD_CLOSE" ELSE "error"
EndArrives(c) ==
    /\ Watched(c) /\ conn[c] \in {"fin", "rst"} /\ <<c, End(c)>> \notin told
    /\ Record(c, End(c)) /\ told' = told \cup {<<c, End(c)>>}
    /\ UNCHANGED <<service, arrays, thread, enabled, closed, backlog, net, clients>>

-----------------------------------------------------------------------------
(* The clients: echo_client_win.c waits for its line, chat_clnt_win.c not. *)

Waiting(c) == service = "echo" /\ conn[c] = "open" /\ Len(message[c]) < str_len[c]

\* A connection that waits for accept is recorded, if none was since the last.
Connect(c) ==
    /\ conn[c] = "idle"
    /\ conn' = [conn EXCEPT ![c] = "open"]
    /\ backlog' = Append(backlog, c)
    /\ IF backlog = <<>> THEN Record(hServSock, "FD_ACCEPT") ELSE UNCHANGED <<recorded, signaled>>
    /\ UNCHANGED <<service, arrays, thread, enabled, told, closed, inq, outq, clients>>

SendLine(c) ==
    /\ c \in Writers /\ conn[c] = "open" /\ ~Waiting(c) /\ lines[c] < MaxLines
    /\ \E n \in 1..MaxLine :
         /\ str_len' = [str_len EXCEPT ![c] = n]
         /\ inq' = [inq EXCEPT ![c] = @ \o [k \in 1..n |-> k]]
    /\ message' = [message EXCEPT ![c] = <<>>]
    /\ lines' = [lines EXCEPT ![c] = @ + 1]
    /\ UNCHANGED <<service, arrays, thread, events, closed, backlog, conn, outq>>

ReadReply(c) ==
    /\ conn[c] = "open" /\ outq[c] # <<>>
    /\ message' = [message EXCEPT ![c] = IF service = "echo" THEN @ \o outq[c] ELSE @]
    /\ outq' = [outq EXCEPT ![c] = <<>>]
    /\ UNCHANGED <<service, arrays, thread, events, closed, backlog, conn, inq, str_len, lines>>

\* A reset if something was not read; it may throw away what was on its way.
Leave(c) ==
    /\ conn[c] = "open"
    /\ conn' = [conn EXCEPT ![c] = IF outq[c] = <<>> THEN "fin" ELSE "rst"]
    /\ outq' = [outq EXCEPT ![c] = <<>>]
    /\ inq' \in IF outq[c] = <<>> THEN {inq} ELSE {inq, [inq EXCEPT ![c] = <<>>]}
    /\ UNCHANGED <<service, arrays, thread, events, closed, backlog, clients>>

-----------------------------------------------------------------------------
(* The server.                                                             *)

WaitPast ==   \* in a changed program
    /\ apc = "wait"
    /\ \E k \in Filled : /\ hEventArr[k] \in signaled
                         /\ \A j \in 0..k - 1 : hEventArr[j] \notin signaled
                         /\ i' = k + 1
    /\ apc' = "scan"
    /\ UNCHANGED <<service, arrays, netEvents, events, closed, backlog, net, clients>>

\* WSAWaitForMultipleEvents over the array: the first signaled event.
Wait ==
    /\ apc = "wait"
    /\ \E k \in Filled : /\ hEventArr[k] \in signaled
                         /\ \A j \in 0..k - 1 : hEventArr[j] \notin signaled
                         /\ i' = k
    /\ apc' = "scan"
    /\ UNCHANGED <<service, arrays, netEvents, events, closed, backlog, net, clients>>

\* The scan ends, or the event at i is not signaled.
Skip ==
    /\ apc = "scan"
    /\ IF i >= numOfClntSock THEN apc' = "wait" /\ UNCHANGED i
       ELSE hEventArr[i] \notin signaled /\ i' = i + 1 /\ UNCHANGED apc
    /\ UNCHANGED <<service, arrays, netEvents, events, closed, backlog, net, clients>>

\* WSAEnumNetworkEvents takes the record of the socket and resets the event.
Enumerate ==
    /\ apc = "scan" /\ i < numOfClntSock /\ hEventArr[i] \in signaled
    /\ netEvents' = recorded[hSockArr[i]]
    /\ recorded' = [recorded EXCEPT ![hSockArr[i]] = {}]
    /\ signaled' = signaled \ {hEventArr[i]}
    /\ apc' = "accept"
    /\ UNCHANGED <<service, arrays, i, enabled, told, closed, backlog, net, clients>>

Accept ==
    /\ apc = "accept" /\ apc' = "read"
    /\ IF "FD_ACCEPT" \notin netEvents
       THEN UNCHANGED <<arrays, signaled, recorded, enabled, backlog>>
       ELSE LET c == Head(backlog)
            IN  /\ hEventArr' = [hEventArr EXCEPT ![numOfClntSock] = c]
                /\ hSockArr' = [hSockArr EXCEPT ![numOfClntSock] = c]
                /\ numOfClntSock' = numOfClntSock + 1
                /\ enabled' = enabled \cup {c} /\ backlog' = Tail(backlog)
                /\ IF Len(backlog) > 1 THEN Record(hServSock, "FD_ACCEPT")
                   ELSE UNCHANGED <<recorded, signaled>>
    /\ UNCHANGED <<service, i, netEvents, told, closed, net, clients>>

\* accept fails: ErrorHandling ends the process.  (An error code for FD_ACCEPT or
\* FD_READ says that the network is down, which is left out.)
AcceptError ==
    /\ apc = "accept" /\ "FD_ACCEPT" \in netEvents /\ apc' = "ended"
    /\ UNCHANGED <<service, arrays, i, netEvents, events, closed, backlog, net, clients>>

\* What is sent goes back, or to every socket in the array (to listen on and to
\* closed ones it fails).  A client that has closed its end answers with a reset,
\* sooner or later (later than its end is enumerated is as good as never), and what
\* it sent may be lost.  The socket may be recorded again.
Receivers(c) == IF service = "echo" THEN {c} ELSE {hSockArr[j] : j \in Filled} \cap Clients
Receive ==
    /\ apc = "read" /\ apc' = "close"
    /\ LET c == hSockArr[i]
       IN  IF "FD_READ" \notin netEvents THEN UNCHANGED <<enabled, net>>
           ELSE /\ enabled' = enabled \cup {c}
                /\ \E n \in 0..BUF_SIZE :
                   \E reset \in SUBSET {r \in Receivers(c) \ closed : conn[r] = "fin" /\ n > 0} :
                   \E lost \in SUBSET reset :
                      /\ n <= Len(inq[c]) /\ (n = 0 => inq[c] = <<>>)
                      /\ conn' = [r \in Clients |-> IF r \in reset THEN "rst" ELSE conn[r]]
                      /\ inq' = [r \in Clients |-> IF r \in lost THEN <<>>
                                    ELSE IF r = c THEN SubSeq(inq[c], n + 1, Len(inq[c]))
                                    ELSE inq[r]]
                      /\ outq' = [r \in Clients |->
                                     IF r \in Receivers(c) /\ conn[r] = "open" /\ r \notin closed
                                     THEN outq[r] \o SubSeq(inq[c], 1, n) ELSE outq[r]]
    /\ UNCHANGED <<service, arrays, i, netEvents, signaled, recorded, told, closed, backlog, clients>>

\* CompressSockets and CompressEvents.
Compress(arr, idx, total) == [k \in Indices |-> IF k \in idx..total - 1 THEN arr[k + 1] ELSE arr[k]]
CompressTwice(arr, idx, total) == Compress(arr, idx + 1, total)   \* in a changed program

CompressSockets(arr, idx, total) == Compress(arr, idx, total)
CompressEvents(arr, idx, total)  == Compress(arr, idx, total)

\* An error leaves the loop, and the socket stays; the next index is skipped after
\* a removal, as the scan goes on.
Close ==
    /\ apc = "close" /\ netEvents' = {}
    /\ IF "error" \in netEvents THEN apc' = "wait" /\ UNCHANGED <<arrays, i, signaled, closed>>
       ELSE /\ apc' = "scan" /\ i' = i + 1
            /\ IF "FD_CLOSE" \notin netEvents THEN UNCHANGED <<arrays, signaled, closed>>
               ELSE /\ closed' = closed \cup {hSockArr[i]}
                    /\ signaled' = signaled \ {hEventArr[i]}
                    /\ numOfClntSock' = numOfClntSock - 1
                    /\ hSockArr' = CompressSockets(hSockArr, i, numOfClntSock - 1)
                    /\ hEventArr' = CompressEvents(hEventArr, i, numOfClntSock - 1)
    /\ UNCHANGED <<service, recorded, enabled, told, backlog, net, clients>>

Server    == Wait \/ Skip \/ Enumerate \/ Accept \/ AcceptError \/ Receive \/ Close
System(c) == DataArrives(c) \/ EndArrives(c)
Client(c) == Connect(c) \/ SendLine(c) \/ ReadReply(c) \/ Leave(c)
Next == Server \/ \E c \in Clients : System(c) \/ Client(c)

\* The thread runs, Windows reports, and clients read what came.
Progress == Server \/ \E c \in Clients : System(c) \/ ReadReply(c)
Spec == Init /\ [][Next]_vars /\ WF_vars(Progress)

-----------------------------------------------------------------------------
(* Properties.                                                             *)

\* While the arrays are compacted under the scan, a socket and its event stay at
\* one index, each once, and no closed one is kept: the sockets are the listening
\* one and those accepted and not closed.
PairsExact ==
    /\ \A k \in Filled : hSockArr[k] = hEventArr[k] /\ hSockArr[k] \notin closed
    /\ \A j, k \in Filled : hSockArr[j] = hSockArr[k] => j = k
    /\ hServSock \in {hSockArr[k] : k \in Filled}

\* A client of the echo server gets its line back, unless accept has failed.  A client
\* that has closed its connection is taken off the arrays, although the scan skips an
\* index after a removal and stops at an error, unless something was sent to it after
\* it left: then the close it is told of has an error, and the loop leaves it there.
NotiServes ==
    /\ \A c \in Clients : Waiting(c) ~> ~Waiting(c) \/ apc = "ended"
    /\ \A c \in Clients : (Watched(c) /\ conn[c] = "fin")
                            ~> c \in closed \/ <<c, "error">> \in told \/ apc = "ended"
=============================================================================
