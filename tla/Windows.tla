------------------------------- MODULE Windows -------------------------------
(***************************************************************************)
(* One of the Windows servers: the completion-port echo server (PortEcho), *)
(* the one with completion routines (CmplRou), the servers with events     *)
(* (AsynNoti) or the chat servers with shared arrays (WinChat).  Each      *)
(* behaviour is of one of them; the first two and the third use the same   *)
(* variables for the network and the clients.                              *)
(***************************************************************************)
EXTENDS CmplRou

CONSTANT ChatLines   \* MaxLines of the last two

VARIABLES machine,
          service, hSockArr, hEventArr, numOfClntSock, apc, i, netEvents,   \* as in AsynNoti
          signaled, recorded, enabled, told, closed,
          kind, at, k, cnt, cur, hClntSock, clntCnt, clntSocks, hMutex,     \* as in WinChat
          handle, hSock, text, unread, heard, misled, spoiled

AN == INSTANCE AsynNoti WITH MaxLines <- ChatLines
WC == INSTANCE WinChat WITH MaxLines <- ChatLines

\* Only these many clients; the names of what is not a client are theirs alone.
ASSUME ClientsAssumption ==
    /\ IsFiniteSet(Clients) /\ AN!hServSock \notin Clients
    /\ WC!Main \notin Clients /\ WC!Main # NoOne

portOnly == <<main, objects, posted, workers>>
notiOnly == <<service, hSockArr, hEventArr, numOfClntSock, apc, i, netEvents, signaled, recorded,
              enabled, told, closed>>
chatOnly == <<kind, at, k, cnt, cur, hClntSock, clntCnt, clntSocks, hMutex, handle, hSock, text,
              unread, heard, misled, spoiled>>
allVars  == <<vars, len, machine, notiOnly, chatOnly>>

OneInit ==
    /\ RouInit /\ AN!Init /\ WC!Init
    /\ machine \in {"port", "routine", "noti", "chat"}
    /\ machine = "noti" \/ service = "echo"
    /\ machine = "chat" \/ kind = "mutex"

Port(step)    == machine = "port" /\ step /\ UNCHANGED <<machine, len, notiOnly, chatOnly>>
Routine(step) == machine = "routine" /\ step /\ UNCHANGED <<machine, notiOnly, chatOnly>>
Noti(step)    == machine = "noti" /\ step /\ UNCHANGED <<machine, len, portOnly, chatOnly>>
Chat(step)    == /\ machine = "chat" /\ step
                 /\ UNCHANGED <<machine, len, accepted, objects, posted, workers, inq, outq, str_len,
                                message, notiOnly>>

OneNext == Port(Next) \/ Routine(RouNext) \/ Noti(AN!Next) \/ Chat(WC!Next)

\* Every behaviour ends: it is enough that no step of a server, of Windows or of a
\* client that reads stays possible for ever.
OneProgress == \/ Port(Progress) \/ Routine(RouProgress)
               \/ Noti(AN!Progress) \/ Chat(WC!Progress)
OneSpec == OneInit /\ [][OneNext]_allVars /\ WF_allVars(OneProgress)

Echoing == machine \in {"port", "routine"}

\* Of PortEcho and CmplRou: a connection has one receive, or one operation, at a
\* time, whichever thread or routine handles it.
OneRead == (Echoing => TypeOK) /\ (machine = "port" => OneReceive)
               /\ (machine = "routine" => OneOperation)

\* A line comes back whole and in order, for both.
LineIntact == Echoing => EchoIntact

\* A line comes back and a client that left is closed and freed, for both.
EchoServes == Echoing => EchoReturns /\ DepartureNoticed

\* Of AsynNoti: a socket and its event stay at one index; clients are served.
PairsExact == AN!PairsExact
NotiServes == machine = "noti" => AN!NotiServes

\* Of WinChat: clntSocks is exact, no line is sent twice, and clients that left are
\* removed, each with the exceptions stated there.
SocksExact == WC!SocksExact
SentOnce   == WC!SentOnce
LeaverRemoved == machine = "chat" => WC!LeaverRemoved
=============================================================================
