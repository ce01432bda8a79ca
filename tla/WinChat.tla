------------------------------- MODULE WinChat -------------------------------
(***************************************************************************)
(* The Windows chat servers: chat_serv_win.c of Chapter 20, with a thread  *)
(* per client and a mutex around clntSocks and clntCnt, and                *)
(* 06_IOCP_chat_serv_win.c of Chapter 23, whose workers take completed     *)
(* receives from a port and share the two with main without a lock.  A     *)
(* worker that handles a receive of c is here the task c: a connection has *)
(* one receive at a time, and there are processors enough.                 *)
(***************************************************************************)
EXTENDS Integers, Sequences, FiniteSets, SequencesExt

CONSTANTS
    Clients, NoOne,
    Writers,      \* bound: the clients that write; all can connect and leave
    MaxLines      \* bound: lines a client writes, each read in one piece

VARIABLES
    up,           \* the server process is running
    kind,         \* "mutex" or "port"
    at, k, cnt,   \* thread -> where it is, its index, the clntCnt it has loaded
    cur, hClntSock,        \* the connection main works on; its variable, or NoOne
    clntCnt, clntSocks, hMutex,
    handle,       \* client -> the socket the server has for it, or None
    hSock, text,  \* task -> its own copy of a socket; whose line it broadcasts
    backlog, conn, unread, lines,   \* the listen queue; connections; lines unread, written
    heard,        \* client -> the writers of the lines it was sent
    misled,       \* a thread has copied another socket than it was started for
    spoiled       \* clntSocks may be wrong: see Lock and Shift

main     == <<cur, hClntSock>>
registry == <<clntCnt, clntSocks>>
tasks    == <<at, k, cnt, hSock, text>>
peers    == <<backlog, conn, unread, lines>>
ghosts   == <<misled, spoiled>>
vars == <<up, kind, main, registry, hMutex, handle, tasks, peers, heard, ghosts>>

Main    == "main"
Threads == Clients \cup {Main}
None    == 0
Handles == 1..Cardinality(Clients)   \* of accepted sockets; used again once closed
Indices == 0..Cardinality(Clients) + 1        \* MAX_CLNT, CLNT_SIZE: never reached

Init ==
    /\ up = TRUE /\ kind \in {"mutex", "port"}
    /\ at = [t \in Threads |-> IF t = Main THEN "accept" ELSE "none"]
    /\ k = [t \in Threads |-> 0] /\ cnt = k
    /\ cur = NoOne /\ hClntSock = None
    /\ clntCnt = 0 /\ clntSocks = [n \in Indices |-> None] /\ hMutex = NoOne
    /\ handle = [c \in Clients |-> None] /\ hSock = handle
    /\ text = [c \in Clients |-> NoOne]
    /\ backlog = <<>> /\ conn = [c \in Clients |-> "idle"]
    /\ unread = [c \in Clients |-> 0] /\ lines = unread
    /\ heard = [c \in Clients |-> <<>>] /\ misled = FALSE /\ spoiled = FALSE

Go(t, where)   == at' = [at EXCEPT ![t] = where]
Behind(h)      == {c \in Clients : handle[c] = h /\ h # None}
\* A receive on a connection known to be reset fails, and no completion follows.
Repost(c) == Go(c, IF conn[c] = "rst" /\ unread[c] = 0 THEN "stuck" ELSE "recv")

-----------------------------------------------------------------------------
(* The clients: chat_clnt_win.c of Chapters 20, 21 and 23.                 *)

Connect(c) ==
    /\ conn[c] = "idle"
    /\ conn' = [conn EXCEPT ![c] = "open"] /\ backlog' = Append(backlog, c)
    /\ UNCHANGED <<up, kind, main, registry, hMutex, handle, tasks, unread, lines, heard, ghosts>>

SendMsg(c) ==
    /\ c \in Writers /\ conn[c] \in {"open", "full"} /\ lines[c] < MaxLines
    /\ lines' = [lines EXCEPT ![c] = @ + 1] /\ unread' = [unread EXCEPT ![c] = @ + 1]
    /\ UNCHANGED <<up, kind, main, registry, hMutex, handle, tasks, backlog, conn, heard, ghosts>>

\* RecvMsg reads on, and what the server sends has room again.
RecvMsg(c) ==
    /\ conn[c] = "full" /\ conn' = [conn EXCEPT ![c] = "open"]
    /\ UNCHANGED <<up, kind, main, registry, hMutex, handle, tasks, backlog, unread, lines, heard,
                   ghosts>>

\* "q", or an error of RecvMsg: a reset if something was not read.
Leave(c) ==
    /\ conn[c] \in {"open", "full"}
    /\ \E s \in {"fin", "rst"} : /\ conn[c] = "full" => s = "rst"
                                 /\ conn' = [conn EXCEPT ![c] = s]
    /\ UNCHANGED <<up, kind, main, registry, hMutex, handle, tasks, backlog, unread, lines, heard,
                   ghosts>>

-----------------------------------------------------------------------------
(* main.                                                                   *)

Accept ==
    /\ at[Main] = "accept" /\ backlog # <<>>
    /\ cur' = Head(backlog) /\ backlog' = Tail(backlog)
    /\ \E h \in Handles : /\ Behind(h) = {}
                          /\ hClntSock' = h /\ handle' = [handle EXCEPT ![cur'] = h]
    /\ Go(Main, "lock")
    /\ UNCHANGED <<up, kind, registry, hMutex, k, cnt, hSock, text, conn, unread, lines, heard,
                   ghosts>>

\* ErrorHandling ends the process.
AcceptError ==
    /\ at[Main] = "accept" /\ backlog # <<>>
    /\ up' = FALSE
    /\ UNCHANGED <<kind, main, registry, hMutex, handle, tasks, peers, heard, ghosts>>

File ==
    /\ at[Main] = "file"
    /\ clntSocks' = [clntSocks EXCEPT ![clntCnt] = hClntSock]
    /\ Go(Main, "load")
    /\ UNCHANGED <<up, kind, main, clntCnt, hMutex, handle, k, cnt, hSock, text, peers, heard,
                   ghosts>>

\* _beginthreadex with the address of hClntSock, or the first WSARecv.
Start ==
    /\ at[Main] = "start"
    /\ at' = [at EXCEPT ![Main] = "accept", ![cur] = IF kind = "mutex" THEN "copy" ELSE "recv"]
    /\ hSock' = [hSock EXCEPT ![cur] = IF kind = "mutex" THEN @ ELSE hClntSock]
    /\ UNCHANGED <<up, kind, main, registry, hMutex, handle, k, cnt, text, peers, heard, ghosts>>

-----------------------------------------------------------------------------
(* The shared variables.                                                   *)

Changing(t) == at[t] \in {"file", "scan", "shift", "load", "store"}
Reading(t)  == at[t] = "send"

\* The port server has no lock: from the moment one thread changes what another
\* reads or changes, nothing is known of it.
Meets(t) ==
    /\ kind = "port"
    /\ \/ \E u \in Threads : Changing(u)
       \/ (t = Main \/ at[t] = "leave") /\ \E u \in Threads : Reading(u)

LockNothing(t) ==   \* in a changed program
    /\ at[t] \in {"lock", "leave"} /\ hMutex = NoOne
    /\ UNCHANGED hMutex
    /\ Go(t, IF t = Main THEN "file" ELSE IF at[t] = "lock" THEN "send" ELSE "scan")
    /\ k' = [k EXCEPT ![t] = 0]
    /\ spoiled' = (spoiled \/ Meets(t))
    /\ UNCHANGED <<up, kind, main, registry, handle, cnt, hSock, text, peers, heard, misled>>

\* WaitForSingleObject, where there is a mutex.
Lock(t) ==
    /\ at[t] \in {"lock", "leave"} /\ hMutex = NoOne
    /\ hMutex' = IF kind = "mutex" THEN t ELSE NoOne
    /\ Go(t, IF t = Main THEN "file" ELSE IF at[t] = "lock" THEN "send" ELSE "scan")
    /\ k' = [k EXCEPT ![t] = 0]
    /\ spoiled' = (spoiled \/ Meets(t))
    /\ UNCHANGED <<up, kind, main, registry, handle, cnt, hSock, text, peers, heard, misled>>

\* clntCnt++ and clntCnt--, each a load and a store.
Load(t) ==
    /\ at[t] = "load" /\ cnt' = [cnt EXCEPT ![t] = clntCnt] /\ Go(t, "store")
    /\ UNCHANGED <<up, kind, main, registry, hMutex, handle, k, hSock, text, peers, heard, ghosts>>

StoreLocked(t) ==   \* in a changed program
    /\ at[t] = "store"
    /\ clntCnt' = cnt[t] + (IF t = Main THEN 1 ELSE -1)
    /\ Go(t, IF t = Main THEN "start" ELSE "close") /\ hMutex' = IF t = Main THEN NoOne ELSE hMutex
    /\ UNCHANGED <<up, kind, main, clntSocks, handle, k, cnt, hSock, text, peers, heard, ghosts>>

\* The mutex is released after it.
Store(t) ==
    /\ at[t] = "store"
    /\ clntCnt' = cnt[t] + (IF t = Main THEN 1 ELSE -1)
    /\ Go(t, IF t = Main THEN "start" ELSE "close") /\ hMutex' = NoOne
    /\ UNCHANGED <<up, kind, main, clntSocks, handle, k, cnt, hSock, text, peers, heard, ghosts>>

-----------------------------------------------------------------------------
(* HandleClnt and SendMsg, or a worker in EchoThreadMain.                  *)

Copy(t) ==
    /\ at[t] = "copy" /\ hSock' = [hSock EXCEPT ![t] = hClntSock] /\ Go(t, "recv")
    /\ misled' = (misled \/ hClntSock # handle[t])
    /\ UNCHANGED <<up, kind, main, registry, hMutex, handle, k, cnt, text, peers, heard, spoiled>>

\* The end is 0 for both; a reset is -1 for HandleClnt, which then sends nothing to
\* all, again and again, as it does for a closed socket; a completed receive of the
\* port has no bytes then.
Recv(t) ==
    /\ at[t] = "recv"
    /\ \/ \E c \in Behind(hSock[t]) :
            \/ /\ unread[c] > 0
               /\ unread' = [unread EXCEPT ![c] = @ - 1] /\ text' = [text EXCEPT ![t] = c]
               /\ Go(t, "lock")
            \/ /\ unread[c] = 0 /\ conn[c] \in {"fin", "rst"}
               /\ Go(t, IF conn[c] = "rst" /\ kind = "mutex" THEN "stuck" ELSE "leave")
               /\ UNCHANGED <<unread, text>>
       \/ Behind(hSock[t]) = {} /\ Go(t, "stuck") /\ UNCHANGED <<unread, text>>
    /\ UNCHANGED <<up, kind, main, registry, hMutex, handle, k, cnt, hSock, backlog, conn, lines,
                   heard, ghosts>>

\* One send of the loop, which waits for a client whose buffers are full and may
\* fill them.  To a client that has reset its connection, or a closed socket, it
\* fails; from one that has only closed its end a reset comes back, sooner or later
\* (later than its end is noticed is as good as never), and what it sent may be lost.
Answers(state) == CASE state = "open" -> "full" [] state = "fin" -> "rst" [] OTHER -> state
Send(t) ==
    /\ at[t] = "send" /\ k[t] < clntCnt /\ k' = [k EXCEPT ![t] = @ + 1]
    /\ LET R == Behind(clntSocks[k[t]])
       IN  /\ \A r \in R : conn[r] # "full"
           /\ heard' = [r \in Clients |-> IF r \in R /\ conn[r] = "open"
                                          THEN Append(heard[r], text[t]) ELSE heard[r]]
           /\ \E changed \in SUBSET R : \E lost \in SUBSET {r \in changed : conn[r] = "fin"} :
                 /\ conn' = [r \in Clients |-> IF r \in changed THEN Answers(conn[r]) ELSE conn[r]]
                 /\ unread' = [r \in Clients |-> IF r \in lost THEN 0 ELSE unread[r]]
    /\ UNCHANGED <<up, kind, main, registry, hMutex, handle, at, cnt, hSock, text, backlog, lines,
                   ghosts>>

Sent(t) ==
    /\ at[t] = "send" /\ k[t] >= clntCnt
    /\ hMutex' = NoOne /\ IF kind = "mutex" THEN Go(t, "recv") ELSE Repost(t)
    /\ text' = [text EXCEPT ![t] = NoOne]
    /\ UNCHANGED <<up, kind, main, registry, handle, k, cnt, hSock, peers, heard, ghosts>>

ScanFails(t) ==   \* in a changed program
    /\ at[t] = "scan" /\ Go(t, "load")
    /\ UNCHANGED <<up, kind, main, registry, hMutex, handle, k, cnt, hSock, text, peers, heard,
                   ghosts>>

\* The search for the entry.
Scan(t) ==
    /\ at[t] = "scan"
    /\ IF k[t] >= clntCnt THEN Go(t, "load") /\ UNCHANGED k
       ELSE IF clntSocks[k[t]] = hSock[t] THEN Go(t, "shift") /\ UNCHANGED k
       ELSE k' = [k EXCEPT ![t] = @ + 1] /\ UNCHANGED at
    /\ UNCHANGED <<up, kind, main, registry, hMutex, handle, cnt, hSock, text, peers, heard, ghosts>>

\* The entries behind it: chat_serv_win.c copies one of them only, over and over.
Shift(t) ==
    /\ at[t] = "shift"
    /\ IF kind = "mutex"
       THEN /\ clntSocks' = [clntSocks EXCEPT ![k[t]] = IF k[t] < clntCnt - 1 THEN clntSocks[k[t] + 1]
                                                        ELSE @]
            /\ spoiled' = (spoiled \/ k[t] < clntCnt - 2)
            /\ Go(t, "load") /\ UNCHANGED k
       ELSE /\ IF k[t] >= clntCnt THEN Go(t, "load") /\ UNCHANGED <<clntSocks, k>>
               ELSE /\ clntSocks' = [clntSocks EXCEPT ![k[t]] = clntSocks[k[t] + 1]]
                    /\ k' = [k EXCEPT ![t] = @ + 1] /\ UNCHANGED at
            /\ UNCHANGED spoiled
    /\ UNCHANGED <<up, kind, main, clntCnt, hMutex, handle, cnt, hSock, text, peers, heard, misled>>

Close(t) ==
    /\ at[t] = "close" /\ Go(t, "done")
    /\ handle' = [c \in Clients |-> IF c \in Behind(hSock[t]) THEN None ELSE handle[c]]
    /\ UNCHANGED <<up, kind, main, registry, hMutex, k, cnt, hSock, text, peers, heard, ghosts>>

-----------------------------------------------------------------------------
MainThread == Accept \/ AcceptError \/ File \/ Start
Task(t)    == Copy(t) \/ Recv(t) \/ Send(t) \/ Sent(t) \/ Scan(t) \/ Shift(t) \/ Close(t)
Server     == MainThread \/ (\E t \in Clients : Task(t))
              \/ \E t \in Threads : Lock(t) \/ Load(t) \/ Store(t)
Client(c)  == Connect(c) \/ SendMsg(c) \/ RecvMsg(c) \/ Leave(c)
Next       == up /\ (Server \/ \E c \in Clients : Client(c))

\* Every thread runs, and clients read what came.
Progress == up /\ (Server \/ \E c \in Clients : RecvMsg(c))
Spec == Init /\ [][Next]_vars /\ WF_vars(Progress)

-----------------------------------------------------------------------------
(* Properties.                                                             *)

\* The connections filed and not yet removed.
Members == {c \in Clients : at[c] \in {"copy", "recv", "lock", "send", "leave", "stuck"}}
               \cup (IF at[Main] = "start" THEN {cur} ELSE {})
Filed   == 0..clntCnt - 1

\* Between the changes, clntSocks holds the open sockets of the members, each once,
\* until a thread has got another's socket, two threads met in the port server, or
\* chat_serv_win.c has removed an entry with two or more behind it.
SocksExact ==
    ~misled /\ ~spoiled /\ (\A t \in Threads : ~Changing(t)) =>
        /\ {clntSocks[n] : n \in Filed} = {handle[c] : c \in Members}
        /\ clntCnt = Cardinality(Members) /\ \A c \in Members : handle[c] # None

\* The lines of s that r was sent.
Heard(r, s) == Cardinality({n \in DOMAIN heard[r] : heard[r][n] = s})

\* No line is sent twice to a client, nor to one whose socket took the place of
\* another in clntSocks during the broadcast, with the same exceptions.
SentOnce == ~misled /\ ~spoiled => \A r, s \in Clients : Heard(r, s) <= lines[s]

\* "Delete the client that disconnected": the others stay in clntSocks.
OthersStay ==
    kind = "mutex" /\ ~misled /\ (\A t \in Threads : ~Changing(t)) =>
        \A c \in Members : handle[c] \in {clntSocks[n] : n \in Filed}

\* A client that closed its connection is removed, and its socket closed, unless its
\* thread got another's socket - or somebody's line was sent to it before its end was
\* noticed: the reset that comes back is -1 for HandleClnt, which goes on for ever,
\* and nothing at all for a worker whose receive it refuses.
LeaverRemoved ==
    \A c \in Clients :
        conn[c] = "fin" ~> at[c] = "done" \/ (conn[c] = "rst" /\ at[c] = "stuck") \/ misled \/ ~up

\* What the comment says of the end of HandleClnt: the client that has disconnected
\* is deleted.
LeaverDeleted ==
    kind = "mutex" => \A c \in Clients : conn[c] = "fin" ~> at[c] = "done" \/ misled \/ ~up
=============================================================================
