------------------------------- MODULE CmplRou -------------------------------
(***************************************************************************)
(* The echo server CmplRouEchoServ_win.c of Chapter 23: the same service   *)
(* as the completion-port server's, and for the same client, by one thread *)
(* whose completion routines run while it sleeps.  The variables are those *)
(* of PortEcho: port is the queue of routines to run, handleInfo stands    *)
(* for hbInfo with its OVERLAPPED.  Receive and send share both.           *)
(***************************************************************************)
EXTENDS PortEcho

VARIABLE len      \* connection -> wsaBuf.len of its hbInfo

RouInit == Init /\ len = [c \in Clients |-> BUF_SIZE]

\* accept does not wait; a connection is accepted and armed in one turn of the loop.
RouAccept ==
    /\ backlog # <<>> /\ backlog' = Tail(backlog)
    /\ LET c == Head(backlog)
       IN  /\ handleInfo' = [handleInfo EXCEPT ![c] = "live"]
           /\ sock' = [sock EXCEPT ![c] = "open"]
           /\ len' = [len EXCEPT ![c] = BUF_SIZE]
           /\ PostRecv(c)
    /\ UNCHANGED <<main, sends, port, workers, conn, inq, outq, clients>>

\* A receive takes at most len units.
RouRecvDone(c) ==
    /\ c \in recv /\ (inq[c] # <<>> \/ conn[c] \in {"fin", "rst"})
    /\ LET n == Min({len[c], Len(inq[c])})
       IN  /\ port' = Append(port, Completion(c, "READ", SubSeq(inq[c], 1, n)))
           /\ inq' = [inq EXCEPT ![c] = SubSeq(@, n + 1, Len(@))]
    /\ recv' = recv \ {c}
    /\ UNCHANGED <<main, objects, sends, len, workers, backlog, conn, outq, clients>>

\* ReadCompRoutine frees everything at the end; len becomes the length of the echo.
\* WSASend on a connection known to be reset fails, and no routine follows.
ReadRoutineRearms(c, data) ==   \* in a changed program
    /\ sends' = [sends EXCEPT ![c] = Append(@, data)] /\ PostRecv(c)
    /\ UNCHANGED <<objects, len>>
ReadCompRoutine(c, data) ==
    /\ UNCHANGED recv
    /\ IF data = <<>>
       THEN /\ sock' = [sock EXCEPT ![c] = "closed"]
            /\ handleInfo' = [handleInfo EXCEPT ![c] = "freed"]
            /\ UNCHANGED <<sends, len>>
       ELSE /\ len' = [len EXCEPT ![c] = Len(data)]
            /\ sends' = IF conn[c] = "rst" THEN sends ELSE [sends EXCEPT ![c] = Append(@, data)]
            /\ UNCHANGED objects

\* The next receive has the length of the last echo.
WriteCompRoutine(c) == PostRecv(c) /\ UNCHANGED <<objects, sends, len>>

\* SleepEx runs the routines in the order of the completions.
SleepEx ==
    /\ port # <<>> /\ port' = Tail(port)
    /\ LET t == Head(port)
       IN  IF t.rwMode = "READ" THEN ReadCompRoutine(t.of, t.data) ELSE WriteCompRoutine(t.of)
    /\ UNCHANGED <<main, workers, net, clients>>

RouServer    == RouAccept \/ SleepEx \/ (AcceptError /\ UNCHANGED len)
RouSystem(c) == RouRecvDone(c) \/ (SendDone(c) /\ UNCHANGED len)
RouClient(c) == Client(c) /\ UNCHANGED len
RouNext      == up /\ (RouServer \/ \E c \in Clients : RouSystem(c) \/ RouClient(c))

\* The thread runs, what is posted ends, a waiting client reads.
RouProgress == up /\ \/ RouServer
                     \/ \E c \in Clients : RouSystem(c) \/ (ReadReply(c) /\ UNCHANGED len)

\* hbInfo and its OVERLAPPED are in one operation at a time, posted or completed and
\* waiting for its routine, and freed by the last one: a second would receive over
\* what is sent.  Only a call refused after a reset leaves a connection without one.
Operations(c) == Cardinality(recv \cap {c}) + Len(sends[c])
                     + Cardinality({k \in DOMAIN port : port[k].of = c})
OneOperation ==
    \A c \in Clients :
        /\ Operations(c) <= 1
        /\ Operations(c) = 1 => handleInfo[c] = "live"
        /\ sock[c] = "open" => Operations(c) = 1 \/ conn[c] = "rst"
        /\ len[c] \in 1..BUF_SIZE
=============================================================================
