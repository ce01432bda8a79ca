------------------------------- MODULE ForkEcho -------------------------------
(***************************************************************************)
(* The process-per-client echo servers: echo_mpserv.c of Chapter 10 and    *)
(* echo_storeserv.c of Chapter 11, which also keeps a log, with the client *)
(* echo_mpclient.c, whose child process writes while the parent reads.     *)
(*                                                                         *)
(* Main accepts, forks and closes its copy of the descriptor; the child    *)
(* echoes until end of file.  A descriptor table is copied by fork, so a   *)
(* connection ends only when every process that has a copy has closed it.  *)
(* SIGCHLD interrupts main anywhere; signals that arrive while one is      *)
(* pending are merged, and the handler collects one child per signal.      *)
(***************************************************************************)
EXTENDS Integers, Sequences, FiniteSets, SequencesExt

CONSTANTS
    Clients,     \* connections; a connection's child has its name
    Main, Logger,
    BUF_SIZE,    \* most units one read returns
    PipeCap,     \* units the pipe holds
    SockBuf,     \* units a client's connection holds unread
    LogReads,    \* how often the logger reads before it ends
    MaxSent,     \* bound: units a client writes,
    Brief        \* but one by these; the others may be interrupted

ASSUME NamesAssumption == Main # Logger /\ {Main, Logger} \cap Clients = {}
ASSUME SizesAssumption == /\ BUF_SIZE \in Nat \ {0} /\ BUF_SIZE <= PipeCap /\ BUF_SIZE <= SockBuf
                          /\ {PipeCap, SockBuf, LogReads, MaxSent} \subseteq Nat

VARIABLES
    store,       \* echo_storeserv runs; never changes
    cur,         \* the connection main is between accept and close for, or Main
    forked,      \* main has called fork for it
    holders,     \* per connection: the processes with a descriptor for it
    backlog,     \* the listen queue
    proc,        \* state of the children and of the logger
    buf,         \* a child's buffer: read and not written yet
    pending,     \* SIGCHLD is pending for main
    merged,      \* ghost: a SIGCHLD came while one was pending
    pipe, log, reads,           \* the pipe, the file, the logger's i
    conn,        \* the client's direction: idle, open, fin, rst or dead
    ended,       \* the server's direction as the client sees it: no, eof, reset
    inq, outq,   \* units arrived at the server and unread; on the way back
    got, sent    \* units the client has displayed; how many it has written

mainVars == <<cur, forked, pending, merged>>
logVars  == <<pipe, log, reads>>
netVars  == <<backlog, conn, ended, inq, outq>>
clntVars == <<got, sent>>
vars == <<store, mainVars, holders, proc, buf, logVars, netVars, clntVars>>

Procs == Clients \cup {Logger}

Init ==
    /\ store \in BOOLEAN /\ cur = Main /\ forked = FALSE
    /\ pending = FALSE /\ merged = FALSE
    /\ holders = [c \in Clients |-> {}] /\ backlog = <<>>
    /\ proc = [p \in Procs |-> IF p = Logger /\ store THEN "read" ELSE "none"]
    /\ buf = [c \in Clients |-> <<>>]
    /\ pipe = <<>> /\ log = <<>> /\ reads = 0
    /\ conn = [c \in Clients |-> "idle"] /\ ended = [c \in Clients |-> "no"]
    /\ inq = [c \in Clients |-> <<>>] /\ outq = [c \in Clients |-> <<>>]
    /\ got = [c \in Clients |-> <<>>] /\ sent = [c \in Clients |-> 0]

-----------------------------------------------------------------------------
(* The client: echo_mpclient.c.                                            *)

Connect(c) ==
    /\ conn[c] = "idle"
    /\ conn' = [conn EXCEPT ![c] = "open"]
    /\ backlog' = Append(backlog, c)
    /\ UNCHANGED <<store, mainVars, holders, proc, buf, logVars, ended, inq, outq, clntVars>>

\* write_routine: a line.
Write(c) ==
    /\ conn[c] = "open" /\ ended[c] = "no" /\ sent[c] < MaxSent
    /\ c \in Brief => sent[c] = 0
    /\ sent' = [sent EXCEPT ![c] = @ + 1]
    /\ inq' = [inq EXCEPT ![c] = Append(@, <<c, sent[c] + 1>>)]
    /\ UNCHANGED <<store, mainVars, holders, proc, buf, logVars, backlog, conn, ended, outq, got>>

\* write_routine: "q" shuts the writing direction only.
ShutWr(c) ==
    /\ conn[c] = "open"
    /\ conn' = [conn EXCEPT ![c] = "fin"]
    /\ UNCHANGED <<store, mainVars, holders, proc, buf, logVars, backlog, ended, inq, outq, clntVars>>

\* read_routine: display what has arrived; it goes on until end of file.
Read(c) ==
    /\ conn[c] \in {"open", "fin"} /\ outq[c] # <<>>
    /\ got' = [got EXCEPT ![c] = @ \o outq[c]]
    /\ outq' = [outq EXCEPT ![c] = <<>>]
    /\ UNCHANGED <<store, mainVars, holders, proc, buf, logVars, backlog, conn, ended, inq, sent>>

\* The user interrupts both processes: the connection is reset.
Killed(c) ==
    /\ c \notin Brief
    /\ conn[c] \in {"open", "fin"} /\ ended[c] = "no"
    /\ conn' = [conn EXCEPT ![c] = "rst"]
    /\ outq' = [outq EXCEPT ![c] = <<>>]
    /\ UNCHANGED <<store, mainVars, holders, proc, buf, logVars, backlog, ended, inq, clntVars>>

-----------------------------------------------------------------------------
(* Main.                                                                   *)

\* What the client of d sees once the processes in gone have closed d: the
\* last close ends the connection, by a reset if there is unread data.
EndedBy(gone) ==
    [d \in Clients |-> IF holders[d] # {} /\ holders[d] \subseteq gone
                       THEN IF inq[d] = <<>> THEN "eof" ELSE "reset"
                       ELSE ended[d]]

Accept ==
    /\ cur = Main /\ backlog # <<>>
    /\ cur' = Head(backlog) /\ backlog' = Tail(backlog)
    /\ holders' = [holders EXCEPT ![Head(backlog)] = {Main}]
    /\ UNCHANGED <<store, forked, pending, merged, proc, buf, logVars, conn, ended, inq, outq, clntVars>>

\* fork copies every descriptor main has open, or fails and leaves nothing.
Fork ==
    /\ cur # Main /\ ~forked
    /\ forked' = TRUE
    /\ \/ /\ proc' = [proc EXCEPT ![cur] = "read"]
          /\ holders' = [d \in Clients |-> IF Main \in holders[d] THEN holders[d] \cup {cur}
                                                                   ELSE holders[d]]
       \/ UNCHANGED <<proc, holders>>
    /\ UNCHANGED <<store, cur, pending, merged, buf, logVars, netVars, clntVars>>

\* The parent, or main after a failed fork, closes its copy and accepts again.
KeepCopy ==
    /\ cur # Main /\ forked
    /\ cur' = Main /\ forked' = FALSE
    /\ UNCHANGED <<store, pending, merged, holders, proc, buf, logVars, netVars, clntVars>>
CloseCopy ==
    /\ cur # Main /\ forked
    /\ cur' = Main /\ forked' = FALSE
    /\ holders' = [holders EXCEPT ![cur] = @ \ {Main}]
    /\ ended' = [ended EXCEPT ![cur] = EndedBy({Main})[cur]]
    /\ UNCHANGED <<store, pending, merged, proc, buf, logVars,
                   backlog, conn, inq, outq, clntVars>>

\* read_childproc: waitpid collects at most one ended child, any of them.  An
\* interrupted accept returns -1 and the loop calls it again.
SkipReaping ==
    /\ pending /\ pending' = FALSE
    /\ UNCHANGED <<store, cur, forked, merged, holders, proc, buf, logVars, netVars, clntVars>>
read_childproc ==
    /\ pending /\ pending' = FALSE
    /\ \/ \E p \in Procs : proc[p] = "zombie" /\ proc' = [proc EXCEPT ![p] = "reaped"]
       \/ (\A p \in Procs : proc[p] # "zombie") /\ UNCHANGED proc
    /\ UNCHANGED <<store, cur, forked, merged, holders, buf, logVars, netVars, clntVars>>

-----------------------------------------------------------------------------
(* A child that echoes.                                                    *)

\* The end of a process: its descriptors are closed and its parent is told.
Exit(p) ==
    /\ holders' = [d \in Clients |-> holders[d] \ {p}]
    /\ ended' = EndedBy({p})
    /\ pending' = TRUE /\ merged' = (merged \/ pending)

\* read returns data, at most the buffer's size.
ReadLen(c) == Min({BUF_SIZE, Len(inq[c])})

ChildRead(c) ==
    /\ proc[c] = "read" /\ inq[c] # <<>>
    /\ LET n == ReadLen(c)
       IN  /\ buf' = [buf EXCEPT ![c] = SubSeq(inq[c], 1, n)]
           /\ inq' = [inq EXCEPT ![c] = SubSeq(@, n + 1, Len(@))]
    /\ proc' = [proc EXCEPT ![c] = "echo"]
    /\ UNCHANGED <<store, mainVars, holders, logVars, backlog, conn, ended, outq, clntVars>>

\* read returns -1 for a reset: both writes get length -1, to no effect.
ChildReset(c) ==
    /\ proc[c] = "read" /\ inq[c] = <<>> /\ conn[c] = "rst"
    /\ conn' = [conn EXCEPT ![c] = "dead"]
    /\ UNCHANGED <<store, mainVars, holders, proc, buf, logVars, backlog, ended, inq, outq, clntVars>>

\* read returns 0: close and return from main.
ChildEof(c) ==
    /\ proc[c] = "read" /\ inq[c] = <<>> /\ conn[c] \in {"fin", "dead"}
    /\ proc' = [proc EXCEPT ![c] = "zombie"]
    /\ Exit(c)
    /\ UNCHANGED <<store, cur, forked, buf, logVars, backlog, conn, inq, outq, clntVars>>

\* Where a child goes after its echo, and what write takes of the buffer.
AfterEcho == IF store THEN "log" ELSE "read"
Taken(c)  == buf[c]

\* write to the client blocks until there is room.
ChildEcho(c) ==
    /\ proc[c] = "echo"
    /\ \/ /\ conn[c] \in {"open", "fin"} /\ Len(outq[c]) + Len(buf[c]) <= SockBuf
          /\ outq' = [outq EXCEPT ![c] = @ \o Taken(c)]
          /\ UNCHANGED conn
       \/ /\ conn[c] = "rst"                     \* the pending error
          /\ conn' = [conn EXCEPT ![c] = "dead"]
          /\ UNCHANGED outq
    /\ proc' = [proc EXCEPT ![c] = AfterEcho]
    /\ buf' = [buf EXCEPT ![c] = IF store THEN @ ELSE <<>>]
    /\ UNCHANGED <<store, mainVars, holders, logVars, backlog, ended, inq, clntVars>>

\* write to a client that is gone: SIGPIPE ends this child, and only it.
ChildKilled(c) ==
    /\ proc[c] = "echo" /\ conn[c] = "dead"
    /\ proc' = [proc EXCEPT ![c] = "zombie"] /\ buf' = [buf EXCEPT ![c] = <<>>]
    /\ Exit(c)
    /\ UNCHANGED <<store, cur, forked, logVars, backlog, conn, inq, outq, clntVars>>

\* write to the pipe blocks until there is room; the read end stays open in
\* main and in the children, so it never fails.
ChildLog(c) ==
    /\ proc[c] = "log" /\ Len(pipe) + Len(buf[c]) <= PipeCap
    /\ pipe' = pipe \o buf[c]
    /\ proc' = [proc EXCEPT ![c] = "read"] /\ buf' = [buf EXCEPT ![c] = <<>>]
    /\ UNCHANGED <<store, mainVars, holders, log, reads, netVars, clntVars>>

-----------------------------------------------------------------------------
(* The child that keeps the log.                                           *)

\* The loop's condition.
More == reads < LogReads

\* What fwrite puts into the file of the n units read.
WrittenShort(n) == SubSeq(pipe, 1, n - 1)
Written(n)      == SubSeq(pipe, 1, n)

LogRead ==
    /\ proc[Logger] = "read" /\ More /\ pipe # <<>>
    /\ LET n == Min({BUF_SIZE, Len(pipe)})
       IN  /\ log' = log \o Written(n)
           /\ pipe' = SubSeq(pipe, n + 1, Len(pipe))
    /\ reads' = reads + 1
    /\ UNCHANGED <<store, mainVars, holders, proc, buf, netVars, clntVars>>

LogEnd ==
    /\ proc[Logger] = "read" /\ ~More
    /\ proc' = [proc EXCEPT ![Logger] = "zombie"]
    /\ Exit(Logger)
    /\ UNCHANGED <<store, cur, forked, buf, logVars, backlog, conn, inq, outq, clntVars>>

-----------------------------------------------------------------------------
Parent == Accept \/ Fork \/ CloseCopy

Child(c) == \/ ChildRead(c) \/ ChildReset(c) \/ ChildEof(c)
            \/ ChildEcho(c) \/ ChildKilled(c) \/ ChildLog(c)

Client(c) == Connect(c) \/ Write(c) \/ ShutWr(c) \/ Read(c) \/ Killed(c)

Next == \/ Parent \/ read_childproc \/ LogRead \/ LogEnd
        \/ \E c \in Clients : Child(c) \/ Client(c)

Spec == Init /\ [][Next]_vars

\* Every process is scheduled, a pending signal is delivered, the client's
\* reading process reads.  Nobody has to connect, write, quit or be killed.
Progress == \/ Parent \/ read_childproc \/ LogRead \/ LogEnd
            \/ \E c \in Clients : Child(c) \/ Read(c)
Fairness == WF_vars(Progress)

FairSpec == Spec /\ Fairness

-----------------------------------------------------------------------------
Units == Clients \X (1..MaxSent)

\* Type invariant of all the variables.
TypeOK ==
    /\ {store, forked, pending, merged} \subseteq BOOLEAN
    /\ cur \in Clients \cup {Main} /\ holders \in [Clients -> SUBSET (Clients \cup {Main})]
    /\ backlog \in Seq(Clients)
    /\ proc \in [Procs -> {"none", "read", "echo", "log", "zombie", "reaped"}]
    /\ buf \in [Clients -> Seq(Units)] /\ \A c \in Clients : Len(buf[c]) <= BUF_SIZE
    /\ pipe \in Seq(Units) /\ Len(pipe) <= PipeCap /\ log \in Seq(Units) /\ reads \in 0..LogReads
    /\ conn \in [Clients -> {"idle", "open", "fin", "rst", "dead"}]
    /\ ended \in [Clients -> {"no", "eof", "reset"}]
    /\ \A q \in {inq, outq, got} : q \in [Clients -> Seq(Units)]
    /\ sent \in [Clients -> 0..MaxSent]

\* While main waits in accept, a connection is open in its own child and in
\* no other process: no copy of a descriptor survives where it could keep a
\* finished connection open.
OneHolder ==
    \A c \in Clients :
        holders[c] \subseteq {c} \cup (IF cur = c THEN {Main} ELSE {})

\* A client that is not interrupted gets back what it wrote, whole and in
\* order: displayed, on the way back, in the child, unread.
EchoIntact ==
    \A c \in Clients : (conn[c] \in {"open", "fin"} /\ ended[c] # "reset") =>
        got[c] \o outq[c] \o (IF proc[c] = "echo" THEN buf[c] ELSE <<>>) \o inq[c]
            = [k \in 1..sent[c] |-> <<c, k>>]

\* What the children have written to the pipe.
Logged == log \o pipe

\* The log has every client's text in the order it was written, without a gap
\* or a repetition, however the children's writes to the pipe interleave: no
\* unit is in it twice, and each comes after the one its client wrote before.
LogFaithful ==
    /\ IsInjective(Logged)
    /\ \A i \in DOMAIN Logged :
          LET u == Logged[i]
          IN  u[2] = 1 \/ \E k \in 1..(i - 1) : Logged[k] = <<u[1], u[2] - 1>>

\* The two together: no text is lost, repeated or out of order on either way.
TextExact == TypeOK /\ EchoIntact /\ LogFaithful

\* A client that has shut its writing direction down gets an end of file, so
\* its reading process can return, unless it was interrupted or the
\* connection reset, or the logger has stopped reading the pipe.
EofReturns ==
    \A c \in Clients :
        conn[c] = "fin" ~> \/ ended[c] # "no" \/ conn[c] \in {"rst", "dead"}
                           \/ proc[Logger] \in {"zombie", "reaped"}

\* An ended child is collected, unless signals were merged: waitpid is called
\* once per signal delivered, not until no child is left.
ZombiesReaped ==
    \A p \in Procs : proc[p] = "zombie" ~> (proc[p] = "reaped" \/ merged)
=============================================================================
