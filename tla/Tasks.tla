-------------------------------- MODULE Tasks --------------------------------
(***************************************************************************)
(* The small programs about processes, signals, pipes, threads and their   *)
(* locks: main and the children or threads it starts, as scripts, and the  *)
(* machine that runs them.  Sleeping promises nothing about the order, so  *)
(* a sleep is a step like any other.                                       *)
(***************************************************************************)
EXTENDS Turns, FiniteSets

CONSTANTS NUM_THREAD, Loops   \* threads of the counting programs, increments of each

main  == 0
Kids  == 1..(IF NUM_THREAD > 2 THEN NUM_THREAD ELSE 2)
Tasks == {main} \cup Kids

Create(k)   == <<"create", k>>    Join(k)   == <<"join", k>>
Set(v)      == <<"set", v>>       Post(n)   == <<"post", n>>
Send(p, m)  == <<"send", p, m>>   Recv(p)   == <<"recv", p>>
Op(name)    == <<name>>
Add(d)      == << <<"load">>, <<"store", d>> >>   \* x += d is not atomic
Unlocked(is) == is   \* in a changed program: the lock is forgotten
Locked(is)  == <<Op("lock")>> \o is \o <<Op("unlock")>>
Program(m, b) == [main |-> m \o <<Op("return")>>, body |-> b]

-----------------------------------------------------------------------------
(* Chapter 10: fork, wait and signals.                                     *)

fork     == Program(Add(1) \o <<Create(1)>> \o Add(-2) \o <<Op("print")>>,
                    << Add(2) \o <<Op("print")>> >>)
wait     == Program(<<Create(1), Create(2), Op("wait"), Op("wait"), Op("sleep")>>, << <<>>, <<>> >>)
waitpid  == Program(<<Create(1), Op("wait")>>, << <<Op("sleep")>> >>)  \* polls until it succeeds
zombie   == Program(<<Create(1), Op("sleep")>>, << <<>> >>)
copy_fd  == Program(<<Create(1), Op("print")>>, << <<Op("print")>> >>)
remove_zombie ==
    Program(<<Op("sigchld"), Create(1), Create(2)>> \o Repeat(5, <<Op("sleep")>>),
            << <<Op("sleep")>>, <<Op("sleep")>> >>)
sigaction == Program(<<Op("alarm")>> \o Repeat(3, <<Op("sleep")>>), <<>>)
signal    == sigaction
SIGINT    == Program(<<Op("forever")>>, <<>>)

(* Chapter 11: pipes, 1 from child to parent and 2 back.                   *)

pipe1 == Program(<<Create(1), Recv(1)>>, << <<Send(1, "str1")>> >>)
pipe2 == Program(<<Create(1), Recv(1), Send(1, "str2"), Op("sleep")>>,
                 << <<Send(1, "str1"), Op("sleep"), Recv(1)>> >>)
pipe3 == Program(<<Create(1), Recv(1), Send(2, "str2")>>, << <<Send(1, "str1"), Recv(2)>> >>)
give_and_take == Program(<<Create(1), Recv(1), Send(2, "str2"), Recv(1)>>,
                         << <<Send(1, "str1"), Recv(2), Send(1, "str3")>> >>)

(* Chapters 18 to 20: threads, locks, an event and a semaphore.            *)

thread1     == Program(<<Create(1), Op("sleep")>>, << Repeat(2, <<Op("sleep")>>) >>)
thread1_win == thread1
thread2     == Program(<<Create(1), Join(1), Op("look")>>, << <<Set("message"), Op("sleep")>> >>)
thread2_win == Program(<<Create(1), Join(1)>>, << <<Op("sleep")>> >>)
thread3     == Program(<<Create(1), Create(2), Join(1), Join(2), Op("print")>>,
                       << Add(1) \o Add(2), Add(3) \o Add(4) >>)

Counting(inc, des) ==
    Program([k \in 1..NUM_THREAD |-> Create(k)] \o [k \in 1..NUM_THREAD |-> Join(k)]
            \o <<Op("destroy"), Op("print")>>,
            [k \in 1..NUM_THREAD |-> IF k % 2 = 0 THEN inc ELSE des])
Increments == Repeat(Loops, Add(1))
Decrements == Repeat(Loops, Add(-1))
thread4     == Counting(Increments, Decrements)
thread3_win == thread4
mutex       == Counting(Locked(Increments), Repeat(Loops, Locked(Add(-1))))
SyncMutex   == Counting(Locked(Increments), Locked(Decrements))
SyncCS      == SyncMutex

TwoReaders(release, before, after) ==
    Program(<<Create(1), Create(2), Set("typed")>> \o release
            \o <<Join(1), Join(2), Op("destroy")>>,
            [k \in 1..2 |-> before \o <<Op("look")>> \o after])
SyncEvent      == TwoReaders(<<Op("setevent")>>, <<Op("waitevent")>>, <<>>)
SyncEvent_Sema == TwoReaders(<<Post(2)>>, <<Op("take")>>, <<Post(1)>>)

\* "none" is for a composition in which another machine runs.
Programs ==
    [none |-> [main |-> <<>>, body |-> <<>>], fork |-> fork, wait |-> wait, waitpid |-> waitpid, zombie |-> zombie, copy_fd |-> copy_fd,
     remove_zombie |-> remove_zombie, sigaction |-> sigaction, signal |-> signal,
     SIGINT |-> SIGINT, pipe1 |-> pipe1, pipe2 |-> pipe2, pipe3 |-> pipe3,
     give_and_take |-> give_and_take, thread1 |-> thread1, thread1_win |-> thread1_win,
     thread2 |-> thread2, thread2_win |-> thread2_win, thread3 |-> thread3,
     thread4 |-> thread4, thread3_win |-> thread3_win, mutex |-> mutex,
     SyncMutex |-> SyncMutex, SyncCS |-> SyncCS, SyncEvent |-> SyncEvent,
     SyncEvent_Sema |-> SyncEvent_Sema]
Forks    == {"fork", "wait", "waitpid", "zombie", "copy_fd", "remove_zombie", "sigaction",
             "signal", "SIGINT", "pipe1", "pipe2", "pipe3", "give_and_take"}

-----------------------------------------------------------------------------
VARIABLES prog,     \* the program that runs
          ops,     \* task -> the operations it has still to do
          mem, str, \* process -> its global counter; the shared string
          reg,      \* task -> the counter as it loaded it
          lock, sem, event, gone,   \* the holder, the count, signaled, destroyed
          pipe,     \* pipe -> the messages in it
          ended,    \* children that have ended and were not collected
          signals,  \* SIGCHLD: [handled, pending, merged]
          armed,    \* an alarm is set
          output       \* task -> what it printed, read or collected
sync == <<lock, sem, event, gone>>
kernel == <<pipe, ended, signals, armed>>
vars == <<prog, ops, mem, str, reg, sync, kernel, output>>

Space(t) == IF prog \in Forks THEN t ELSE main   \* whose memory t uses
Now(t)   == IF ops[t] = <<>> THEN <<"end">> ELSE Head(ops[t])
Does(t, name) == Now(t)[1] = name /\ ops' = [ops EXCEPT ![t] = Tail(@)]
Shows(t, v)   == output' = [output EXCEPT ![t] = Append(@, v)]

Init ==
    /\ prog \in DOMAIN Programs
    /\ ops = [t \in Tasks |-> IF t = main THEN Programs[prog].main ELSE <<>>]
    /\ mem = [t \in Tasks |-> 0] /\ reg = mem /\ str = ""
    /\ lock = {} /\ sem = 0 /\ event = FALSE /\ gone = FALSE
    /\ pipe = <<<<>>, <<>>>> /\ ended = {} /\ armed = FALSE
    /\ signals = [handled |-> FALSE, pending |-> FALSE, merged |-> FALSE]
    /\ output = [t \in Tasks |-> <<>>]

\* fork copies the memory of main, a thread shares it.
Creates(t) ==
    /\ Now(t)[1] = "create"
    /\ LET k == Now(t)[2]
       IN  /\ ops' = [ops EXCEPT ![t] = Tail(@),
                                   ![k] = Programs[prog].body[k] \o <<Op("return")>>]
           /\ mem' = [mem EXCEPT ![k] = mem[main]]
    /\ UNCHANGED <<prog, str, reg, sync, kernel, output>>

\* A child stays to be collected while main runs; the end of main ends its threads.
Returns(t) ==
    /\ Now(t)[1] = "return"
    /\ ops' = [u \in Tasks |-> IF u = t \/ (t = main /\ prog \notin Forks) THEN <<>> ELSE ops[u]]
    /\ ended' = IF t = main THEN {}
                ELSE IF prog \in Forks /\ ops[main] # <<>> THEN ended \cup {t} ELSE ended
    /\ signals' = IF t # main /\ signals.handled
                  THEN [signals EXCEPT !.pending = TRUE, !.merged = @ \/ signals.pending]
                  ELSE signals
    /\ UNCHANGED <<prog, mem, str, reg, sync, pipe, armed, output>>

Joins(t) == /\ Does(t, "join") /\ ops[Now(t)[2]] = <<>>
            /\ UNCHANGED <<prog, mem, str, reg, sync, kernel, output>>

Collects(k) == ended' = ended \ {k} /\ Shows(main, k)
Waits(t) == /\ Does(t, "wait") /\ \E k \in ended : Collects(k)
            /\ UNCHANGED <<prog, mem, str, reg, sync, pipe, signals, armed>>

\* The handler of SIGCHLD collects one child.
read_childproc ==
    /\ signals.pending /\ ops[main] # <<>>
    /\ signals' = [signals EXCEPT !.pending = FALSE]
    /\ IF ended = {} THEN UNCHANGED <<ended, output>> ELSE \E k \in ended : Collects(k)
    /\ UNCHANGED <<prog, ops, mem, str, reg, sync, pipe, armed>>

Handles(t) == /\ Does(t, "sigchld") /\ signals' = [signals EXCEPT !.handled = TRUE]
              /\ UNCHANGED <<prog, mem, str, reg, sync, pipe, ended, armed, output>>

\* SIGALRM: the handler sets the next alarm; a sleep that it meets is over.
Alarms(t) == /\ Does(t, "alarm") /\ armed' = TRUE
             /\ UNCHANGED <<prog, mem, str, reg, sync, pipe, ended, signals, output>>
timeout == /\ armed /\ Does(main, "sleep") /\ Shows(main, "Time out!")
           /\ UNCHANGED <<prog, mem, str, reg, sync, kernel>>
Sleeps(t) == /\ Does(t, "sleep") /\ (t = main => ~armed)
             /\ UNCHANGED <<prog, mem, str, reg, sync, kernel, output>>

\* SIGINT is the user's: signal.c only goes on, 05_SIGINT.c ends if that is confirmed.
keycontrol  == /\ prog = "signal" /\ Does(main, "sleep") /\ Shows(main, "CTRL+C pressed")
               /\ UNCHANGED <<prog, mem, str, reg, sync, kernel>>
end_program == /\ Now(main)[1] = "forever" /\ ops' = [ops EXCEPT ![main] = <<>>]
               /\ UNCHANGED <<prog, mem, str, reg, sync, kernel, output>>

Loads(t)  == /\ Does(t, "load") /\ reg' = [reg EXCEPT ![t] = mem[Space(t)]]
             /\ UNCHANGED <<prog, mem, str, sync, kernel, output>>
Stores(t) == /\ Does(t, "store") /\ mem' = [mem EXCEPT ![Space(t)] = reg[t] + Now(t)[2]]
             /\ UNCHANGED <<prog, str, reg, sync, kernel, output>>
Prints(t) == /\ Does(t, "print") /\ Shows(t, mem[Space(t)])
             /\ UNCHANGED <<prog, mem, str, reg, sync, kernel>>
Sets(t)   == /\ Does(t, "set") /\ str' = Now(t)[2]
             /\ UNCHANGED <<prog, mem, reg, sync, kernel, output>>
Looks(t)  == /\ Does(t, "look") /\ Shows(t, str)
             /\ UNCHANGED <<prog, mem, str, reg, sync, kernel>>

Locks(t)   == /\ Does(t, "lock") /\ lock = {} /\ lock' = {t}
              /\ UNCHANGED <<prog, mem, str, reg, sem, event, gone, kernel, output>>
Unlocks(t) == /\ Does(t, "unlock") /\ lock' = {}
              /\ UNCHANGED <<prog, mem, str, reg, sem, event, gone, kernel, output>>
Takes(t)   == /\ Does(t, "take") /\ sem > 0 /\ sem' = sem - 1
              /\ UNCHANGED <<prog, mem, str, reg, lock, event, gone, kernel, output>>
Posts(t)   == /\ Does(t, "post") /\ sem' = sem + Now(t)[2]
              /\ UNCHANGED <<prog, mem, str, reg, lock, event, gone, kernel, output>>
SetsEvent(t)  == /\ Does(t, "setevent") /\ event' = TRUE
                 /\ UNCHANGED <<prog, mem, str, reg, lock, sem, gone, kernel, output>>
\* In a changed program: an event that the first thread to pass resets.
AutoReset(t)  == /\ Does(t, "waitevent") /\ event /\ event' = FALSE
                 /\ UNCHANGED <<prog, mem, str, reg, lock, sem, gone, kernel, output>>
WaitsEvent(t) == /\ Does(t, "waitevent") /\ event
                 /\ UNCHANGED <<prog, mem, str, reg, sync, kernel, output>>
Destroys(t)   == /\ Does(t, "destroy") /\ gone' = TRUE
                 /\ UNCHANGED <<prog, mem, str, reg, lock, sem, event, kernel, output>>

Sends(t) == /\ Does(t, "send") /\ pipe' = [pipe EXCEPT ![Now(t)[2]] = Append(@, Now(t)[3])]
            /\ UNCHANGED <<prog, mem, str, reg, sync, ended, signals, armed, output>>
\* A read takes all that is in the pipe, whoever wrote it; as every process keeps
\* both ends, an empty pipe blocks for ever.
Recvs(t) == /\ Does(t, "recv") /\ pipe[Now(t)[2]] # <<>>
            /\ output' = [output EXCEPT ![t] = @ \o pipe[Now(t)[2]]]
            /\ pipe' = [pipe EXCEPT ![Now(t)[2]] = <<>>]
            /\ UNCHANGED <<prog, mem, str, reg, sync, ended, signals, armed>>

Process(t) == Creates(t) \/ Returns(t) \/ Waits(t) \/ Handles(t) \/ Alarms(t) \/ Sleeps(t)
              \/ Sends(t) \/ Recvs(t)
Thread(t)  == Joins(t) \/ Loads(t) \/ Stores(t) \/ Prints(t) \/ Sets(t) \/ Looks(t) \/ Locks(t)
              \/ Unlocks(t) \/ Takes(t) \/ Posts(t) \/ SetsEvent(t) \/ WaitsEvent(t) \/ Destroys(t)
Progress == \/ \E t \in Tasks : ops[t] # <<>> /\ (Process(t) \/ Thread(t))
            \/ read_childproc \/ timeout
Next == Progress \/ keycontrol \/ end_program

\* Every task makes progress.  Each step uses something up, so one condition says
\* the same as one for each task; SIGINT is the user's.
Spec == Init /\ [][Next]_vars /\ WF_vars(Progress)

-----------------------------------------------------------------------------
(* Properties.                                                             *)

Done(t) == ops[t] = <<>>
Half    == Cardinality({k \in 1..NUM_THREAD : k % 2 = 0}) * Loops
\* What the programs are written to print, read and collect, task by task; where
\* they leave it to the scheduler, every outcome it can give.
Reads(m, k1)     == {[main |-> m, kids |-> <<k1, <<>>>>]}
Collected(order) == [main |-> order, kids |-> <<<<>>, <<>>>>]
Printed(p) ==
    CASE p = "fork"        -> Reads(<<-1>>, <<3>>)
      [] p = "wait"        -> {Collected(<<1, 2>>), Collected(<<2, 1>>)}
      [] p = "waitpid"     -> {Collected(<<1>>)}
      [] p = "pipe1"       -> Reads(<<"str1">>, <<>>)
      [] p = "pipe2"       -> Reads(<<"str1">>, <<"str2">>)
      [] p = "pipe3"       -> Reads(<<"str1">>, <<"str2">>)
      [] p = "give_and_take" -> Reads(<<"str1", "str3">>, <<"str2">>)
      [] p = "thread2"     -> Reads(<<"message">>, <<>>)
      [] p = "thread3"     -> UNION {Reads(<<sum>>, <<>>) : sum \in 3..10}
      [] p \in {"thread4", "thread3_win"} ->
            UNION {Reads(<<sum>>, <<>>) : sum \in -Half..Half}
      [] p \in {"mutex", "SyncMutex", "SyncCS"} -> Reads(<<0>>, <<>>)
      [] p \in {"SyncEvent", "SyncEvent_Sema"} ->
            {[main |-> <<>>, kids |-> <<<<"typed">>, <<"typed">>>>]}
Silent == {"none", "zombie", "copy_fd", "remove_zombie", "sigaction", "signal", "SIGINT", "thread1",
           "thread1_win", "thread2_win"}

\* What every program prints when all of it has ended: parent and child count in
\* memories of their own, each child is collected once, messages come from the pipe
\* in order and to whom they were meant, the locked counters come out even, the
\* readers see what was typed.  Children collected by the signal handler are left
\* over only if their signals were merged.
Outcome ==
    /\ prog \notin Silent /\ (\A t \in Tasks : Done(t))
          => \E r \in Printed(prog) : output[main] = r.main /\ output[1] = r.kids[1] /\ output[2] = r.kids[2]
    /\ prog = "remove_zombie" /\ ~signals.pending /\ ~signals.merged => ended = {}
    /\ gone => \A k \in Kids : Done(k)

\* Every program ends and leaves no lock behind, except the one that waits for
\* SIGINT and the one whose child may take its own message out of the single pipe.
OwnMessage == prog = "pipe2" /\ output[1] = <<"str1">>
AllEnd == []<>(prog = "SIGINT" \/ OwnMessage \/ (lock = {} /\ \A t \in Tasks : Done(t)))
=============================================================================
