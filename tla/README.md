# TLA+ models of tcp_ip_socket

The repository holds the programs of a course on TCP/IP sockets: 150 small C
programs in 24 chapters, for Linux and for Windows. They come in three sizes. The
servers that serve several clients at a time, each in another style - processes,
threads, `select`, `epoll`, asynchronous notification, overlapped I/O, completion
ports - have an event loop or shared state of their own, and each has a module of its
own here. The programs that make blocking calls one after the other - clients,
sequential servers, web servers, the samples about processes, signals, pipes, threads
and datagrams - are scripts of calls, run by three machines. The rest print what one
library call returns, and are not modelled.

## 1. Inventory

| Component | State | Operations | How it interacts | What is hard | What makes it correct |
|---|---|---|---|---|---|
| Threaded chat (Ch. 18 `chat_server.c`, `chat_clnt.c`) | `clnt_cnt`, `clnt_socks`, `mutex`, main's `clnt_sock`; each handler's `clnt_sock`, `msg` | accept, register, create thread; read, broadcast, unregister, close | main hands the descriptor over by the address of a local variable; the registry is shared under the mutex; blocking writes | main may overwrite the variable first; descriptors are reused; a slow client blocks the holder of the mutex; a reset raises SIGPIPE | the registry is exact; one order of text for all; broadcasts end; departures are noticed |
| Epoll echo (Ch. 17 `echo_epollserv.c`, `echo_EPLTserv.c`, `echo_EPETserv.c`) | the ready list (kernel), the batch `ep_events`, `buf` | epoll_wait, accept, read, write, close | the kernel appends news while a batch is served | edge-triggered news comes once; a batch can go stale | no lost wake-up, no stale event, the echo is whole and returns |
| Epoll chat (Ch. 17 `07_chat_serv.c`) | also `clnt_sock_arr`, `clnt_cnt` | also broadcast | nonblocking writes, unchecked | short writes lose text | the array is exact, departures are noticed |
| Process servers (Ch. 10 `echo_mpserv.c`, Ch. 11 `echo_storeserv.c`) | descriptor tables of all processes, the pipe, the log, pending SIGCHLD | accept, fork, close; child's echo and log; logger; handler of SIGCHLD | copies of descriptors, signals, a pipe, wait | the last close ends a connection; signals merge; the logger stops after ten reads | no copy survives in the wrong process; the log is faithful; end of file arrives; zombies are collected |
| Semaphore hand-over (Ch. 18 `semaphore.c`, Ch. 20 `SyncSema_win.c`, `03_SyncSema_win.c`) | two semaphores, `num`, the loop counters, `sum` | wait, scan, post; wait, add, post; join | the semaphores pass a turn to and fro | `num` itself is not locked; scanf fails | every number is added exactly once; it terminates |
| Select echo (Ch. 12) | `reads`, `cpy_reads`, `fd_max`, the loop's `i` | select, accept, echo, close | a snapshot of the set is served while it changes; blocking reads and writes | the Windows program indexes two arrays that are compacted differently; a full set | exactly the open sockets are watched; no read blocks; only the client that left is closed |
| Asynchronous notification (Ch. 21) | `hSockArr`, `hEventArr` in parallel, `numOfClntSock` | wait, enumerate, accept, read, close | events recorded per socket, reset on enumeration | arrays compacted during the scan; errors leave it by `break`; a send to a client that has left draws a reset, and the close is then an error | a socket and its event keep one index; who is skipped is served later |
| Completion-port echo (Ch. 23 `IOCPEchoServ_win.c`, `StableEchoClnt_win.c`) | `handleInfo` and `ioInfo` on the heap, the completion queue | post a receive or a send; handle a completion; close and free | the kernel owns an `ioInfo` while it is outstanding; any worker gets any completion | several workers for one client; freed while completions are queued; refused calls | one receive per connection, nothing freed is used, the echo is in order |
| Completion routines (Ch. 23 `CmplRouEchoServ_win.c`; Ch. 22) | `hbInfo` with one buffer and one `OVERLAPPED` for both directions | accept, post, routine of a receive or a send | the routines run while the thread sleeps | the buffer is shared; the next receive is as long as the last echo | one operation per connection |
| Windows chat servers (Ch. 20 `chat_serv_win.c`, Ch. 23 `06_IOCP_chat_serv_win.c`) | `clntSocks`, `clntCnt`, a mutex in the first | accept and file; receive, broadcast, remove, close | all threads and main share the array | the removal copies the wrong entry; the second has no lock at all; sends wait with the mutex held; a reset that comes back makes the first spin | the array is exact; lines go out once; who left is removed, the others stay |
| Web servers (Ch. 24) | the request, two streams over one socket or one socket | parse, answer, close | browser | paths that do not close, or close twice | every request is answered and closed |
| Calculator, length-prefixed exchange, file transfer (Ch. 5, 7) | the receive buffer and its fill | read until complete, compute, answer | one client at a time | TCP has no message boundaries, and some programs read an int or a letter as if it had; the peer leaves in the middle; the file does not exist | what is read is what was sent |
| Sequential and threaded echo, greetings (Ch. 1, 2, 4, 5, 9, 15, 18) | the connection in service, a mutex in one | accept, echo, close | one client after the other | single reads; a mutex held for a connection | the reply is that to what was asked; everybody is served |
| Separated streams, peeking (Ch. 13, 16) | two streams, one or two descriptors | dup, shutdown, fclose | half-close, then the client's thanks | fclose closes both directions | the thanks arrive |
| Mutex, critical section, event samples (Ch. 18-20) | a shared counter or string | lock, change, unlock; set the event | threads | lost updates; a join or reset forgotten | the result is the sequential one |
| Process, signal, pipe samples (Ch. 10, 11) | memory of each process, a pipe, pending signals | fork, wait, alarm, read, write | copies of memory, signals, pipes | merged signals; two readers of one pipe | each child collected once, messages reach whom they are for |
| UDP programs, multicast, broadcast (Ch. 6, 14) | nothing, or whose turn it is | send, receive | datagrams | loss, copies, reordering; Windows reports unreachable peers | turns alternate; an answer goes to who asked; the news is heard |
| Out-of-band data, vectored input (Ch. 13); address, option, file samples (Ch. 1-4, 8, 9, 12, 14, 15) | none that outlives a call | - | - | - | - |

`PROJECT.json` lists the components with their sources, the hazards with their
lines, and for every definition that models code the lines it models.

## 2. The modules

| Module | What it is | Checked by |
|---|---|---|
| `ThreadedChat` | the threaded chat server with its clients | `MCThreadedChat`, two configurations |
| `ThreadedChatProofs` | proofs about it | TLAPS |
| `Filters` | what is left of a sequence when some entries go, as a recursive function | with the next three and `SelectEcho` |
| `Epoll` | the ready list, for the two modules that follow | with them |
| `EpollEcho` | the three epoll echo servers with `echo_client.c` | `MCEpollEcho` |
| `EpollChat` | the epoll chat server with its clients | `MCEpollChat`, two configurations |
| `ListProofs` | lemmas about `Filters`, `Epoll`, lists of descriptors, texts joined, and lists that lose, repeat or move entries | TLAPS |
| `EpollEchoProofs`, `EpollChatProofs` | proofs about the two servers | TLAPS |
| `ForkEcho` | the two process servers with `echo_mpclient.c` | `MCForkEcho` |
| `ForkEchoProofs` | proofs about it | TLAPS |
| `SelectEcho` | the two select servers with their client | `MCSelectEcho`, two configurations |
| `SelectEchoProofs` | proofs about it | TLAPS |
| `HandOff` | what the semaphore programs promise, abstractly | as a property of the next |
| `SemaHandOff` | the three semaphore programs | `MCPrograms` |
| `Turns` | the calls of a counted loop, as a recursive function | with the next five |
| `Calls` | what the TCP programs send, the calls they make, and what a server computes from a request | with the next two |
| `Scripts` | the TCP programs with straight lines and simple loops, call by call | by `MCExchanges`, which makes exchanges of them for the next |
| `Streams` | the machine that runs an exchange | in `Programs` |
| `Tasks` | the small programs about processes, signals, pipes, threads and locks, and their machine | in `Programs` |
| `Datagrams` | the UDP programs and their machine | in `Programs` |
| `Programs` | an instance of `Streams`, of `Tasks` and of `Datagrams`: one program per behaviour | `MCPrograms`, which adds `SemaHandOff` |
| `ProgramsProofs` | proofs about `Programs`, and about `SemaHandOff` with its refinement | TLAPS |
| `PortEcho` | the completion-port echo server with `StableEchoClnt_win.c` | in `Windows` |
| `CmplRou` | the echo server with completion routines; extends `PortEcho` | in `Windows` |
| `AsynNoti` | the two asynchronous-notification servers with their clients | in `Windows` |
| `WinChat` | the two Windows chat servers with a shared array | in `Windows`, and alone by `MCWinChat`, two configurations |
| `Windows` | `PortEcho`, `CmplRou`, `AsynNoti` or `WinChat`: one server per behaviour | `MCWindows` |
| `WindowsProofs` | proofs about `PortEcho` and about `Windows` | TLAPS |

`Programs`, `MCPrograms` and `Windows` choose in `Init` which machine runs; the variables of the others
never change. The machines do not interact, as the programs do not; one state space
lets TLC check all of them at once, and `PortEcho`, `CmplRou` and `AsynNoti` share the variables
of the network and the clients.

### What the modules have in common

*Connections.* A connection, the client at its far end and the thread or child
that serves it share one identity, a member of `Clients`; each connects at most
once. `fdOf[c]` is the server's descriptor for it. `accept` gives the lowest free
descriptor, so numbers are reused as in Unix. `conn[c]` is what the server's end
of TCP knows: `open`; `fin` after the client's close; `rst` after a reset that the
server has not been told of; `dead` when it has, so that a read returns 0 and a
write raises SIGPIPE.

*Data.* Text is a sequence of units; a unit is its sender and number (in
`EpollEcho` the number alone). A read returns a prefix, because TCP keeps order
and nothing else. `SockBuf` bounds what a client's connection holds unread; a
blocking write waits for room, a nonblocking one takes what fits.

*Processes and threads.* An action is what runs between two points where another
thread, process or the network can be noticed: a system call, or a section under
the mutex. `pthread_mutex_lock ... unlock` around code without system calls is one
action (`Register`, `Remove`); around writes that may block it is one action per
write (`SendLock`, `SendWrite`, `SendUnlock`).

### ThreadedChat

`Accept`, `Register`, `CreateThread` are the turn of `main`'s loop, with `cur` the
connection it is in the middle of. `StartHandler` is `*((int*)arg)`: it reads
`clnt_sock` at that moment, so that the race is in the model; `meant` is a ghost
that remembers which descriptor was accepted for the handler, and `Misdirected`
says that some handler copied another one. `ReadData`, `ReadEof`, `ReadError` are
the results of `read`; `Deliver` is what `write` does to a connection in each
state, a SIGPIPE that ends the process (`up`) included. `Remove` is the removal
under the mutex, with the decrement outside the search's `if`, as in the code.

The race is real, so properties of the registry's contents are stated for as long
as it has not happened; `CountMatchesHandlers` holds even after it. No action asks
whether `clnt_socks` has room, as the code does not: it writes past the array at the
257th client. What happens then is undefined, so the module assumes that no more
clients come than the array holds (`CapacityAssumption`, also of `EpollChat`).

### EpollEcho, EpollChat

`ready` is the kernel's list. `Epoll` says how news enters it, which descriptors a
batch reports, and that only level-triggered ones go back. `batch` is `ep_events`
from `i` on, so that `Head(batch)` is the event being served. `EpollEcho` chooses
in `Init` between the level- and the edge-triggered program (`edge`): they differ
in the registration (`Level`), in whether the loop reads again (`AfterRead`) and in
what a write takes (`Taken`). Its client may write only after its line is back,
as in `echo_client.c`; data spends time in `net` on its way, so that it arrives in
the middle of a batch. `EpollChat` broadcasts one write per step with index `j`.

### ForkEcho

`holders[c]` is the set of processes with a descriptor for connection `c`; `Fork`
copies whatever `main` holds, and `EndedBy` gives the client its end of file at
the last close, or a reset if unread text is thrown away. `pending` is SIGCHLD:
one bit, because signals are not queued; `merged` is a ghost that remembers that
one was lost. `store` chooses in `Init` whether the server of Chapter 11 runs. The
logger reads `LogReads` times (ten in the source) and ends. The fork of the logger
at start is assumed to succeed.

### SelectEcho

Both programs are one loop over slots. `win` chooses in `Init` which: `Slot(k)` is the
descriptor `k` itself on Linux and the entry `reads[k]` on Windows, `Limit` is `fd_max`
or the current length of the array, `Closed` is `i` or `cpy_reads[i]`. `i` counts
from 1 and 0 is the call of `select`. `cpy_reads` has the sockets reported first and
then what the copy held there before, because `select` on Windows writes only the
entries it reports; `FdIsSet` looks at the first `fd_num`. `refused` and `misclosed` are
ghosts: a client that `FD_SET` dropped because the set was full, and that a socket
other than the one whose end was read has been closed. A timeout of `select` changes
nothing and is a stutter. The client reads once per line, so that unread echo stays in
its connection; `Blocked` is the state in which the server waits in `write` for a
user at the prompt. When the client's process has ended (`Leave`), what it had on its
screen and in its buffers is forgotten.

### PortEcho

`recv` and `sends` are the overlapped calls the kernel has accepted, `port` the queue of
their completions; a completion carries its connection (the key `handleInfo`), its
`rwMode` and what was received (the `ioInfo`). So an `ioInfo` is always in one place: a
posted call, the queue, or a worker's `task`. `GetStatus` and `Load` are separate, since
`handleInfo` may be freed between them, and `Load` reads it without asking. A call on a
connection known to be reset is refused and queues nothing (`Fails`), which the code
does not look at; `PostRecv` and `Send` have that. When the process has ended (`AcceptError`)
nothing more happens in the model.

### SemaHandOff, HandOff

One action per call on a semaphore and per access to `num`. `early` chooses
`03_SyncSema_win.c`, which scans before it waits. `Scanned` includes the old value,
for a scanf that fails. `HandOff` has a place for one number: `Give` fills it,
`Take` adds it and empties it. The refinement mapping needs no history: the place
is full exactly while the reader has stored more numbers than the other thread
has added (`Place`).

### CmplRou

The variables are those of `PortEcho`; `port` is now the queue of routines that `SleepEx` runs
one after the other, and `handleInfo` is `hbInfo` with its `OVERLAPPED`. `len` is `wsaBuf.len`,
which a receive and a send share: after an echo of three bytes the next receive takes
three at most. A receive is posted by the routine of the send and not before, so a
connection has one operation; a send refused after a reset ends the chain for good.

### AsynNoti

`service` chooses between echo and chat, which differ in who is sent what was read
(`Receivers`) and in whether the client waits for it (`Waiting`). `recorded` is what Windows
has recorded for a socket and not yet told, `signaled` the events that are set, `enabled` the
sockets whose next data is recorded: once, until `recv` is called again. `told` has the
ends that were recorded: that of a connection without an error, and that of a reset with one. `Wait` is `WSAWaitForMultipleEvents` over the array; `Skip` and
`Enumerate` are the turns of the scan; `Accept`, `Receive` and `Close` are the three `if`s of a turn.
`Close` compacts both arrays and goes on behind the gap, or leaves the scan when the
close came with an error, with the socket still in the arrays. `Receive` sends to all; a client
that has closed its end before it reads the line answers with a reset (`reset`), which may throw
away what it had sent (`lost`). If its end has not been enumerated by then, the server sees the error,
and this is the close error that the comment at `09_AsynNotiChatServ_win.c:105` reports without
knowing why; a reset after that changes nothing for it. The choice of `reset` at the moment of
the send covers both.

### WinChat

`kind` chooses between the mutex of Chapter 20 and the port of Chapter 23. `at[t]` is where a
thread is; a worker of the port that handles a receive of `c` is the task `c`, since a
connection has one receive at a time. In the second nothing is locked, so `clntCnt++` is
`Load` and `Store`, and `Scan`, `Shift` and `Send` are one entry each. `misled` is the race of the
hand-off by address again; `spoiled` says that the array may be wrong: two threads were
in it at once in the port server, or `chat_serv_win.c` has removed an entry with two or
more behind it. After `spoiled` the model promises nothing, as the C program does not.

A send is blocking. It may fill what is between server and client (`conn` is then `full`), and
the next send to that client waits, with the mutex held, until the client's `RecvMsg` reads on
or the client leaves. A send to a client that has closed its end draws a reset (`Answers`). After it `recv`
gives -1 to the thread of `chat_serv_win.c`, whose loop stops at 0 only: the thread is `stuck`,
it broadcasts nothing for ever, and its client stays in the array. In the port server the next
`WSARecv` is refused and nobody hears of the connection again.

### Calls, Scripts, Streams

A program is a sequence of calls (`todo[t]`), a call (`Calls`) a record: its name, how many units it
can take, whether the code tests its result (`chk`), and where a piece that is read goes (`kept`): behind what
has been read already, or over it, at the start of the buffer. Loops over `accept` are unrolled `Rounds`
times, a user types `Lines` lines. An exchange is a server, what its handlers do, its
clients, and the reply they are to have (`want`); `MCExchanges` lists the 29 of the repository,
5 of them with a thread per connection.
`net[e]` is one end of a connection: what is on its way to it (`in`), whether the peer has
ended (`eof`), a reset that is under way, has arrived, or was reported (`rst`). A read takes any
prefix, so TCP cuts the stream in all ways; `After` is what a read in a loop has still to do.
Closing with something unread resets, and the reset may take what was on its way with it;
a write to a reset end raises SIGPIPE on Linux, and `X.win` says that it does not on Windows,
where also descriptors are not the lowest free ones.

Everything that is sent can be cut. An int is two units (`Number`), as are a letter, a file name and
a file; a count of one byte is one. A program that reads an int with a single read (`05_tcp_server.c:58`,
`jeongmo_op_server.c:46`) may get half of it: its task is then in `short`, and what it does
with the number is left open (`Announced`, `Result`: any count of reads, any result), because the other
half of the variable is what was there before. A letter read piece by piece to the start of `message`
(`05_tcp_server.c:62`) keeps of each piece what the next does not cover; `shown` has what is printed
of it. `Opens` finds the file or does not, and the server of `06_file_server.c` then exits; a name that was
cut is that of another file or of none.

A loop that counts what it reads and
ignores the end of the data (`op_server.c:50`) has no step any more: a call that spins is a
task that never moves. `Interrupt` kills a client at any time. Five ghosts name what makes
an exchange unusual: `short`, `hurt` (a client was
killed or found no server), `killed` (SIGPIPE or a failed check ended the server), `loose` (a handler made one
of the two slips: it copied `clnt_sock` when `main` had accepted again, or it answers something else than a whole
GET on Windows, where it then closes its socket twice) and `strayed` (a handler used a descriptor that was
closed or another client's).

### Tasks

Also scripts, of main and the tasks it creates. `x += d` is a load and a store with the
task's own register between, so updates can be lost. `Space` is the memory a task uses: its
own after a fork, main's for a thread. `signals.pending` is one bit, `merged` remembers that a
signal was lost in it; `read_childproc` collects one child, as in the code. A pipe read takes
all that is there, whoever wrote it. The end of main ends its threads. A sleep promises
nothing: it is a step like any other, so programs that order their output by sleeping
are in `Silent`, about which nothing is claimed.

### Datagrams

`inbox` holds datagrams on their way to a host or waiting there; `Loses`, `Copies` and `Overtakes`
are the network, at most `MaxFaults` times. `Bounces` is a datagram for a closed port; on Windows
its sender hears of it at its next `recvfrom` (`RecvFails`), which `uecho_server_win.c` takes as a
reason to end. `peer` is `your_addr`, overwritten by each `recvfrom`, which is why an answer goes
to who asked.

## 3. The runs

| Run | Bounds | What it shows |
|---|---|---|
| `threaded_chat_registry` | 3 clients, 2 descriptors, one unit each | `TypeOK`, `CountMatchesHandlers`, `RegistryExact`. Three clients over two descriptors are the least for a number to be reused, for two removals to meet, and for `accept` to fail; three handlers for the hand-off to go wrong in every way |
| `threaded_chat_live` | 2 clients, of which one writes up to 2 units and the other one, reads of 1 or 2, buffers of 2 | `StreamsAgree` (no gap, no repetition, one order for all), `BroadcastCompletes`, `DepartureNoticed`: two units of one writer and one of another are the least to show a gap or an exchange |
| `epoll_echo` | 2 clients, line of up to 3 units, buffer of 2 | `EventsExact` (types, no lost wake-up, no stale event), `EchoIntact`, `EchoReturns`: a line takes two reads, so the loop that drains is exercised; a batch of two events, so one can go stale |
| `epoll_chat` | 2 clients, 2 units each, buffers of 2 | `LoopExact` (types, the array, no lost wake-up), `DepartureNoticed`; a buffer of 2 against 4 units of text fills |
| `epoll_chat_loss` | the same | `SentToAll` fails: see section 5 |
| `fork_echo` | 2 clients, of which one writes up to 3 units and may be interrupted and the other writes one, buffers and pipe of 2, a logger of one read | `OneHolder`, `TextExact` (types, echoes, the log), `EofReturns`, `ZombiesReaped`: one read of the pipe can return the text of two children; four units, a pipe of two and one read: the pipe fills and stays full |
| `select_echo` | 3 clients of which one writes a line of up to 3 units, buffers of 1, sets of 3 and of 4 entries | `SetExact` (types, the watched set, no blocking read), `EchoIntact`, `EchoReturns`, `DepartureNoticed`: the listening socket and two clients fill the smaller set, so a third is refused; three clients in the larger one are the least for the scan to meet a socket it has closed by mistake; three units are the least that block the server |
| `select_echo_close` | 2 clients, one unit each | `OnlyEndedClosed` fails: see section 5 |
| `programs` | 2 clients, one of which may be killed, 4 descriptors, reads of 2, one line each, 2 rounds, ints modulo 8; 2 threads of 2 increments; 2 messages, 3 pieces of news, one fault of the network; 5 turns, three numbers, an int of two bits | `ReplyRight`, `PrintsEnd`, `OwnConnection`, `Served` for 29 exchanges over TCP; `Outcome`, `AllEnd` for the 25 task programs; `InStep`, `AllHear` for the 7 talks over UDP; `OnePermit`, `HandsOver`, `Terminates` for the semaphore programs. Items are two units and reads take one or two, so every item can be cut; 2 - 3 and 2 * 3 * 3 pass the ends of an int of 8 values; two clients and two rounds let one wait for the other, are the least for `main` to overwrite `clnt_sock`, and for a number closed twice to have been given to another; two increments of two threads give every lost update; one fault at any datagram; the sum of the hand-over wraps around |
| `windows` | 2 clients of which one writes up to 2 lines of up to 3 units (1 line in `AsynNoti` and `WinChat`), 2 workers, receives of 2, buffers of 3 | `OneRead`, `FreedNotUsed`, `LineIntact`, `EchoServes` of `PortEcho` and `CmplRou`; `PairsExact`, `NotiServes` of `AsynNoti`; `SocksExact`, `SentOnce`, `LeaverRemoved` of `WinChat`. The pieces of a line are handled by two workers while completions of sends queue up behind them and the client leaves; two clients and the listening socket are the least for a compaction to move an entry under the scan, and for two threads to meet in the array |
| `win_chat_leaver` | 2 clients of which one writes a line | `LeaverDeleted` fails: see section 5 |
| `win_chat_removal` | 3 clients who only come and go | `OthersStay` fails: see section 5 |

Types are checked by `TypeOK` of `ThreadedChat` and as a part of `EventsExact`, `LoopExact`,
`TextExact`, `SetExact` and `OneRead`, which together say that a loop's data is what it should
be. Deadlock checking is off where the system may stop: the clients of the servers need
not do anything and each connects once, and the other programs end. That nothing stops
too early is what the liveness properties say. Symmetry is used for safety only, over
clients, which are model values that no definition orders.

Properties that the code breaks in known circumstances name them, and hold in all others.
The named ones are: a hand-off by address that went wrong (`Misdirected`, `misled`, `strayed`);
signals that merged; a logger that has ended; a full set of `select`; a connection that was
reset, also by a line that was sent to a client which had just left (`NotiServes`, `LeaverRemoved`); a client killed in
the middle of a request to `op_server.c`; a single read that got part
of an item; a request for a missing file of `webserv_linux.c`; a lost datagram. Each is
reachable in the run, so the exceptions are not there for show; section 5 has them all, and
four places where a comment promises more are shown by a run that violates it.

### Fairness

Weak fairness of each thread or process of the server: the operating system's scheduler
runs what can run. In `ThreadedChat` that is one condition per handler, none on winning
the mutex. The clients' receiving threads are weakly fair where a server blocks for them
(`ThreadedChat`, `EpollEcho`, `SelectEcho`, `WinChat`), because their loops always return to `read`; in
`EpollChat` no client has to read. TCP delivers what was sent (`Arrive`).

`ForkEcho`, `PortEcho`, `CmplRou`, `AsynNoti`, `WinChat`, `Streams`, `Tasks` and `Datagrams`
state one condition, weak fairness of `Progress`, and `MCPrograms` one for all it runs, also for the
threads of `SemaHandOff` and the user who answers their prompt: every step of the server, of the system, and of a
client that reads. There each of these steps uses something up - a call of a script, a
unit of text, a connection, an event - so that only finitely many can follow one another,
and a behaviour that is fair to their disjunction ends with none of them possible: it
is fair to each of them. Nobody has to connect, write, leave, press a key or
interrupt a client, and the network need not lose anything. The properties of these
programs say that they have come to an end again and again (`[]<>`), which is no less than
that they come to it, as an end lasts, and lets TLC check all of them in one pass.

`BroadcastCompletes` under weak fairness alone deserves a word: a handler that
waits for the mutex could be overtaken for ever by others, but the text the clients
write is bounded in the model, so it shows that the lock is always released and
nobody waits in a circle, not that the mutex is fair.

## 4. What is proved

For every number of clients, set of descriptors, capacity and size, from the named
assumptions on the constants:

* `ThreadedChatProofs!Invariance`, `TypeCorrect`, `CountCorrect`. `CountMatchesHandlers`
  is not inductive: that the
  handler registered is a new one rests on where `cur` is (`CurInv`: only `main`'s
  current connection is accepted or registered) and on the listen queue having each
  connection once and only unserved ones (`QueueInv`). `CountInv` is their conjunction
  with `TypeOK`. That `clnt_cnt` stays between 0 and `MAX_CLNT` needs no test in the code, but as many
  slots as there are clients (`CapacityAssumption`): every decrement, which does not ask whether it
  has found the descriptor, belongs to a handler that was counted, and none is counted twice.
* `ThreadedChatProofs!RegistryCorrect`. `RegInv` adds that open descriptors are
  distinct (`FdsInv`) and that, until a hand-off goes wrong, a handler's descriptor is
  the one it was meant to have and is open (`HeldInv`). Once misdirected, always
  misdirected (`MisdirectedStays`), so the implication is preserved. The work is in
  `Remove`: shifting a prefix without repetitions keeps it without repetitions and
  takes exactly one value out.
* `ThreadedChatProofs!StreamsCorrect`. That the screens agree is shown by something the
  code has nowhere: the conversation, a text `m` with each sender's units in turn and
  complete up to what was put before everybody (`Told`), of which each client sees a
  stretch; and the stretch of a registered client who is there reaches to its end once
  the broadcast under way has paid what is due to it (`Due`). `OneRoom` says that there
  is such an `m`; it grows by one chunk whenever a handler takes the mutex, and no
  other step changes it. That chunks are not torn or passed is `MutexInv`; that nobody
  is registered in the middle of one, and that each registered connection has exactly
  one place in the array, is the mutex again and `RegistryExact`.
* `ProgramsProofs!MutualExclusion`, `TypeCorrect` and `Refinement`.
  `IInv` adds to the one permit where it is: a number waits to be added exactly while
  the permit is on its way from the reader to the accumulator (`CountInv`), which
  makes `Stored` and `Added` differ by at most one. Every step then maps to `Give`,
  `Take` or a stutter.
* `ForkEchoProofs!HolderCorrect`. `OneHolder` is inductive once the types of the three
  variables it rests on are added (`HoldersInv`): `fork` copies all that `main` has
  open, and that is only the connection it is about to fork or close for, because the
  copy is closed before the next `accept`.
* `ForkEchoProofs!TextCorrect`. `TextInv` says of each client who has it in hand: `ProcExact`
  (a client has no child before `fork`, and waits in the listen queue once), `Numbered` (what
  a child holds, and what is unread after it, are numbered on from what the child is done
  with, `Told`), `EchoExact` (the text on the screen, on its way back, in the child and unread
  is what was typed) and `LogExact`: the log followed by the pipe has of each client exactly
  the units up to `Told`, unless its child was killed with some in hand. So the chunk a
  child writes to the pipe is new to it and fits behind what it has (`ChunkFollows`),
  whatever other children have written in between and however the logger cuts the pipe.
* `WindowsProofs!ReceiveCorrect`, `FreedCorrect`. `OneReceive` counts; the invariant
  `PortInv` says where the one receive is: posted, in the port, or with a worker, and once
  only (`Once`). What it refers to is live there, but for the moment between a worker's
  `closesocket` and `free` (`Live`). A connection with an open socket has one, or was
  reset, or is the one `main` is about to post for (`Heard`); and a connection that has
  just been accepted has none yet, because it passes through the listen queue only
  once (`Fresh`). Completions of sends are not in the invariant at all, which is the
  reason why they may outlive `handleInfo`.
* `WindowsProofs!ReadIsOne`, `FreedIsNotUsed`. The same for `Windows`, with the types, and for
  `CmplRou`: `RouInv` says where the one operation is - a posted receive, a posted send or an
  entry of the queue (`OneOf`) - and that what it refers to is live (`Served`). That `SleepEx` takes
  the operation out of the queue before its routine posts the next is why there is never a
  second one.
* `WindowsProofs!LineIsIntact`. `LineInv` follows a line through the parts of the server in the
  order of its text: message, way back, posted sends, the worker's hands, the queue, unread
  (`InOrder`). A step moves text from one part to the one before (`JointMoves`). For this a
  connection must have text with one worker or in one entry of the queue at most, or two
  pieces could pass each other: that is `PortInv` or `RouInv`. What the sends hold together is
  the recursive `FlattenSeq`; `ListProofs!FlattenAppend` and `FlattenTail` say what it does.
* `WindowsProofs!PairsAreExact`. `NotiInv` has the pairing (`Paired`); that a client comes to the
  listen queue once, so that `accept` never files a socket that is filed or closed (`Comes`);
  and what was recorded for the sockets (`Reports`) and enumerated for the one at index `i`
  (`Enumerated`): the end of a connection is never reported for index 0, so that the
  listening socket stays. A gap is closed in both arrays at the same index; that there is
  always room follows from the number of clients (`FewClients`).
* `WindowsProofs!SocksAreExact`, `LinesAreSentOnce`. `ChatInv` says at each place in the code what
  `clntSocks` has (`Registered`): in the removal a superfluous entry at `Gap`, during an insertion one
  more than `clntCnt` counts. `Alone` is the reason: with the mutex only its owner changes or
  reads the array, and without it `spoiled` is set when two do. A line is sent once because the
  entries that a broadcast has not reached yet are counted as well (`Pending`, `Sent`): sockets
  are distinct among members, so the entry of a client lies either before the index or
  behind it. The exceptions are those of the properties, `misled` and `spoiled`, which stay true.

* `ProgramsProofs!MessagesInStep`. `TalkInv` says for each of the UDP programs where a line is that
  has not been answered. For the echo servers (`EchoTurn`, `OneOut`): in one place only, on its way
  to the server, in the server's hands or on its way back, and it is the last that was typed. For the
  conversation (`ChatTurn`): the turn is the client's, the server's, or the server has answered. For
  the three messages and the news (`Ordered`): what has come is older than what is on its way.
  What the network does to the datagrams on their way is said once, for all programs: those that
  remain were there (`Among`, also when one is doubled), each at most once (`Keeps`), in their order
  (`KeepsOrder`); `NetworkSteps` says which of the three each of its steps guarantees.
* `ProgramsProofs!ProgramsEndRight`. `Outcome` speaks of the end, and `TaskInv` of every place
  before it: what a task has still to do is the rest of its script, so its place is the number of
  calls that are left (`AtScript`, `Todo`), and for each program a table says what is then in memory,
  in the pipes, on the screen and among the ended children (`ForkInv`, `WaitInv`, `Pipe2Inv`, ...).
  The tables name every outcome that the scheduler can choose - in `Pipe2Inv` the child that has
  read its own message, so that the parent stays before its read. For `thread3`, where additions
  race, the bounds 3 and 10 follow from what each thread must still store (`Counts3`). The programs
  that count have no fixed length: for them `CounterInv` says how many additions each thread has left
  and where in the next it is (`FreeAt`, `OnceAt`, `EachAt`). The additions made are a set of pairs,
  a thread and a number (`Made`), so that their count does not depend on the order: with a lock,
  held from load to store, the counter is the positive ones less the negative ones; without,
  a thread may store what it loaded long ago, and the counter and all registers lie between the
  two (`Within`). `Repeat` is a recursive function; that a loop of n + 1 turns is a turn
  followed by a loop of n is `TurnsOnce`.
* `ListProofs!FilterProperties` and the lemmas with it. `Filter` is a recursive function,
  and what it returns for every sequence needs induction. The library's induction
  rules take an operator, which the provers cannot instantiate; `Induction` here takes
  a set of numbers instead and rests on the well-foundedness of `<` on `Nat`
  (`WFMin`), which is about sets.
* `EpollEchoProofs!EventsAreExact`. `EventsInv` says that descriptors are distinct and
  that the sequences of `epoll` and of the batch have no repetition and only registered
  descriptors (`FdsExact`, `BatchExact`); that what the batch has left is open
  (`EventsOpen`: the program closes the descriptor of the event it is at and no other,
  and a batch has it once); and that a descriptor with something to read is in the
  ready list, in the batch, or being served (`NoLostWakeup`). With edge triggering the last
  holds only because the program reads on until there is nothing.
* `EpollEchoProofs!EchoIsIntact`. The units of a line are, in order, on the client's screen,
  in its buffer, in the server's `buf`, unread in the socket, and on the way; their concatenation
  is always 1 up to what was written (`EchoOf`). The edge-triggered program ignores how
  much a nonblocking write took; `TakenWhole` shows that it took all, because the client has no
  more than one line out, from the assumption that a line fits the buffer (`MaxLine <= SockBuf`
  in `SizesAssumption`).
* `EpollChatProofs!LoopIsExact`. `LoopInv` is `EventsInv` for this loop, and that the first
  `clnt_cnt` slots are the open descriptors, each once (`SlotsExact`); that there is a slot for each
  follows from the number of clients (`CapacityAssumption`).
* `SelectEchoProofs!SetIsExact`, `LinuxClosesEnded`. That the set is exact (`ReadsExact`)
  is inductive with the types; that no read of the scan waits is not, and `SetInv` follows the scan: the
  listening socket comes first, being first in the array or the lowest descriptor, so
  `accept` meets no news it could spoil (`TurnExact`); up to there, all sockets reported are open;
  and `FD_CLR` on Windows moves entries only towards the front, behind the scan
  (`FilterOrder`), so that what lies ahead has been reported and not yet served
  (`NeverBlocksOnRead`). The Windows program has this only until it has closed a wrong
  socket, as the property says; the Linux program never does (`LinuxClosesEnded`).
* `SelectEchoProofs!EchoIsIntact`: as for `EpollEcho`, over any number of lines.

The assumptions are those the modules name: descriptors are integers, `NoFd` is none of
them; buffers hold at least one unit; the clients are finitely many, and no more than an array has slots
(`ThreadedChat`, `EpollChat`; the arrays of `Windows` have a place for each); `NoOne`, the listening socket and main
are not clients; the listening socket's descriptor is below those of the clients (`LowestAssumption`
of `SelectEcho`: it is created first, and the servers close nothing before it); and the sizes of
lines and buffers said above.

Only model-checked: all liveness (fairness and ENABLED are beyond the prover); and the safety of
the exchanges over TCP of `Scripts` and `Streams` (`ReplyRight`, `PrintsEnd`, `OwnConnection`). Which exchanges
there are, what their programs call and what reply is wanted is the value `MCExchanges`
gives to the constant `Exchanges`: for other values the three properties are false, so there is
no statement for every value of the constants, and with that one value fixed a proof would walk
through 29 exchanges cut by TCP in every place, which is what TLC does. Every other safety
property of the passing runs is a theorem.

## 5. Findings

`07_chat_serv.c:111` says "send a message to all client connected to server." The
sockets are nonblocking and the result of `write` is not looked at: a connected
client whose buffer is full gets a part of the chunk or nothing, and never the
rest. `epoll_chat_loss` shows it with two clients: one does not read, two units
fill its buffer, the third reaches only the other.

`echo_selectserv_win.c:78` closes `cpyReads.fd_array[i]` in the branch for the end of
the connection at `reads.fd_array[i]`. `select` has compacted the copy, so with two
sockets ready the two differ. `select_echo_close` shows it: one client leaves, another
writes, neither the listening socket nor anybody else has news; the copy is
`<<2, 3, 3>>`, the loop is at index 2 for socket 2 and closes socket 3. The client
that wrote is reset, socket 2 stays open, and the next `select` fails on the closed
socket and ends the server (`SelectError`).

`chat_serv_win.c:85` says of its loop "접속 해제한 클라이언트 삭제" (delete the client that
disconnected). The inner loop counts `j` but copies `clntSocks[i + 1]` to `clntSocks[i]` each time.
`win_chat_removal` shows it: three clients are in the array, the first leaves, and the array
is then the second client twice over its first two places, while the third is in none and
gets no text any more, although its thread serves it.

`win_chat_leaver` shows another way in which a client of `chat_serv_win.c` is not deleted. It closes
its connection, another's line is sent to it before its thread comes to `recv`, and the reset that comes
back turns the end of the connection into an error. `recv` returns -1 from then on; the loop in
line 79 stops at 0 only, so the thread runs on for ever and the client is never taken off.

More facts are built into the models, and named as exceptions by their properties,
rather than shown by a run of their own:

* the descriptor is handed over by the address of a variable of main, which may have
  changed: `chat_server.c:60`, `07_multi_thread_echo_serv.c`, `chat_serv_win.c:64`, `webserv_linux.c:52`;
* no test that the array has room in `chat_server.c`, `07_chat_serv.c` and the Windows chat servers
  (assumed not to be needed);
* `webserv_linux.c:108` does not close the stream of a request for a missing file, and the
  browser never sees the end;
* `05_tcp_server.c:62` and `05_tcp_client.c:41` read every piece of a letter to the start of `message`: of
  a letter in two pieces the second is stored over the first, and what is printed does not
  begin as the letter does (`PrintsEnd` asks for its end only);
* `jeongmo_op_server.c:46` reads the count, each operand and the operator with one `read` and looks
  only for -1: when one gets half of an int, what follows is taken for something else and
  the result is not that of the request (`ReplyRight` has the exception `short`);
* `webserv_win.c:87` goes on after the error message, which has closed the socket, and
  sends the page to that number as well, which may be another browser's by then (`OwnConnection`
  has the exception `loose`);
* `op_server.c:50` counts on at the end of the data and spins when a client leaves within
  its request;
* `sep_serv.c:57` closes both directions with the first `fclose`, and the thanks are lost;
* `06_IOCP_chat_serv_win.c:127` changes `clntCnt` and `clntSocks` in several threads without a lock;
* one lost datagram leaves both ends of `07_uchat_*.c` waiting, and `uecho_server_win.c:42` ends
  for all clients when one it answered is gone;
* `pipe2.c` has one pipe for both directions: a child that wakes early reads its own
  message, and its parent waits for ever;
* SIGCHLD merges while the handler takes one child per signal (`echo_mpserv.c:78`,
  `remove_zombie.c:9`).

## 6. Plan

What is left, in the order of its worth:

1. Theorems about the machines of `Streams`, `Tasks` and `Datagrams` that hold for every script: no
   unit is made up or passed in one direction of a connection, a lock has one owner, a
   datagram is one that was sent.
2. Abstract specifications: a chat room (each text enters one order, everybody sees a
   subsequence of it) refined by `ThreadedChat`; a channel of messages refined by the
   exchanges of Chapters 5 and 7 in `Streams`.
3. Out-of-band data: what a signal handler reads while main reads the stream.

## 7. Not modelled

*Components.* Out-of-band data, `readv` and `writev` (Ch. 13): the programs keep no state, and
what they show is what the kernel does with urgent data. Address conversion and name
lookup, socket options, low-level file calls, `select` on standard input (Ch. 1, 3, 8, 9, 12, 15):
samples that print what one library call returns.

*In what is modelled.* Argument checks; socket, bind and listen at start and their errors; the
wording of messages; printing, except where a program's output is its result (`Outcome`);
thread and process creation that fails, except in `ForkEcho`, where `fork` may fail; what the
kernel does below a system call except as described above. In `AsynNoti` the error codes that
say that the network is down. In `WinChat` the `ioInfo` that `06_IOCP_chat_serv_win.c:144` leaks with
every message: nothing of the program's behaviour depends on it before memory runs
out. In the web servers the text of the answers, and file names without an extension.
A line is at most one read for the chat clients of `WinChat`. The capacity of the arrays
(`MAX_CLNT`, `EPOLL_SIZE`, `WSA_MAXIMUM_WAIT_EVENTS`) is not passed, except for the set of `select`,
where the code's behaviour at the limit is defined.
