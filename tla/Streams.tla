------------------------------- MODULE Streams -------------------------------
(***************************************************************************)
(* The machine that runs the programs of Scripts: one server process with  *)
(* its main thread and a thread per connection where the program has them, *)
(* its clients, and the TCP connections between them.  A read returns any  *)
(* part of what is on its way; closing with something unread, or writing   *)
(* to a closed end, resets the connection.  A call that spins for ever is  *)
(* a task that takes no step any more.                                     *)
(***************************************************************************)
EXTENDS Calls, FiniteSets, Functions

CONSTANTS Main,       \* the server's main thread
          Exchanges,  \* name -> [serv, hand, clnt, want, win]
          Impatient,  \* clients that may be killed at any time
          Fds         \* descriptors of the server process

VARIABLES ex,         \* the exchange that runs
          todo,       \* task -> the calls it has still to make
          sock, out,  \* thread -> the descriptors it reads and writes; main's is clnt_sock
          fdt,        \* descriptor -> the client at its other end
          net,        \* end of a connection -> what is on its way to it, and its state
          backlog,    \* connected clients that wait for accept
          listening, mutex,
          guest,      \* the client accepted last
          killed,     \* the server was ended by SIGPIPE or a failed check
          rcvd, wrote,\* end -> everything read and written there
          short,      \* tasks that read once and got part of an item
          hurt,       \* clients that were killed, found no server or could not be accepted
          strayed,    \* handlers that used a descriptor that was not their client's
          loose,      \* handlers that copied clnt_sock too late or close their socket twice
          shown       \* end -> the letters printed there
table == <<sock, out, fdt, backlog, listening, mutex, guest>>
marks == <<loose, shown>>
past  == <<rcvd, wrote, short, hurt, strayed, marks>>
vars  == <<ex, todo, net, killed, table, past>>

None       == 0
Handler(c) == <<Main, c>>
Threads == {Main} \cup {Handler(c) : c \in Clients}
Tasks   == Clients \cup Threads
Points  == Clients \X {"c", "s"}   \* the two ends of each client's connection
Peer(e) == <<e[1], IF e[2] = "c" THEN "s" ELSE "c">>
X       == Exchanges[ex]
Now(t)  == IF todo[t] = <<>> THEN Call("end") ELSE Head(todo[t])
Rest(t) == Tail(todo[t])
\* What task t has behind descriptor fd (a client has only one).
In(t)  == IF t \in Clients THEN None ELSE sock[t]
Out(t) == IF t \in Clients THEN None ELSE out[t]
End(t, fd) == IF t \in Clients THEN <<t, "c">> ELSE <<fdt[fd], "s">>
Bad(t, fd) == IF t \in Clients THEN ~net[<<t, "c">>].open ELSE fdt[fd] = None
Own(t, fd) == t \in Clients \cup {Main} \/ t = Handler(fdt[fd])
Uses(t, fd) == strayed' = IF Own(t, fd) THEN strayed ELSE strayed \cup {t}

Init ==
    /\ ex \in DOMAIN Exchanges
    /\ todo = [t \in Tasks |-> CASE t = Main -> X.serv
                                 [] t \in DOMAIN X.clnt -> X.clnt[t]
                                 [] OTHER -> <<>>]
    /\ sock = [t \in Threads |-> None] /\ out = sock
    /\ fdt = [fd \in Fds \cup {None} |-> None]
    /\ net = [e \in Points |-> [in |-> <<>>, eof |-> FALSE, rst |-> "no", open |-> FALSE]]
    /\ backlog = <<>> /\ listening = FALSE /\ mutex = {} /\ guest = None /\ killed = FALSE
    /\ rcvd = [e \in Points |-> <<>>] /\ wrote = rcvd
    /\ short = {} /\ hurt = {} /\ strayed = {} /\ loose = {}
    /\ shown = [e \in Points |-> <<>>]

-----------------------------------------------------------------------------
(* Connections and processes.                                              *)

\* After the ends in E are closed: the peer of each sees the end of the data,
\* and a reset if something had not been read or was never accepted.
Closed(E) ==
    [e \in Points |->
        CASE e \in E -> [net[e] EXCEPT !.open = FALSE, !.in = <<>>]
          [] e \notin E /\ Peer(e) \in E /\ net[Peer(e)].open ->
               LET lost == net[Peer(e)].in # <<>> \/ (e[2] = "c" /\ e[1] \in Range(backlog))
               IN  [net[e] EXCEPT !.eof = TRUE,
                                  !.rst = IF lost /\ @ = "no" THEN "sent" ELSE @]
          [] OTHER -> net[e]]

Goes(t, calls) == todo' = [todo EXCEPT ![t] = calls]
Does(t, name)  == Now(t).op = name /\ Goes(t, Rest(t))

\* The process of task t ends and the kernel closes what it has open.
Ended(t, dies) ==
    IF t \in Clients
    THEN net' = Closed({<<t, "c">>}) /\ Goes(t, <<>>) /\ UNCHANGED <<table, killed>>
    ELSE /\ net' = Closed(Clients \X {"s"})
         /\ todo' = [u \in Tasks |-> IF u \in Threads THEN <<>> ELSE todo[u]]
         /\ fdt' = [fd \in DOMAIN fdt |-> None] /\ backlog' = <<>> /\ listening' = FALSE
         /\ killed' = dies
         /\ UNCHANGED <<sock, out, mutex, guest>>

Exits(t) == Now(t).op = "exit" /\ Ended(t, FALSE) /\ UNCHANGED <<ex, past>>

Interrupt(c) == /\ c \in Impatient /\ net[<<c, "c">>].open /\ Ended(c, FALSE)
                /\ hurt' = hurt \cup {c}
                /\ UNCHANGED <<ex, rcvd, wrote, short, strayed, marks>>

\* What the peer had sent before, and has not been read, may be lost with it.
ResetArrives(e) ==
    /\ net[e].rst = "sent" /\ net[e].open
    /\ \E k \in 0..Len(net[e].in) :
          net' = [net EXCEPT ![e].rst = "here", ![e].in = SubSeq(@, 1, k)]
    /\ UNCHANGED <<ex, todo, killed, table, past>>

-----------------------------------------------------------------------------
(* Setting up and closing.                                                 *)

Listens(t) == Does(t, "listen") /\ listening' = TRUE
              /\ UNCHANGED <<ex, net, killed, sock, out, fdt, backlog, mutex, guest, past>>

Connects(c) ==
    /\ Does(c, "connect") /\ listening
    /\ net' = [e \in Points |-> IF e[1] = c THEN [net[e] EXCEPT !.open = TRUE] ELSE net[e]]
    /\ backlog' = Append(backlog, c)
    /\ UNCHANGED <<ex, killed, sock, out, fdt, listening, mutex, guest, past>>

Refused(c) == /\ Now(c).op = "connect" /\ ~listening /\ Ended(c, FALSE)
              /\ hurt' = hurt \cup {c}
              /\ UNCHANGED <<ex, rcvd, wrote, short, strayed, marks>>

\* Linux gives the lowest free number; Windows any, of which two are enough: the
\* one main got last, if it is free again, and another.
Lowest(free) == {fd \in free : \A g \in free : fd <= g}
FreeFds == LET free == {fd \in Fds : fdt[fd] = None}
           IN  IF X.win THEN Lowest(free) \cup Lowest(free \ {sock[Main]}) ELSE Lowest(free)

Accepts(t) ==
    /\ Does(t, "accept") /\ backlog # <<>>
    /\ \E fd \in FreeFds :
          /\ sock' = [sock EXCEPT ![t] = fd] /\ out' = [out EXCEPT ![t] = fd]
          /\ fdt' = [fdt EXCEPT ![fd] = Head(backlog)]
    /\ guest' = Head(backlog) /\ backlog' = Tail(backlog)
    /\ UNCHANGED <<ex, net, killed, listening, mutex, past>>

\* accept fails, for want of a descriptor: most programs test the result and exit.
AcceptFails(t) ==
    /\ Now(t).op = "accept" /\ backlog # <<>>
    /\ IF Now(t).chk THEN Ended(t, TRUE)
       ELSE /\ Goes(t, Rest(t))
            /\ sock' = [sock EXCEPT ![t] = None] /\ out' = [out EXCEPT ![t] = None]
            /\ UNCHANGED <<net, killed, fdt, backlog, listening, mutex, guest>>
    /\ hurt' = hurt \cup {Head(backlog)}
    /\ UNCHANGED <<ex, rcvd, wrote, short, strayed, marks>>

Spawns(t) ==
    /\ Now(t).op = "spawn"
    /\ LET h == Handler(guest)
       IN  /\ todo' = [todo EXCEPT ![t] = Rest(t), ![h] = X.hand]
           /\ sock' = [sock EXCEPT ![h] = sock[t]] /\ out' = [out EXCEPT ![h] = sock[t]]
    /\ UNCHANGED <<ex, net, killed, fdt, backlog, listening, mutex, guest, past>>

\* A handler that was given the address of clnt_sock reads it, too late if main
\* has accepted another client by then.
Copies(t) ==
    /\ Does(t, "copy")
    /\ sock' = [sock EXCEPT ![t] = sock[Main]] /\ out' = [out EXCEPT ![t] = sock[Main]]
    /\ loose' = IF guest = t[2] THEN loose ELSE loose \cup {t}
    /\ UNCHANGED <<ex, net, killed, fdt, backlog, listening, mutex, guest, rcvd, wrote, short,
                   hurt, strayed, shown>>

\* A stream made of a bad descriptor is NULL, and using it ends the server.
Dups(t) ==
    /\ Now(t).op = "dup" /\ Uses(t, sock[t])
    /\ IF Bad(t, sock[t]) THEN Ended(t, TRUE)
       ELSE /\ \E fd \in FreeFds : /\ out' = [out EXCEPT ![t] = fd]
                                   /\ fdt' = [fdt EXCEPT ![fd] = fdt[sock[t]]]
            /\ Goes(t, Rest(t))
            /\ UNCHANGED <<net, killed, sock, backlog, listening, mutex, guest>>
    /\ UNCHANGED <<ex, rcvd, wrote, short, hurt, marks>>

\* The connection ends with its last descriptor; a descriptor that is not open
\* is refused, one that is open again by now is closed for its new owner.
CloseFd(t, fd) ==
    /\ Goes(t, Rest(t)) /\ Uses(t, fd)
    /\ IF Bad(t, fd) THEN UNCHANGED <<net, fdt>>
       ELSE IF t \in Clients THEN net' = Closed({End(t, fd)}) /\ UNCHANGED fdt
       ELSE /\ fdt' = [fdt EXCEPT ![fd] = None]
            /\ net' = IF \E g \in Fds \ {fd} : fdt[g] = fdt[fd] THEN net
                      ELSE Closed({End(t, fd)})
    /\ UNCHANGED <<ex, killed, sock, out, backlog, listening, mutex, guest, rcvd, wrote,
                   short, hurt, marks>>

Closes(t) == \/ Now(t).op = "close" /\ CloseFd(t, In(t))
             \/ Now(t).op = "closew" /\ CloseFd(t, Out(t))

ClosesListener(t) ==
    /\ Does(t, "closel") /\ listening' = FALSE /\ backlog' = <<>>
    /\ net' = Closed(Range(backlog) \X {"s"})
    /\ UNCHANGED <<ex, killed, sock, out, fdt, mutex, guest, past>>

Shuts(t) == /\ Does(t, "shut")
            /\ net' = IF Bad(t, out[t]) THEN net
                      ELSE [net EXCEPT ![Peer(End(t, out[t]))].eof = TRUE]
            /\ UNCHANGED <<ex, killed, table, past>>

Locks(t) == Does(t, "lock") /\ mutex = {} /\ mutex' = {t}
            /\ UNCHANGED <<ex, net, killed, sock, out, fdt, backlog, listening, guest, past>>
Unlocks(t) == Does(t, "unlock") /\ mutex' = {}
              /\ UNCHANGED <<ex, net, killed, sock, out, fdt, backlog, listening, guest, past>>

-----------------------------------------------------------------------------
(* Writing.                                                                *)

Writes(t) ==
    LET e == End(t, Out(t)) m == Now(t).m
    IN  /\ Goes(t, Rest(t)) /\ ~Bad(t, Out(t)) /\ net[e].rst \in {"no", "sent"}
        /\ wrote' = [wrote EXCEPT ![e] = @ \o m]
        /\ net' = IF net[Peer(e)].open THEN [net EXCEPT ![Peer(e)].in = @ \o m]
                  ELSE [net EXCEPT ![e].rst = "sent"]
        /\ Uses(t, Out(t))
        /\ UNCHANGED <<ex, killed, table, rcvd, short, hurt, marks>>

\* The reset is reported once; nobody looks at the result of the write.
WriteFails(t) ==
    LET e == End(t, Out(t))
    IN  /\ Goes(t, Rest(t))
        /\ IF Bad(t, Out(t)) THEN UNCHANGED net
           ELSE /\ net[e].rst = "here"
                /\ net' = IF X.win THEN net ELSE [net EXCEPT ![e].rst = "seen"]
        /\ Uses(t, Out(t))
        /\ UNCHANGED <<ex, killed, table, rcvd, wrote, short, hurt, marks>>

BrokenPipe(t) ==
    /\ ~X.win /\ ~Bad(t, Out(t))
    /\ net[End(t, Out(t))].rst \in {"here", "seen"}
    /\ Ended(t, TRUE) /\ Uses(t, Out(t))
    /\ UNCHANGED <<ex, rcvd, wrote, short, hurt, marks>>

-----------------------------------------------------------------------------
(* Reading.                                                                *)

\* A loop that counts goes on for what is missing.
CountsOnce(i, piece, more) == more   \* in a changed program: one read will do
Counting(i, piece, more) ==
    IF Len(piece) >= i.left THEN more ELSE <<[i EXCEPT !.left = @ - Len(piece)]>> \o more

\* The next piece of a letter goes over the one before it.
Over(piece, m) == piece \o SubSeq(m, Len(piece) + 1, Len(m))

\* The calls that are left when the int that says how much comes has become n.
\* More operands than ever come are as good as a loop that counts.
Announced(t, n) ==
    LET i == Now(t)
        opnds == IF n < Many THEN Repeat(n, <<Read(2, Check)>>) ELSE <<Count(n, Check)>>
    IN  IF i.op = "length" THEN <<MoreOf(n, <<>>, i.tails)>> \o Rest(t)
        ELSE (IF n > 0 THEN opnds ELSE <<>>) \o <<Read(1, Check)>> \o Rest(t)

Ints    == {"operands", "length"}
Once    == {"read"} \cup Ints            \* one call for an item
Persist == {"count", "sized", "letter"}   \* that go on for what is missing
Inputs  == Once \cup Persist \cup {"eof", "gets", "echo", "echoline"}

\* The calls that may be left when task t has read a piece of end e, or nothing.
After(t, e, piece) ==
    LET i == Now(t)
        more == Rest(t)
        again == todo[t]
        pending == SubSeq(rcvd[e] \o piece, Len(wrote[e]) + 1, Len(rcvd[e]) + Len(piece))
    IN  CASE i.op = "read"     -> {more}
          [] i.op = "eof"      -> {again}
          [] i.op = "gets"     -> {IF Ends(piece) THEN more ELSE again}
          [] i.op = "echo"     -> {<<Write(piece)>> \o again}
          [] i.op = "echoline" -> {IF Ends(piece) THEN <<Write(pending)>> \o again ELSE again}
          [] i.op = "count"    -> {Counting(i, piece, more)}
          [] i.op = "sized"    -> {<<Count(i.size * piece[1][2] + i.left, FALSE)>> \o more}
          [] i.op \in Ints     -> {Announced(t, n) : n \in IntRead(piece, i.kept)}
          [] i.op = "letter"   -> {<<MoreOf(i.left - Len(piece), Over(piece, i.m), i.tails)>> \o more}

AfterNothing(t) ==
    IF Now(t).op \in Ints THEN {Announced(t, n) : n \in Now(t).kept} ELSE {Rest(t)}

ReadsData(t) ==
    LET e == End(t, In(t))
    IN  /\ ~Bad(t, In(t))
        /\ \E k \in 1..Now(t).n :
              /\ k <= Len(net[e].in)
              /\ LET piece == SubSeq(net[e].in, 1, k)
                 IN  /\ \E calls \in After(t, e, piece) : Goes(t, calls)
                     /\ rcvd' = [rcvd EXCEPT ![e] = @ \o piece]
                     /\ net' = [net EXCEPT ![e].in = SubSeq(@, k + 1, Len(@))]
                     /\ short' = IF Now(t).op \in Once /\ ~Whole(piece) THEN short \cup {t}
                                 ELSE short
        /\ Uses(t, In(t))
        /\ UNCHANGED <<ex, killed, table, wrote, hurt, marks>>

\* The letter, and what its buffer held behind it.
Shows(t) ==
    /\ Does(t, "show")
    /\ \E tail \in Now(t).tails :
          shown' = [shown EXCEPT ![End(t, In(t))] = Append(@, Now(t).m \o tail)]
    /\ UNCHANGED <<ex, net, killed, table, rcvd, wrote, short, hurt, strayed, loose>>

Peeks(t) == /\ Does(t, "peek") /\ net[End(t, In(t))].in # <<>>
            /\ UNCHANGED <<ex, net, killed, table, past>>

\* Refused after a reset, it never completes and the program waits for ever.
Arms(t) == /\ Does(t, "arm")
           /\ LET e == net[End(t, In(t))] IN e.in # <<>> \/ e.rst # "here"
           /\ UNCHANGED <<ex, net, killed, table, past>>

\* A loop that counts what it reads spins at the end of the data.
ReadsEof(t) ==
    LET e == net[End(t, In(t))]
    IN  /\ Now(t).op \notin Persist /\ ~Bad(t, In(t))
        /\ e.in = <<>> /\ e.rst # "here" /\ (e.eof \/ e.rst = "seen")
        /\ (\E calls \in AfterNothing(t) : Goes(t, calls)) /\ Uses(t, In(t))
        /\ UNCHANGED <<ex, net, killed, table, rcvd, wrote, short, hurt, marks>>

\* -1: for ever on a bad descriptor and on Windows, otherwise once.
ReadFails(t) ==
    LET e == End(t, In(t))
    IN  /\ ~Bad(t, In(t)) => net[e].in = <<>> /\ net[e].rst = "here"
        /\ IF Now(t).chk THEN Ended(t, TRUE)
           ELSE /\ \E calls \in IF Now(t).op \in Once \cup {"gets", "echoline"}
                               THEN AfterNothing(t) ELSE {todo[t]} : Goes(t, calls)
                /\ net' = IF X.win \/ Bad(t, In(t)) THEN net
                          ELSE [net EXCEPT ![e].rst = "seen"]
                /\ UNCHANGED <<killed, table>>
        /\ Uses(t, In(t))
        /\ UNCHANGED <<ex, rcvd, wrote, short, hurt, marks>>

-----------------------------------------------------------------------------
(* Answering.                                                              *)

\* If the request was read whole, its operands and its operator are where they belong.
Result(t) ==
    LET items == SelectSeq(rcvd[End(t, In(t))], LAMBDA u : u[1] # "rest")
        n == items[1][2]
        whole == t \notin short /\ items # <<>> /\ Len(items) = n + 2
    IN  IF whole THEN calculate(n, [i \in 1..n |-> items[i + 1][2]], items[n + 2][2]) ELSE Garbage

Calculates(t) ==
    /\ Now(t).op = "calculate"
    /\ Goes(t, <<Write(Number(Result(t)))>> \o Rest(t))
    /\ UNCHANGED <<ex, net, killed, table, past>>

\* The file whose name has come is sent, unless it does not exist.
Opens(t) ==
    /\ Now(t).op = "open"
    /\ LET whole == t \notin short /\ rcvd[End(t, In(t))] # <<>>
       IN  \/ /\ Goes(t, <<Write(IF whole THEN file_contents ELSE other_file)>> \o Rest(t))
              /\ UNCHANGED <<net, killed, table>>
           \/ Ended(t, TRUE)
    /\ UNCHANGED <<ex, past>>

\* A request line that did not come whole has no HTTP/ in it; if nothing came the
\* buffer holds anything.
Kinds(r) == IF r = <<>> THEN Requests ELSE IF Ends(r) THEN {r[1][3]} ELSE {"junk"}

Routes(t) ==
    /\ Now(t).op = "route"
    /\ LET c == IF Bad(t, In(t)) THEN t[2] ELSE End(t, In(t))[1]
           r == IF Bad(t, In(t)) THEN <<>> ELSE rcvd[<<c, "s">>]
       IN  \E kind \in Kinds(r) :
             /\ Goes(t, IF X.win THEN AnswerWin(kind, c) ELSE Answer(kind, c))
             /\ loose' = IF X.win /\ kind \in {"post", "junk"} THEN loose \cup {t} ELSE loose
    /\ UNCHANGED <<ex, net, killed, table, rcvd, wrote, short, hurt, strayed, shown>>

-----------------------------------------------------------------------------
Step(t) ==
    \/ Now(t).op = "write" /\ (Writes(t) \/ WriteFails(t) \/ BrokenPipe(t))
    \/ Now(t).op \in Inputs /\ (ReadsData(t) \/ ReadsEof(t) \/ ReadFails(t))
    \/ Closes(t) \/ Exits(t) \/ Shows(t)
Serving(t) ==
    \/ Listens(t) \/ Accepts(t) \/ AcceptFails(t) \/ Spawns(t) \/ Copies(t) \/ Dups(t)
    \/ ClosesListener(t) \/ Shuts(t) \/ Locks(t) \/ Unlocks(t) \/ Peeks(t) \/ Arms(t) \/ Calculates(t)
    \/ Opens(t) \/ Routes(t)
Busy == {t \in Tasks : todo[t] # <<>>}

Progress == \/ \E t \in Busy : Step(t)
            \/ \E c \in Clients \cap Busy : Connects(c) \/ Refused(c)
            \/ \E t \in Threads \cap Busy : Serving(t)
            \/ \E e \in Points : ResetArrives(e)
Next == Progress \/ \E c \in Clients : Interrupt(c)

\* Every process and the network make progress; nobody has to be interrupted.  Each
\* step uses something up, so a fair behaviour ends with nothing left to do, and one
\* condition says the same as one for each task.
Spec == Init /\ [][Next]_vars /\ WF_vars(Progress)

-----------------------------------------------------------------------------
(* Properties.                                                             *)

Done(t) == todo[t] = <<>>
Misled  == strayed # {}
\* Nothing unusual has happened in this behaviour.
Calm    == hurt = {} /\ short = {} /\ ~killed /\ ~Misled
\* Exchanges in which a program closes its end before it has read everything.
Resetting == {"file5", "sep", "web", "web_p", "webs", "webs_m"}
Browses(c, kind) == X.clnt[c] = browser(c, kind)

\* What a client has read is always a prefix of the reply the programs promise
\* it - the greeting, its own lines, the contents, the result of its own request.
\* When a client has ended and nothing unusual happened (no client killed or
\* refused, no single read that got part of an item), it is the whole reply, and
\* its server has read all it wrote.
ReplyRight ==
    ~Misled =>
       \A c \in {d \in DOMAIN X.clnt : short \cap {Main, Handler(d)} = {}} :
          /\ \E k \in 0..Len(X.want[c]) : rcvd[<<c, "c">>] = SubSeq(X.want[c], 1, k)
          /\ Done(c) /\ Calm /\ ex \notin Resetting => rcvd[<<c, "c">>] = X.want[c]
          /\ Done(c) /\ ~net[<<c, "s">>].open /\ Calm /\ ex \notin Resetting
                => rcvd[<<c, "s">>] = wrote[<<c, "c">>]

\* Handlers use the descriptors of their own clients until one of them makes one of
\* two slips: it read clnt_sock after main had accepted another client, or it answers
\* what is not a whole GET request, after which the Windows server closes a socket
\* twice.  A handler that has not, but finds its descriptor closed or another's, has
\* it from one that has, whatever was accepted, answered, reset and closed meanwhile.
OwnConnection == Misled => strayed \cap loose # {}

\* What 05_tcp_server.c and 05_tcp_client.c print as a message begins with the letter the
\* other has sent, two units behind two of its length, or with the end of it: its last
\* piece, if it did not come in one.  Nothing of another letter or of a length stands
\* there, as long as each length has come whole.
PrintsEnd ==
    Calm => \A e \in Points : \A k \in DOMAIN shown[e] :
                \E j \in 1..2 : \E n \in 0..Len(shown[e][k]) :
                    SubSeq(shown[e][k], 1, n) = SubSeq(wrote[Peer(e)], 4 * k - 2 + j, 4 * k)

\* A client that has connected comes to its end, unless the server was killed, or
\* a handler went astray, or the server spins after a client that was killed, left
\* part of its reply unread or could not be accepted (every read of a Windows server
\* then fails; the calculator counts on at the end of the data), or a count or a length
\* was cut, so that one end waits or reads for ever for what the other has not sent,
\* or the file it asks the Linux web server for is missing.  All of this lasts, so that
\* what holds again and again holds from some time on.
Excused(c) ==
    \/ killed \/ Misled
    \/ X.win /\ hurt \cup short # {}
    \/ ex = "op" /\ hurt # {}
    \/ ex \in {"letters", "op_j"} /\ short # {}
    \/ ex = "web" /\ Browses(c, "missing")
Served == []<>(\A c \in Clients : Done(c) \/ Excused(c))
=============================================================================
