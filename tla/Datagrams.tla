------------------------------ MODULE Datagrams ------------------------------
(***************************************************************************)
(* The programs that talk over UDP - echo, chat in turns, the two hosts    *)
(* that show message boundaries, and the news by multicast and broadcast - *)
(* as scripts, and the machine that runs them.  A datagram arrives whole   *)
(* or not at all; the network may lose, copy and delay MaxFaults of them.  *)
(***************************************************************************)
EXTENDS Turns

CONSTANTS Messages,   \* lines a user types before Q
          Pieces,     \* datagrams the news takes: fgets cuts lines at BUF_SIZE
          MaxFaults   \* datagrams lost, copied or overtaken

serv == "serv"
Hosts == {serv, "c1", "c2"}

Op(name)    == [op |-> name, chk |-> FALSE]
Say(to)     == [op |-> "say", to |-> to]        \* sendto with what the user types
Recv(chk)   == [op |-> "recv", chk |-> chk]     \* recvfrom; chk: -1 ends the program
Echo        == Op("echo")                       \* sendto the last sender what it sent
Answer      == Op("answer")                     \* sendto the last sender what the user types
Close       == Op("close")

-----------------------------------------------------------------------------
(* The programs; those in loop start again for ever.                       *)

uecho_server      == <<Recv(FALSE), Echo>>
uecho_server_win  == <<Recv(TRUE), Echo>>
uchat_server      == <<Recv(TRUE), Answer>>
uecho_client      == Repeat(Messages, <<Say({serv}), Recv(FALSE)>>) \o <<Close>>
uecho_con_client  == uecho_client
uecho_client_win  == Repeat(Messages, <<Say({serv}), Recv(TRUE)>>) \o <<Close>>
BothListen        == Repeat(Messages, <<Recv(TRUE), Say({serv})>>) \o <<Close>>  \* in a changed program
uchat_client      == uecho_client_win
bound_host1       == Repeat(3, <<Say({"c2"})>>) \o <<Close>>
bound_host2       == Repeat(3, <<Recv(FALSE)>>) \o <<Close>>
Group             == {"c1", "c2"}   \* receivers that have joined the group, or are on the network
news_sender       == Repeat(Pieces, <<Say(Group)>>) \o <<Close>>
news_sender_brd   == news_sender
news_sender_win   == news_sender
news_receiver     == <<Recv(TRUE)>>
news_receiver_brd == news_receiver
news_receiver_win == news_receiver

Pair(s, c1, c2, loop, win) ==
    [serv |-> s, c1 |-> c1, c2 |-> c2, loop |-> loop, win |-> win]
Talks ==
    [none  |-> Pair(<<>>, <<>>, <<>>, {}, FALSE),
     uecho |-> Pair(uecho_server, uecho_client, uecho_con_client, {serv}, FALSE),
     uechw |-> Pair(uecho_server_win, uecho_client_win, uecho_client_win, {serv}, TRUE),
     uchat |-> Pair(uchat_server, uchat_client, <<>>, {serv}, FALSE),
     bound |-> Pair(<<>>, bound_host1, bound_host2, {}, FALSE),
     news  |-> Pair(news_sender, news_receiver, news_receiver, Group, FALSE),
     brd   |-> Pair(news_sender_brd, news_receiver_brd, news_receiver_brd, Group, FALSE),
     newsw |-> Pair(news_sender_win, news_receiver_win, news_receiver_win, Group, TRUE)]

-----------------------------------------------------------------------------
VARIABLES talk,     \* the programs that run
          calls,    \* host -> the calls it has still to make
          inbox,    \* host -> [from, m] that are on their way to it or waiting
          open,     \* hosts whose socket is open
          peer,     \* host -> your_addr: the sender it heard last
          said,     \* host -> how many lines were typed there
          got,      \* host -> what it received
          refused,  \* hosts that are to be told that nobody had their datagram
          faults,   \* what the network has done to datagrams
          left      \* clients that were interrupted
history == <<talk, faults, left>>
vars == <<calls, inbox, open, peer, said, got, refused, history>>

Now(h)  == IF calls[h] = <<>> THEN Op("end") ELSE Head(calls[h])
Does(h, name) ==
    /\ Now(h).op = name
    /\ calls' = [calls EXCEPT ![h] = IF Len(@) = 1 /\ h \in Talks[talk].loop
                                     THEN Talks[talk][h] ELSE Tail(@)]
Posted(h, to, m) == [r \in Hosts |-> IF r \in to THEN Append(inbox[r], [from |-> h, m |-> m])
                                     ELSE inbox[r]]

Init ==
    /\ talk \in DOMAIN Talks
    /\ calls = [h \in Hosts |-> Talks[talk][h]]
    /\ inbox = [h \in Hosts |-> <<>>] /\ open = {h \in Hosts : Talks[talk][h] # <<>>}
    /\ peer = [h \in Hosts |-> "nobody"] /\ said = [h \in Hosts |-> 0]
    /\ got = [h \in Hosts |-> <<>>] /\ refused = {} /\ faults = <<>> /\ left = {}

Types(h, to) == /\ said' = [said EXCEPT ![h] = @ + 1]
                /\ inbox' = Posted(h, to, <<h, said[h] + 1>>)
                /\ UNCHANGED <<open, peer, got, refused, history>>

Says(h)    == Does(h, "say") /\ Types(h, Now(h).to)
Answers(h) == Does(h, "answer") /\ Types(h, {peer[h]})
Echoes(h)  == /\ Does(h, "echo") /\ inbox' = Posted(h, {peer[h]}, got[h][Len(got[h])])
              /\ UNCHANGED <<open, peer, said, got, refused, history>>

\* In a changed program the address of the first sender is kept.
KeepsFirst(h) ==
    /\ Does(h, "recv") /\ inbox[h] # <<>> /\ h \notin refused
    /\ got' = [got EXCEPT ![h] = Append(@, Head(inbox[h]).m)]
    /\ peer' = [peer EXCEPT ![h] = IF @ = "nobody" THEN Head(inbox[h]).from ELSE @]
    /\ inbox' = [inbox EXCEPT ![h] = Tail(@)]
    /\ UNCHANGED <<open, said, refused, history>>
Recvs(h) ==
    /\ Does(h, "recv") /\ inbox[h] # <<>> /\ h \notin refused
    /\ got' = [got EXCEPT ![h] = Append(@, Head(inbox[h]).m)]
    /\ peer' = [peer EXCEPT ![h] = Head(inbox[h]).from]
    /\ inbox' = [inbox EXCEPT ![h] = Tail(@)]
    /\ UNCHANGED <<open, said, refused, history>>

Ended(h) == calls' = [calls EXCEPT ![h] = <<>>] /\ open' = open \ {h}

\* Windows reports that an earlier datagram was not taken; the check ends the program.
RecvFails(h) ==
    /\ Now(h).op = "recv" /\ h \in refused /\ Now(h).chk /\ Ended(h)
    /\ refused' = refused \ {h}
    /\ UNCHANGED <<inbox, peer, said, got, history>>

Closes(h) == /\ Now(h).op = "close" /\ Ended(h)
             /\ UNCHANGED <<inbox, peer, said, got, refused, history>>

\* The user of one of the echo clients stops it.
Interrupt(h) == /\ talk \in {"uecho", "uechw"} /\ h = "c1" /\ h \in open /\ Ended(h)
                /\ left' = left \cup {h}
                /\ UNCHANGED <<inbox, peer, said, got, refused, talk, faults>>

\* A datagram for a closed port: it had arrived before, or its sender hears of it.
Bounces(h) ==
    /\ h \notin open /\ inbox[h] # <<>>
    /\ inbox' = [inbox EXCEPT ![h] = Tail(@)]
    /\ refused' \in {refused, IF Talks[talk].win THEN refused \cup {Head(inbox[h]).from} ELSE refused}
    /\ UNCHANGED <<calls, open, peer, said, got, history>>

Fault(name, h, box) ==
    /\ Len(faults) < MaxFaults /\ faults' = Append(faults, name)
    /\ inbox' = [inbox EXCEPT ![h] = box]
    /\ UNCHANGED <<calls, open, peer, said, got, refused, talk, left>>
Loses(h)     == \E i \in DOMAIN inbox[h] :
                    Fault("lost", h, SubSeq(inbox[h], 1, i - 1) \o SubSeq(inbox[h], i + 1, Len(inbox[h])))
Copies(h)    == inbox[h] # <<>> /\ Fault("copied", h, Append(inbox[h], Head(inbox[h])))
Overtakes(h) == /\ Len(inbox[h]) > 1
                /\ Fault("moved", h, Append(Tail(inbox[h]), Head(inbox[h])))

Progress == \E h \in Hosts : \/ Says(h) \/ Answers(h) \/ Echoes(h) \/ Recvs(h)
                             \/ RecvFails(h) \/ Closes(h) \/ Bounces(h)
Next == Progress \/ \E h \in Hosts : Interrupt(h) \/ Loses(h) \/ Copies(h) \/ Overtakes(h)

\* Programs run and datagrams that are not lost arrive.  Users and the network need
\* not disturb them.  A step uses up a call or a datagram, and the loops run on input.
Spec == Init /\ [][Next]_vars /\ WF_vars(Progress)

-----------------------------------------------------------------------------
(* Properties.                                                             *)

Had(fault)    == \E i \in DOMAIN faults : faults[i] = fault
Typed(h, n)   == [k \in 1..n |-> <<h, k>>]
Increasing(s) == \A i, j \in DOMAIN s : i < j => s[i][2] < s[j][2]

\* A client of an echo server reads its own lines, in order, and never another
\* client's; in the chat each has said as much as the other, give or take the one
\* whose turn it is: loss and delay only stop the exchange, a copied datagram puts
\* it out of step.  What the receiver of three messages or of the news gets is each
\* datagram as it was sent, in order unless one was overtaken or copied.
InStep ==
    /\ talk \in {"uecho", "uechw"} =>
          \A c \in Group : /\ \A i \in DOMAIN got[c] : got[c][i][1] = c
                           /\ ~Had("copied") => \E n \in 0..said[c] : got[c] = Typed(c, n)
    /\ talk = "uchat" /\ ~Had("copied") =>
          said["c1"] - said[serv] \in {0, 1} /\ \E n \in 0..said[serv] : got["c1"] = Typed(serv, n)
    /\ talk \in {"bound", "news", "brd", "newsw"} =>
          \A c \in Group : /\ ~Had("copied") /\ ~Had("moved") => Increasing(got[c])
                           /\ Len(got[c]) <= 3 \/ talk # "bound"

\* Whoever has something to say or to hear ends, and the news is heard in full, as
\* long as no datagram is lost - one lost datagram leaves both ends of the echo and
\* of the chat waiting - and the Windows server was not ended by the report that a
\* client it answered had left, which needs a client that was interrupted or an
\* answer to a copy.
Heard(h) == IF h \in Talks[talk].loop THEN talk \in {"news", "brd", "newsw"} => Len(got[h]) >= Pieces
            ELSE calls[h] = <<>>
ServerDied == talk = "uechw" /\ serv \notin open /\ (Had("copied") \/ left # {})
AllHear == []<>(Had("lost") \/ ServerDied \/ \A h \in Hosts : Heard(h))
=============================================================================
