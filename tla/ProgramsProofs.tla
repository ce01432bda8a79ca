--------------------------- MODULE ProgramsProofs ---------------------------
(***************************************************************************)
(* Proofs about the programs without an event loop, for every value of     *)
(* the constants: the exchanges over UDP, the programs of processes and    *)
(* threads, and the two threads that take turns with semaphores.           *)
(***************************************************************************)
EXTENDS Programs, SemaHandOff, ListProofs, FiniteSetTheorems, TLAPS

-----------------------------------------------------------------------------
(* Datagrams: the invariant.                                               *)

Hosts  == {"serv", "c1", "c2"}
Faults == {"lost", "copied", "moved"}
Marks  == Hosts \X Nat                      \* who typed it, and its number there
Mail   == [from : Hosts, m : Marks]

TalkShape ==
    /\ talk \in DOMAIN D!Talks
    /\ DOMAIN calls = Hosts
    /\ inbox \in [Hosts -> Seq(Mail)]
    /\ got \in [Hosts -> Seq(Marks)]
    /\ said \in [Hosts -> Nat]
    /\ peer \in [Hosts -> Hosts \cup {"nobody"}]
    /\ faults \in Seq(Faults)
    /\ open \subseteq Hosts /\ refused \subseteq Hosts

\* What is left of a program that goes n times through its turn.
Left(n, turn) == D!Repeat(n, turn) \o <<D!Close>>

\* The clients of the echo and chat servers: at the start of a turn, waiting
\* for the answer, or ended.  The servers: waiting, about to answer, or ended.
Awaits    == D!Recv(talk # "uecho")
Turn      == <<D!Say({"serv"}), Awaits>>
Speaks(h) == \E n \in 0..Messages : calls[h] = Left(n, Turn)
Hears(h)  == \E n \in 0..Messages : calls[h] = <<Awaits>> \o Left(n, Turn)
Gone(h)   == calls[h] = <<>>
Reply     == IF talk = "uchat" THEN D!Answer ELSE D!Echo
Listens   == calls["serv"] = <<Awaits, Reply>>
Replies   == calls["serv"] = <<Reply>>

Copied == D!Had("copied")
Moved  == D!Had("moved")

\* Echo: every datagram to the server has been sent by whoever typed it, and
\* every one to a client was typed there.
EchoOwn ==
    /\ Listens \/ Replies \/ Gone("serv")
    /\ \A n \in DOMAIN inbox["serv"] : LET d == inbox["serv"][n] IN d.from \in D!Group /\ d.m[1] = d.from
    /\ Replies => /\ peer["serv"] \in D!Group /\ got["serv"] # <<>>
                  /\ Last(got["serv"])[1] = peer["serv"]
    /\ \A c \in D!Group : /\ Speaks(c) \/ Hears(c) \/ Gone(c)
                          /\ \A n \in DOMAIN inbox[c] : inbox[c][n].m[1] = c
                          /\ \A n \in DOMAIN got[c] : got[c][n][1] = c

\* Where a line of client c is: on its way to the server, there, or on its way back.
Sent(c)    == {n \in DOMAIN inbox["serv"] : inbox["serv"][n].from = c}
InHand(c)  == Replies /\ peer["serv"] = c
NoneOut(c) == Sent(c) = {} /\ ~InHand(c) /\ inbox[c] = <<>>
\* At most one, in one place, and it is the last that was typed.
OneOut(c) ==
    /\ \A n, l \in Sent(c) : n = l
    /\ Sent(c) # {} => ~InHand(c) /\ inbox[c] = <<>>
    /\ InHand(c) => inbox[c] = <<>>
    /\ Len(inbox[c]) <= 1
    /\ \A n \in Sent(c) : inbox["serv"][n].m[2] = said[c]
    /\ InHand(c) => Last(got["serv"])[2] = said[c]
    /\ \A n \in DOMAIN inbox[c] : inbox[c][n].m[2] = said[c]
OpeningOf(s, h, n) == \E l \in 0..n : s = D!Typed(h, l)
EchoTurn(c) ==
    /\ Speaks(c) => NoneOut(c) /\ got[c] = D!Typed(c, said[c])
    /\ Hears(c) => OneOut(c) /\ said[c] > 0 /\ got[c] = D!Typed(c, said[c] - 1)
    /\ Gone(c) => OpeningOf(got[c], c, said[c])

EchoInv == EchoOwn /\ (~Copied => \A c \in D!Group : EchoTurn(c))

\* Chat: the turn is with the client, on its way, with the server, on its way
\* back, or lost.
ChatShape ==
    /\ refused = {}
    /\ Listens \/ Replies \/ Gone("serv")
    /\ Speaks("c1") \/ Hears("c1") \/ Gone("c1")
    /\ Gone("c2")
    /\ \A n \in DOMAIN inbox["serv"] : inbox["serv"][n].from = "c1"
    /\ Replies => peer["serv"] = "c1"
ClientTurn == /\ inbox["serv"] = <<>> /\ ~Replies /\ inbox["c1"] = <<>>
              /\ said["c1"] = said["serv"] /\ got["c1"] = D!Typed("serv", said["serv"])
ServerTurn == /\ inbox["c1"] = <<>> /\ Len(inbox["serv"]) <= 1
              /\ Replies => inbox["serv"] = <<>>
              /\ said["c1"] = said["serv"] + 1 /\ got["c1"] = D!Typed("serv", said["serv"])
Answered   == /\ inbox["serv"] = <<>> /\ ~Replies /\ Len(inbox["c1"]) <= 1
              /\ \A n \in DOMAIN inbox["c1"] : inbox["c1"][n].m = <<"serv", said["serv"]>>
              /\ said["c1"] = said["serv"] /\ said["serv"] > 0
              /\ got["c1"] = D!Typed("serv", said["serv"] - 1)
ChatTurn ==
    /\ Speaks("c1") \/ Gone("c1") => ClientTurn
    /\ Hears("c1") => ServerTurn \/ Answered

ChatInv == ChatShape /\ (~Copied => ChatTurn)

\* The three messages and the news: one host speaks, the others hear.
Speaker  == IF talk = "bound" THEN "c1" ELSE "serv"
Hearers  == IF talk = "bound" THEN {"c2"} ELSE D!Group
Calling  == \E n \in Nat : calls[Speaker] = Left(n, <<D!Say(Hearers)>>)
NewsCalls ==
    /\ Calling \/ Gone(Speaker)
    /\ \A c \in Hosts \ (Hearers \cup {Speaker}) : Gone(c)
    /\ got[Speaker] = <<>>
    /\ talk = "bound" =>
          /\ \E n \in 0..3 : /\ Len(got["c2"]) + n = 3
                             /\ Gone("c2") \/ calls["c2"] = Left(n, <<D!Recv(FALSE)>>)
          /\ got["serv"] = <<>> /\ inbox["c1"] = <<>>
    /\ talk # "bound" => \A c \in D!Group : Gone(c) \/ calls[c] = <<D!Recv(TRUE)>>
\* What has come is older than what is on its way, and both are in order.
Ordered(c) ==
    /\ D!Increasing(got[c])
    /\ \A n, l \in DOMAIN inbox[c] : n < l => inbox[c][n].m[2] < inbox[c][l].m[2]
    /\ \A n \in DOMAIN got[c], l \in DOMAIN inbox[c] : got[c][n][2] < inbox[c][l].m[2]
    /\ \A n \in DOMAIN got[c] : got[c][n][2] <= said[Speaker]
    /\ \A n \in DOMAIN inbox[c] : inbox[c][n].m[2] <= said[Speaker]

NewsInv == NewsCalls /\ (~Copied /\ ~Moved => \A c \in Hearers : Ordered(c))

TalkInv ==
    /\ TalkShape
    /\ talk \in {"uecho", "uechw"} => EchoInv
    /\ talk = "uchat" => ChatInv
    /\ talk \in {"bound", "news", "brd", "newsw"} => NewsInv
-----------------------------------------------------------------------------
(* Scripts.                                                                *)

\* The loops, as the two machines see them.
LEMMA SameTurns == \A n, body : /\ D!Repeat(n, body) = Repeat(n, body)
                                /\ T!Repeat(n, body) = Repeat(n, body)
BY DEF D!Repeat, T!Repeat, Repeat

\* A loop of n turns is the text of n copies.
LEMMA TurnsFlat ==
    ASSUME NEW C, NEW n \in Nat, NEW body \in Seq(C)
    PROVE  Repeat(n, body) = FlattenSeq([z \in 1..n |-> body])
<1> DEFINE copies(k) == [z \in 1..k |-> body]
           flat == [k \in 0..n |-> FlattenSeq(copies(k))]
           IsTurns(g) == g = [k \in 0..n |-> IF k = 0 THEN <<>> ELSE body \o g[k - 1]]
           turns == CHOOSE g : IsTurns(g)
<1>1. FlattenSeq(copies(0)) = <<>>
  <2>1. copies(0) = <<>>
    OBVIOUS
  <2>2. QED BY <2>1, FlattenType
<1>2. ASSUME NEW k \in 0..n, k # 0 PROVE FlattenSeq(copies(k)) = body \o FlattenSeq(copies(k - 1))
  <2>1. /\ copies(k) \in Seq(Seq(C)) /\ copies(k) # <<>>
        /\ Head(copies(k)) = body /\ Tail(copies(k)) = copies(k - 1)
    BY <1>2
  <2>2. QED BY <2>1, FlattenTail
<1>3. IsTurns(flat)
  <2>1. ASSUME NEW k \in 0..n PROVE flat[k] = IF k = 0 THEN <<>> ELSE body \o flat[k - 1]
    <3>1. CASE k = 0
      BY <1>1, <3>1
    <3>2. CASE k # 0
      <4>1. k - 1 \in 0..n
        BY <3>2
      <4>2. QED BY <1>2, <3>2, <4>1
    <3>3. QED BY <3>1, <3>2
  <2>2. QED BY <2>1
<1>4. IsTurns(turns)
  <2> HIDE DEF IsTurns, flat
  <2>1. QED BY <1>3
<1>5. Repeat(n, body) = turns[n]
  BY DEF Repeat
<1> HIDE DEF turns, copies
<1> DEFINE H == {k \in 0..n : turns[k] = flat[k]}
<1>6. 0 \in H
  BY <1>1, <1>4
<1>7. ASSUME NEW k \in 0..(n - 1), k \in H PROVE k + 1 \in H
  <2>1. k + 1 \in 0..n /\ k + 1 # 0 /\ k + 1 - 1 = k
    OBVIOUS
  <2>2. turns[k + 1] = body \o turns[k]
    <3>1. PICK m \in 0..n : m = k + 1
      BY <2>1
    <3>2. turns[m] = IF m = 0 THEN <<>> ELSE body \o turns[m - 1]
      <4> HIDE DEF flat
      <4>1. QED BY <1>4, <3>1
    <3>3. m # 0 /\ m - 1 = k
      BY <2>1, <3>1
    <3>4. QED BY <3>1, <3>2, <3>3
  <2>3. flat[k + 1] = body \o flat[k]
    <3>1. PICK m \in 0..n : m = k + 1
      BY <2>1
    <3> HIDE DEF flat
    <3>2. flat[m] = IF m = 0 THEN <<>> ELSE body \o flat[m - 1]
      BY <1>3, <3>1
    <3>3. m # 0 /\ m - 1 = k
      BY <2>1, <3>1
    <3>4. QED BY <3>1, <3>2, <3>3
  <2>4. QED BY <1>7, <2>1, <2>2, <2>3
<1>8. \A k \in 0..n : k \in H
  <2> HIDE DEF H
  <2>1. QED BY <1>6, <1>7, Induction
<1>9. QED BY <1>5, <1>8 DEF copies

\* A loop of n + 1 turns begins with a turn, and then n are left.
LEMMA TurnsOnce ==
    ASSUME NEW C, NEW n \in Nat, NEW body \in Seq(C)
    PROVE  /\ Repeat(0, body) = <<>>
           /\ Repeat(n, body) \in Seq(C)
           /\ Repeat(n + 1, body) = body \o Repeat(n, body)
<1> DEFINE few  == [z \in 1..n |-> body]
           more == [z \in 1..n + 1 |-> body]
<1>1. few \in Seq(Seq(C)) /\ more \in Seq(Seq(C)) /\ Len(more) = n + 1 /\ more # <<>>
  OBVIOUS
<1>2. Head(more) = body /\ Tail(more) = few
  OBVIOUS
<1>3. FlattenSeq(<<>>) = <<>> /\ [z \in 1..0 |-> body] = <<>>
  BY DEF FlattenSeq
<1>4. Repeat(0, body) = FlattenSeq(<<>>) /\ Repeat(n, body) = FlattenSeq(few)
      /\ Repeat(n + 1, body) = FlattenSeq(more)
  <2>1. n + 1 \in Nat /\ 0 \in Nat
    OBVIOUS
  <2>2. Repeat(0, body) = FlattenSeq([z \in 1..0 |-> body])
    BY <2>1, TurnsFlat, Zenon
  <2>3. Repeat(n, body) = FlattenSeq(few)
    BY TurnsFlat, Zenon
  <2>4. Repeat(n + 1, body) = FlattenSeq(more)
    BY <2>1, TurnsFlat, Zenon
  <2>5. QED BY <1>3, <2>2, <2>3, <2>4, Zenon
<1> HIDE DEF few, more
<1>5. FlattenSeq(more) = Head(more) \o FlattenSeq(Tail(more))
  BY <1>1, FlattenTail
<1>6. FlattenSeq(few) \in Seq(C)
  BY <1>1, FlattenType
<1>7. QED BY <1>2, <1>3, <1>4, <1>5, <1>6

LEMMA RepeatOnce ==
    ASSUME NEW C, NEW n \in Nat, NEW body \in Seq(C)
    PROVE  /\ D!Repeat(0, body) = <<>>
           /\ D!Repeat(n, body) \in Seq(C)
           /\ D!Repeat(n + 1, body) = body \o D!Repeat(n, body)
BY SameTurns, TurnsOnce, Zenon

\* The calls by name.
LEMMA CallNames ==
    /\ \A to : D!Say(to).op = "say" /\ D!Say(to).to = to
    /\ \A b \in BOOLEAN : D!Recv(b).op = "recv" /\ D!Recv(b).chk = b
    /\ D!Echo.op = "echo" /\ D!Answer.op = "answer" /\ D!Close.op = "close"
    /\ D!Op("end").op = "end"
BY DEF D!Say, D!Recv, D!Echo, D!Answer, D!Close, D!Op

\* The calls that are left, one by one.
LEMMA LeftOnce ==
    ASSUME NEW C, NEW n \in Nat, NEW body \in Seq(C), D!Close \in C
    PROVE  /\ Left(0, body) = <<D!Close>>
           /\ Left(n, body) \in Seq(C) /\ Left(n, body) # <<>>
           /\ Left(n + 1, body) = body \o Left(n, body)
<1>1. /\ D!Repeat(0, body) = <<>> /\ D!Repeat(n, body) \in Seq(C)
      /\ D!Repeat(n + 1, body) = body \o D!Repeat(n, body)
  BY RepeatOnce
<1>2. <<D!Close>> \in Seq(C)
  OBVIOUS
<1>3. (body \o D!Repeat(n, body)) \o <<D!Close>> = body \o (D!Repeat(n, body) \o <<D!Close>>)
  BY <1>1, <1>2
<1>4. <<>> \o <<D!Close>> = <<D!Close>>
  BY <1>2
<1>5. Left(0, body) = <<D!Close>> /\ Left(n + 1, body) = body \o Left(n, body)
  BY <1>1, <1>3, <1>4, Zenon DEF Left
<1>6. Left(n, body) \in Seq(C) /\ Left(n, body) # <<>>
  BY <1>1, <1>2 DEF Left
<1>7. QED BY <1>5, <1>6

-----------------------------------------------------------------------------
(* The programs and the network.                                           *)

\* The talks, one by one.
LEMMA TalkTable ==
    /\ DOMAIN D!Talks = {"none", "uecho", "uechw", "uchat", "bound", "news", "brd", "newsw"}
    /\ D!Talks["none"]  = D!Pair(<<>>, <<>>, <<>>, {}, FALSE)
    /\ D!Talks["uecho"] = D!Pair(D!uecho_server, D!uecho_client, D!uecho_con_client, {D!serv}, FALSE)
    /\ D!Talks["uechw"] = D!Pair(D!uecho_server_win, D!uecho_client_win, D!uecho_client_win, {D!serv}, TRUE)
    /\ D!Talks["uchat"] = D!Pair(D!uchat_server, D!uchat_client, <<>>, {D!serv}, FALSE)
    /\ D!Talks["bound"] = D!Pair(<<>>, D!bound_host1, D!bound_host2, {}, FALSE)
    /\ D!Talks["news"]  = D!Pair(D!news_sender, D!news_receiver, D!news_receiver, D!Group, FALSE)
    /\ D!Talks["brd"]   = D!Pair(D!news_sender_brd, D!news_receiver_brd, D!news_receiver_brd, D!Group, FALSE)
    /\ D!Talks["newsw"] = D!Pair(D!news_sender_win, D!news_receiver_win, D!news_receiver_win, D!Group, TRUE)
<1>1. DOMAIN D!Talks = {"none", "uecho", "uechw", "uchat", "bound", "news", "brd", "newsw"}
  BY Zenon DEF D!Talks
<1>2. QED BY <1>1 DEF D!Talks
\* What each talk starts with, and who begins again.
LEMMA TurnFacts ==
    ASSUME talk \in {"uecho", "uechw", "uchat"}
    PROVE  /\ D!Talks[talk].loop = {"serv"} /\ D!Talks[talk]["serv"] = <<Awaits, Reply>>
           /\ D!Talks[talk]["c1"] = Left(Messages, Turn)
           /\ talk # "uchat" => D!Talks[talk]["c2"] = Left(Messages, Turn)
           /\ talk = "uchat" => D!Talks[talk]["c2"] = <<>> /\ ~D!Talks[talk].win
<1>1. CASE talk = "uecho"
  <2>1. Awaits = D!Recv(FALSE) /\ Reply = D!Echo
    BY <1>1 DEF Awaits, Reply
  <2>2. /\ D!Talks["uecho"]["serv"] = D!uecho_server /\ D!Talks["uecho"]["c1"] = D!uecho_client
        /\ D!Talks["uecho"]["c2"] = D!uecho_con_client /\ D!Talks["uecho"].loop = {D!serv}
        /\ D!Talks["uecho"].win = FALSE
    BY TalkTable DEF D!Pair
  <2>3. QED BY <1>1, <2>1, <2>2 DEF Left, Turn, D!serv, D!uecho_server, D!uecho_client,
                               D!uecho_con_client
<1>2. CASE talk = "uechw"
  <2>1. Awaits = D!Recv(TRUE) /\ Reply = D!Echo
    BY <1>2 DEF Awaits, Reply
  <2>2. /\ D!Talks["uechw"]["serv"] = D!uecho_server_win /\ D!Talks["uechw"]["c1"] = D!uecho_client_win
        /\ D!Talks["uechw"]["c2"] = D!uecho_client_win /\ D!Talks["uechw"].loop = {D!serv}
        /\ D!Talks["uechw"].win = TRUE
    BY TalkTable DEF D!Pair
  <2>3. QED BY <1>2, <2>1, <2>2 DEF Left, Turn, D!serv, D!uecho_server_win,
                               D!uecho_client_win
<1>3. CASE talk = "uchat"
  <2>1. Awaits = D!Recv(TRUE) /\ Reply = D!Answer
    BY <1>3 DEF Awaits, Reply
  <2>2. /\ D!Talks["uchat"]["serv"] = D!uchat_server /\ D!Talks["uchat"]["c1"] = D!uchat_client
        /\ D!Talks["uchat"]["c2"] = <<>> /\ D!Talks["uchat"].loop = {D!serv}
        /\ D!Talks["uchat"].win = FALSE
    BY TalkTable DEF D!Pair
  <2>3. QED BY <1>3, <2>1, <2>2 DEF Left, Turn, D!serv, D!uchat_server, D!uchat_client,
                               D!uecho_client_win
<1>4. QED BY <1>1, <1>2, <1>3

LEMMA NewsFacts ==
    ASSUME talk \in {"bound", "news", "brd", "newsw"}
    PROVE  /\ talk = "bound" => /\ D!Talks[talk]["serv"] = <<>>
                                /\ D!Talks[talk]["c2"] = Left(3, <<D!Recv(FALSE)>>)
                                /\ D!Talks[talk].loop = {}
           /\ talk # "bound" => /\ \A c \in D!Group : D!Talks[talk][c] = <<D!Recv(TRUE)>>
                                /\ D!Talks[talk].loop = D!Group
           /\ D!Talks[talk][Speaker] = Left(IF talk = "bound" THEN 3 ELSE Pieces, <<D!Say(Hearers)>>)
<1>1. CASE talk = "bound"
  <2>2. /\ D!Talks["bound"]["serv"] = <<>> /\ D!Talks["bound"]["c1"] = D!bound_host1
        /\ D!Talks["bound"]["c2"] = D!bound_host2 /\ D!Talks["bound"].loop = {}
        /\ D!Talks["bound"].win = FALSE
    BY TalkTable DEF D!Pair
  <2>3. QED BY <1>1, <2>2 DEF Left, Speaker, Hearers, D!bound_host1, D!bound_host2
<1>2. CASE talk = "news"
  <2>2. /\ D!Talks["news"]["serv"] = D!news_sender /\ D!Talks["news"]["c1"] = D!news_receiver
        /\ D!Talks["news"]["c2"] = D!news_receiver /\ D!Talks["news"].loop = D!Group
        /\ D!Talks["news"].win = FALSE
    BY TalkTable DEF D!Pair
  <2>3. QED BY <1>2, <2>2 DEF Left, Speaker, Hearers, D!news_sender, D!news_receiver, D!Group
<1>3. CASE talk = "brd"
  <2>2. /\ D!Talks["brd"]["serv"] = D!news_sender_brd /\ D!Talks["brd"]["c1"] = D!news_receiver_brd
        /\ D!Talks["brd"]["c2"] = D!news_receiver_brd /\ D!Talks["brd"].loop = D!Group
        /\ D!Talks["brd"].win = FALSE
    BY TalkTable DEF D!Pair
  <2>3. QED BY <1>3, <2>2 DEF Left, Speaker, Hearers, D!news_sender, D!news_receiver, D!news_sender_brd,
                          D!news_receiver_brd, D!Group
<1>4. CASE talk = "newsw"
  <2>2. /\ D!Talks["newsw"]["serv"] = D!news_sender_win /\ D!Talks["newsw"]["c1"] = D!news_receiver_win
        /\ D!Talks["newsw"]["c2"] = D!news_receiver_win /\ D!Talks["newsw"].loop = D!Group
        /\ D!Talks["newsw"].win = TRUE
    BY TalkTable DEF D!Pair
  <2>3. QED BY <1>4, <2>2 DEF Left, Speaker, Hearers, D!news_sender, D!news_receiver, D!news_sender_win,
                          D!news_receiver_win, D!Group
<1>5. QED BY <1>1, <1>2, <1>3, <1>4

\* A fault that has not happened has not happened before either.
LEMMA FaultStep ==
    ASSUME faults \in Seq(Faults), NEW name \in Faults, faults' = Append(faults, name)
    PROVE  /\ faults' \in Seq(Faults)
           /\ \A f \in Faults : D!Had(f)' <=> D!Had(f) \/ f = name
<1>1. /\ faults' \in Seq(Faults) /\ DOMAIN faults' = 1..Len(faults) + 1 /\ DOMAIN faults = 1..Len(faults)
      /\ \A n \in 1..Len(faults) : faults'[n] = faults[n]
      /\ faults'[Len(faults) + 1] = name /\ Len(faults) \in Nat
  OBVIOUS
<1>2. QED BY <1>1 DEF D!Had

\* What the network does to what is on its way to host h, of which t remains.
Network(h, t) ==
    /\ inbox' = [inbox EXCEPT ![h] = t] /\ t \in Seq(Mail) /\ Among(t, inbox[h])
    /\ ~Copied' => ~Copied /\ Keeps(t, inbox[h])
    /\ ~Copied' /\ ~Moved' => ~Moved /\ KeepsOrder(t, inbox[h])
    /\ refused = {} /\ ~D!Talks[talk].win => refused' = {}
    /\ faults' \in Seq(Faults) /\ refused' \subseteq Hosts
    /\ UNCHANGED <<talk, calls, open, peer, said, got, left>>

LEMMA NetworkSteps ==
    ASSUME TalkShape, NEW h \in Hosts, D!Bounces(h) \/ D!Loses(h) \/ D!Copies(h) \/ D!Overtakes(h)
    PROVE  \E t \in Seq(Mail) : Network(h, t)
<1>1. inbox[h] \in Seq(Mail) /\ faults \in Seq(Faults) /\ refused \subseteq Hosts
  BY DEF TalkShape
<1>2. CASE D!Bounces(h)
  <2> DEFINE t == Tail(inbox[h])
  <2>1. inbox[h] # <<>> /\ inbox' = [inbox EXCEPT ![h] = t]
        /\ UNCHANGED <<talk, calls, open, peer, said, got, faults, left>>
        /\ refused' \in {refused, IF D!Talks[talk].win THEN refused \cup {Head(inbox[h]).from} ELSE refused}
    BY <1>2 DEF D!Bounces, D!history
  <2>2. t \in Seq(Mail) /\ KeepsOrder(t, inbox[h])
    BY <1>1, <2>1, TailKeeps
  <2>3. Keeps(t, inbox[h]) /\ Among(t, inbox[h])
    BY <1>1, <2>2, KeepsMore
  <2>4. Head(inbox[h]) \in Mail
    BY <1>1, <2>1
  <2>5. refused' \subseteq Hosts
    BY <1>1, <2>1, <2>4 DEF Mail
  <2>6. Copied' = Copied /\ Moved' = Moved
    BY <2>1 DEF Copied, Moved, D!Had
  <2> HIDE DEF t
  <2>7. Network(h, t)
    BY <1>1, <2>1, <2>2, <2>3, <2>5, <2>6 DEF Network
  <2>8. QED BY <2>2, <2>7
<1>3. ASSUME NEW name \in Faults, NEW t \in Seq(Mail), D!Fault(name, h, t), Among(t, inbox[h]),
             name # "copied" => Keeps(t, inbox[h]),
             name = "lost" => KeepsOrder(t, inbox[h])
      PROVE  Network(h, t)
  <2>1. faults' = Append(faults, name) /\ inbox' = [inbox EXCEPT ![h] = t]
        /\ UNCHANGED <<calls, open, peer, said, got, refused, talk, left>>
    BY <1>3 DEF D!Fault
  <2>2. faults' \in Seq(Faults) /\ (Copied' <=> Copied \/ name = "copied")
        /\ (Moved' <=> Moved \/ name = "moved")
    BY <1>1, <2>1, FaultStep DEF Copied, Moved, Faults
  <2>3. name \in {"lost", "copied", "moved"}
    BY <1>3 DEF Faults
  <2>4. QED BY <1>1, <1>3, <2>1, <2>2, <2>3 DEF Network
<1>4. CASE D!Loses(h)
  <2>1. PICK k \in DOMAIN inbox[h] : D!Fault("lost", h, RemoveAt(inbox[h], k))
    BY <1>4 DEF D!Loses, RemoveAt
  <2>2. RemoveAt(inbox[h], k) \in Seq(Mail) /\ KeepsOrder(RemoveAt(inbox[h], k), inbox[h])
    BY <1>1, RemoveKeeps
  <2>3. Keeps(RemoveAt(inbox[h], k), inbox[h]) /\ Among(RemoveAt(inbox[h], k), inbox[h])
    BY <1>1, <2>2, KeepsMore
  <2>4. QED BY <1>3, <2>1, <2>2, <2>3 DEF Faults
<1>5. CASE D!Copies(h)
  <2>1. inbox[h] # <<>> /\ D!Fault("copied", h, Append(inbox[h], Head(inbox[h])))
    BY <1>5 DEF D!Copies
  <2>2. Append(inbox[h], Head(inbox[h])) \in Seq(Mail) /\ Among(Append(inbox[h], Head(inbox[h])), inbox[h])
    BY <1>1, <2>1, CopyAmong
  <2>3. QED BY <1>3, <2>1, <2>2 DEF Faults
<1>6. CASE D!Overtakes(h)
  <2> DEFINE t == Append(Tail(inbox[h]), Head(inbox[h]))
  <2>1. inbox[h] # <<>> /\ D!Fault("moved", h, t)
    BY <1>1, <1>6 DEF D!Overtakes
  <2>2. t \in Seq(Mail) /\ Keeps(t, inbox[h])
    BY <1>1, <2>1, LateKeeps
  <2>3. Among(t, inbox[h])
    BY <1>1, <2>2, KeepsMore
  <2> HIDE DEF t
  <2>4. QED BY <1>3, <2>1, <2>2, <2>3 DEF Faults
<1>7. QED BY <1>2, <1>4, <1>5, <1>6

-----------------------------------------------------------------------------
(* The clients that speak and hear in turns.                               *)

\* What may be left of a turn, call by call.
SayOf(n)  == <<D!Say({"serv"})>> \o (<<Awaits>> \o Left(n, Turn))
HearOf(n) == <<Awaits>> \o Left(n, Turn)

LEMMA TurnOnce ==
    ASSUME NEW n \in Nat
    PROVE  /\ Left(0, Turn) = <<D!Close>>
           /\ Left(n + 1, Turn) = SayOf(n)
           /\ Left(n, Turn) # <<>> /\ HearOf(n) # <<>> /\ SayOf(n) # <<>>
           /\ Head(SayOf(n)) = D!Say({"serv"}) /\ Tail(SayOf(n)) = HearOf(n)
           /\ Head(HearOf(n)) = Awaits /\ Tail(HearOf(n)) = Left(n, Turn)
<1> DEFINE C == {D!Say({"serv"}), Awaits, D!Close}
<1>1. Turn \in Seq(C) /\ D!Close \in C
  BY DEF Turn
<1>2. /\ Left(0, Turn) = <<D!Close>> /\ Left(n, Turn) \in Seq(C) /\ Left(n, Turn) # <<>>
      /\ Left(n + 1, Turn) = Turn \o Left(n, Turn)
  <2> HIDE DEF C
  <2>1. QED BY <1>1, LeftOnce
<1> DEFINE a == D!Say({"serv"})
           b == Awaits
           s == Left(n, Turn)
<1>3. a \in C /\ b \in C /\ s \in Seq(C)
  BY <1>2
<1>4. Turn = <<a, b>> /\ SayOf(n) = <<a>> \o (<<b>> \o s) /\ HearOf(n) = <<b>> \o s
  BY DEF Turn, SayOf, HearOf
<1> HIDE DEF a, b, s, C
<1>5. <<a, b>> \o s = <<a>> \o (<<b>> \o s)
  <2> DEFINE x == <<a, b>> \o s
             y == <<a>> \o (<<b>> \o s)
  <2>1. <<a>> \in Seq(C) /\ <<b>> \in Seq(C) /\ <<a, b>> \in Seq(C)
    BY <1>3
  <2>2. x \in Seq(C) /\ y \in Seq(C) /\ Len(x) = 2 + Len(s) /\ Len(y) = 2 + Len(s)
    BY <1>3, <2>1
  <2>3. \A k \in 1..2 + Len(s) : x[k] = y[k]
    BY <1>3, <2>1
  <2> HIDE DEF x, y
  <2>4. \A f, g \in Seq(C) : Len(f) = Len(g) /\ (\A k \in 1..Len(f) : f[k] = g[k]) => f = g
    OBVIOUS
  <2>5. x = y
    BY <2>2, <2>3, <2>4
  <2>6. QED BY <2>5 DEF x, y
<1>6. /\ <<b>> \o s # <<>> /\ Head(<<b>> \o s) = b /\ Tail(<<b>> \o s) = s
      /\ <<b>> \o s \in Seq(C)
  BY <1>3
<1>7. \A r \in Seq(C) : <<a>> \o r # <<>> /\ Head(<<a>> \o r) = a /\ Tail(<<a>> \o r) = r
  BY <1>3
<1>8. QED BY <1>2, <1>4, <1>5, <1>6, <1>7 DEF a, b, s

\* The next call of a client, and where it is after it.
LEMMA AtSay ==
    ASSUME NEW h \in Hosts, Speaks(h)
    PROVE  /\ calls[h] # <<>> /\ D!Now(h).op \in {"say", "close"}
           /\ D!Now(h).op = "say" =>
                 /\ D!Now(h).to = {"serv"}
                 /\ \E n \in 0..Messages : Tail(calls[h]) = HearOf(n)
<1>1. PICK n \in 0..Messages : calls[h] = Left(n, Turn)
  BY DEF Speaks
<1>2. n \in Nat /\ Messages \in Nat
  BY ProgramConstants
<1>3. CASE n = 0
  <2>1. calls[h] = <<D!Close>> /\ calls[h] # <<>> /\ Head(calls[h]) = D!Close
    BY <1>1, <1>3, TurnOnce
  <2>2. QED BY <2>1, CallNames DEF D!Now
<1>4. CASE n # 0
  <2>1. n - 1 \in 0..Messages /\ n - 1 \in Nat /\ (n - 1) + 1 = n
    BY <1>2, <1>4
  <2>2. calls[h] = SayOf(n - 1)
    BY <1>1, <2>1, TurnOnce
  <2>3. calls[h] # <<>> /\ Head(calls[h]) = D!Say({"serv"}) /\ Tail(calls[h]) = HearOf(n - 1)
    BY <2>1, <2>2, TurnOnce
  <2>4. D!Now(h) = D!Say({"serv"})
    BY <2>3 DEF D!Now
  <2>5. QED BY <2>1, <2>3, <2>4, CallNames
<1>5. QED BY <1>3, <1>4

LEMMA AtHear ==
    ASSUME NEW h \in Hosts, Hears(h)
    PROVE  /\ calls[h] # <<>> /\ D!Now(h) = Awaits /\ D!Now(h).op = "recv"
           /\ \E n \in 0..Messages : Tail(calls[h]) = Left(n, Turn)
<1>1. PICK n \in 0..Messages : calls[h] = HearOf(n)
  BY DEF Hears, HearOf
<1>2. n \in Nat
  BY ProgramConstants
<1>3. calls[h] # <<>> /\ Head(calls[h]) = Awaits /\ Tail(calls[h]) = Left(n, Turn)
  BY <1>1, <1>2, TurnOnce
<1>4. Awaits.op = "recv"
  BY CallNames DEF Awaits
<1>5. QED BY <1>1, <1>3, <1>4 DEF D!Now

LEMMA AtEnd ==
    ASSUME NEW h \in Hosts, Gone(h)
    PROVE  D!Now(h).op = "end"
BY CallNames DEF Gone, D!Now

\* A host is at one place only.
LEMMA OnePlace ==
    ASSUME NEW h \in Hosts
    PROVE  /\ Speaks(h) => ~Hears(h) /\ ~Gone(h)
           /\ Hears(h) => ~Gone(h)
<1>1. ASSUME Speaks(h), Hears(h) PROVE FALSE
  BY <1>1, AtSay, AtHear
<1>2. ASSUME Speaks(h) \/ Hears(h), Gone(h) PROVE FALSE
  BY <1>2, AtSay, AtHear DEF Gone
<1>3. QED BY <1>1, <1>2

LEMMA OnePlaceNext ==
    ASSUME NEW h \in Hosts, talk' = talk
    PROVE  /\ Speaks(h)' => ~Hears(h)' /\ ~Gone(h)'
           /\ Hears(h)' => ~Gone(h)'
<1>1. Turn' = Turn /\ Awaits' = Awaits
  BY DEF Turn, Awaits
<1>2. ASSUME NEW n \in Nat PROVE Left(n, Turn) # <<>> /\ HearOf(n) # <<>>
  BY TurnOnce
<1>3. ASSUME NEW n \in Nat, NEW l \in Nat PROVE HearOf(n) # Left(l, Turn)
  <2>1. Head(HearOf(n)).op = "recv"
    BY TurnOnce, CallNames DEF Awaits
  <2>2. CASE l = 0
    <3>1. Head(Left(l, Turn)).op = "close"
      <4>1. Left(0, Turn) = <<D!Close>>
        BY TurnOnce
      <4>2. Head(<<D!Close>>) = D!Close
        OBVIOUS
      <4>3. QED BY <2>2, <4>1, <4>2, CallNames
    <3>2. QED BY <2>1, <3>1
  <2>3. CASE l # 0
    <3>1. l - 1 \in Nat /\ (l - 1) + 1 = l
      BY <2>3
    <3>2. Left(l, Turn) = SayOf(l - 1) /\ Head(SayOf(l - 1)) = D!Say({"serv"})
      <4>1. \A k \in Nat : Left(k + 1, Turn) = SayOf(k) /\ Head(SayOf(k)) = D!Say({"serv"})
        BY TurnOnce
      <4>2. Left((l - 1) + 1, Turn) = SayOf(l - 1) /\ Head(SayOf(l - 1)) = D!Say({"serv"})
        BY <3>1, <4>1
      <4>3. QED BY <3>1, <4>2
    <3>3. QED BY <2>1, <3>2, CallNames
  <2>4. QED BY <2>2, <2>3
<1>4. 0..Messages \subseteq Nat
  BY ProgramConstants
<1>5. /\ Speaks(h)' => \E n \in 0..Messages : calls'[h] = Left(n, Turn)
      /\ Hears(h)' => \E n \in 0..Messages : calls'[h] = HearOf(n)
      /\ Gone(h)' => calls'[h] = <<>>
  BY <1>1 DEF Speaks, Hears, Gone, HearOf, Left
<1>6. QED BY <1>2, <1>3, <1>4, <1>5

\* The server waits for a datagram, answers it, and begins again.
LEMMA AtServer ==
    /\ Listens => /\ calls["serv"] # <<>> /\ D!Now("serv") = Awaits /\ D!Now("serv").op = "recv"
                  /\ Len(calls["serv"]) = 2 /\ Tail(calls["serv"]) = <<Reply>>
    /\ Replies => /\ calls["serv"] # <<>> /\ D!Now("serv") = Reply
                  /\ D!Now("serv").op = IF talk = "uchat" THEN "answer" ELSE "echo"
                  /\ Len(calls["serv"]) = 1 /\ Tail(calls["serv"]) = <<>>
    /\ ~(Listens /\ Replies) /\ ~(Gone("serv") /\ (Listens \/ Replies))
<1>1. ASSUME Listens
      PROVE  /\ calls["serv"] # <<>> /\ D!Now("serv") = Awaits /\ D!Now("serv").op = "recv"
             /\ Len(calls["serv"]) = 2 /\ Tail(calls["serv"]) = <<Reply>>
  <2>1. calls["serv"] # <<>> /\ Head(calls["serv"]) = Awaits /\ Len(calls["serv"]) = 2
        /\ Tail(calls["serv"]) = <<Reply>>
    BY <1>1 DEF Listens
  <2>2. Awaits.op = "recv"
    BY CallNames DEF Awaits
  <2>3. QED BY <2>1, <2>2 DEF D!Now
<1>2. ASSUME Replies
      PROVE  /\ calls["serv"] # <<>> /\ D!Now("serv") = Reply
             /\ D!Now("serv").op = IF talk = "uchat" THEN "answer" ELSE "echo"
             /\ Len(calls["serv"]) = 1 /\ Tail(calls["serv"]) = <<>>
  <2>1. calls["serv"] # <<>> /\ Head(calls["serv"]) = Reply /\ Len(calls["serv"]) = 1
        /\ Tail(calls["serv"]) = <<>>
    BY <1>2 DEF Replies
  <2>2. Reply.op = IF talk = "uchat" THEN "answer" ELSE "echo"
    BY CallNames DEF Reply
  <2>3. QED BY <2>1, <2>2 DEF D!Now
<1>3. QED BY <1>1, <1>2 DEF Gone

\* The places by name; a step of one host leaves the others where they are.
LEMMA OthersStay ==
    ASSUME NEW h \in Hosts, calls'[h] = calls[h], talk' = talk
    PROVE  /\ Speaks(h)' = Speaks(h) /\ Hears(h)' = Hears(h) /\ Gone(h)' = Gone(h)
           /\ h = "serv" => Listens' = Listens /\ Replies' = Replies
BY DEF Speaks, Hears, Gone, Listens, Replies, Awaits, Reply, Turn

-----------------------------------------------------------------------------
(* The steps of echo and chat.                                             *)

LEMMA SameHosts == D!Hosts = Hosts /\ D!Group = {"c1", "c2"}
BY DEF D!Hosts, Hosts, D!serv, D!Group

\* A call is made: the calls of the other hosts stay.
Others(h) == DOMAIN calls' = Hosts /\ \A o \in Hosts \ {h} : calls'[o] = calls[o]

LEMMA CallMade ==
    ASSUME DOMAIN calls = Hosts, NEW h \in Hosts, NEW name, D!Does(h, name)
    PROVE  /\ D!Now(h).op = name /\ Others(h)
           /\ calls'[h] = IF Len(calls[h]) = 1 /\ h \in D!Talks[talk].loop
                          THEN D!Talks[talk][h] ELSE Tail(calls[h])
<1>1. D!Now(h).op = name
      /\ calls' = [calls EXCEPT ![h] = IF Len(calls[h]) = 1 /\ h \in D!Talks[talk].loop
                                       THEN D!Talks[talk][h] ELSE Tail(calls[h])]
  BY DEF D!Does
<1>2. QED BY <1>1 DEF Others

LEMMA CallsEnd ==
    ASSUME DOMAIN calls = Hosts, NEW h \in Hosts, D!Ended(h)
    PROVE  Gone(h)' /\ Others(h) /\ open' = open \ {h}
BY DEF D!Ended, Others, Gone

\* A datagram is sent.
LEMMA Post ==
    ASSUME NEW h \in Hosts, NEW to, NEW m \in Marks, inbox \in [Hosts -> Seq(Mail)],
           inbox' = D!Posted(h, to, m)
    PROVE  /\ inbox' \in [Hosts -> Seq(Mail)]
           /\ \A r \in Hosts : inbox'[r] = IF r \in to THEN Append(inbox[r], [from |-> h, m |-> m])
                                           ELSE inbox[r]
<1>1. [from |-> h, m |-> m] \in Mail
  BY DEF Mail
<1>2. inbox' = [r \in Hosts |-> IF r \in to THEN Append(inbox[r], [from |-> h, m |-> m]) ELSE inbox[r]]
  BY SameHosts DEF D!Posted
<1>3. \A r \in Hosts : Append(inbox[r], [from |-> h, m |-> m]) \in Seq(Mail)
  BY <1>1
<1>4. QED BY <1>2, <1>3

Rest == UNCHANGED <<talk, refused, faults, left>>

\* The steps, as the invariants see them.
HostTypes(h, to) ==
    /\ Others(h) /\ said' = [said EXCEPT ![h] = @ + 1] /\ inbox' = D!Posted(h, to, <<h, said[h] + 1>>)
    /\ UNCHANGED <<open, peer, got>> /\ Rest
HostHears(h) ==
    /\ Others(h) /\ inbox[h] # <<>>
    /\ got' = [got EXCEPT ![h] = Append(@, Head(inbox[h]).m)]
    /\ peer' = [peer EXCEPT ![h] = Head(inbox[h]).from]
    /\ inbox' = [inbox EXCEPT ![h] = Tail(@)]
    /\ UNCHANGED <<open, said>> /\ Rest
HostEchoes(h) ==
    /\ Others(h) /\ inbox' = D!Posted(h, {peer[h]}, Last(got[h]))
    /\ UNCHANGED <<open, peer, said, got>> /\ Rest
HostEnds(h) ==
    /\ Others(h) /\ Gone(h)' /\ open' \subseteq Hosts /\ refused' \subseteq refused
    /\ UNCHANGED <<talk, inbox, peer, said, got, faults>>

Places ==
    /\ TalkShape /\ talk \in {"uecho", "uechw", "uchat"}
    /\ Listens \/ Replies \/ Gone("serv")
    /\ Speaks("c1") \/ Hears("c1") \/ Gone("c1")
    /\ Speaks("c2") \/ Hears("c2") \/ Gone("c2")

\* What a host can do, by where it is.
ClientStep(c) == \/ Speaks(c) /\ Hears(c)' /\ HostTypes(c, {"serv"})
                 \/ Hears(c) /\ Speaks(c)' /\ HostHears(c)
                 \/ Speaks(c) /\ HostEnds(c)
                 \/ Hears(c) /\ c \in refused /\ HostEnds(c)
                 \/ talk # "uchat" /\ HostEnds(c)
ServerStep == \/ Listens /\ Replies' /\ HostHears("serv")
              \/ Replies /\ Listens' /\ talk # "uchat" /\ HostEchoes("serv")
              \/ Replies /\ Listens' /\ talk = "uchat" /\ HostTypes("serv", {peer["serv"]})
              \/ "serv" \in refused /\ HostEnds("serv")

LEMMA ClientSteps ==
    ASSUME Places, NEW c \in {"c1", "c2"},
           D!Says(c) \/ D!Answers(c) \/ D!Echoes(c) \/ D!Recvs(c) \/ D!RecvFails(c) \/ D!Closes(c)
           \/ D!Interrupt(c)
    PROVE  ClientStep(c)
<1>1. c \in Hosts /\ (Speaks(c) \/ Hears(c) \/ Gone(c)) /\ DOMAIN calls = Hosts
      /\ c \notin D!Talks[talk].loop /\ open \subseteq Hosts
  BY TurnFacts DEF Places, TalkShape, Hosts
<1>2. CASE D!Says(c)
  <2>1. D!Does(c, "say") /\ D!Types(c, D!Now(c).to)
    BY <1>2 DEF D!Says
  <2>2. D!Now(c).op = "say" /\ Others(c) /\ calls'[c] = Tail(calls[c])
    BY <1>1, <2>1, CallMade
  <2>3. Speaks(c)
    BY <1>1, <2>2, AtHear, AtEnd
  <2>4. D!Now(c).to = {"serv"} /\ talk' = talk
    BY <1>1, <2>1, <2>2, <2>3, AtSay DEF D!Types, D!history
  <2>5. HostTypes(c, {"serv"})
    BY <2>1, <2>2, <2>4 DEF D!Types, HostTypes, D!history, Rest
  <2>6. PICK n \in 0..Messages : calls'[c] = HearOf(n)
    BY <1>1, <2>2, <2>3, AtSay
  <2>7. Hears(c)'
    BY <2>4, <2>6 DEF Hears, HearOf, Awaits, Turn
  <2>8. QED BY <2>3, <2>5, <2>7 DEF ClientStep
<1>3. CASE D!Recvs(c)
  <2>1. D!Does(c, "recv") /\ talk' = talk
    BY <1>3 DEF D!Recvs, D!history
  <2>2. D!Now(c).op = "recv" /\ Others(c) /\ calls'[c] = Tail(calls[c])
    BY <1>1, <2>1, CallMade
  <2>3. Hears(c)
    BY <1>1, <2>2, AtSay, AtEnd
  <2>4. HostHears(c)
    BY <1>3, <2>2 DEF D!Recvs, HostHears, D!history, Rest
  <2>5. PICK n \in 0..Messages : calls'[c] = Left(n, Turn)
    BY <1>1, <2>2, <2>3, AtHear
  <2>6. Speaks(c)'
    BY <2>1, <2>5 DEF Speaks, Awaits, Turn
  <2>7. QED BY <2>3, <2>4, <2>6 DEF ClientStep
<1>4. CASE D!Answers(c) \/ D!Echoes(c)
  <2>1. D!Now(c).op \in {"answer", "echo"}
    BY <1>1, <1>4, CallMade DEF D!Answers, D!Echoes
  <2>2. QED BY <1>1, <2>1, AtSay, AtHear, AtEnd
<1>5. CASE D!RecvFails(c) \/ D!Closes(c) \/ D!Interrupt(c)
  <2>1. D!Ended(c) /\ UNCHANGED <<talk, inbox, peer, said, got, faults>> /\ refused' \subseteq refused
    BY <1>5 DEF D!RecvFails, D!Closes, D!Interrupt, D!history
  <2>2. HostEnds(c)
    BY <1>1, <2>1, CallsEnd DEF HostEnds
  <2>3. /\ D!RecvFails(c) => D!Now(c).op = "recv" /\ c \in refused
        /\ D!Closes(c) => D!Now(c).op = "close"
        /\ D!Interrupt(c) => talk # "uchat"
    BY DEF D!RecvFails, D!Closes, D!Interrupt
  <2>4. /\ D!Now(c).op = "recv" => Hears(c)
        /\ D!Now(c).op = "close" => Speaks(c)
    BY <1>1, AtSay, AtHear, AtEnd
  <2>5. QED BY <1>5, <2>2, <2>3, <2>4 DEF ClientStep
<1>6. QED BY <1>2, <1>3, <1>4, <1>5

LEMMA ServerSteps ==
    ASSUME Places,
           D!Says("serv") \/ D!Answers("serv") \/ D!Echoes("serv") \/ D!Recvs("serv")
           \/ D!RecvFails("serv") \/ D!Closes("serv") \/ D!Interrupt("serv")
    PROVE  ServerStep
<1>1. /\ "serv" \in Hosts /\ (Listens \/ Replies \/ Gone("serv")) /\ DOMAIN calls = Hosts
      /\ "serv" \in D!Talks[talk].loop /\ D!Talks[talk]["serv"] = <<Awaits, Reply>> /\ open \subseteq Hosts
  BY TurnFacts DEF Places, TalkShape, Hosts
<1>2. CASE D!Recvs("serv")
  <2>1. D!Does("serv", "recv") /\ talk' = talk
    BY <1>2 DEF D!Recvs, D!history
  <2>2. D!Now("serv").op = "recv" /\ Others("serv")
        /\ calls'["serv"] = IF Len(calls["serv"]) = 1 THEN <<Awaits, Reply>> ELSE Tail(calls["serv"])
    BY <1>1, <2>1, CallMade
  <2>3. Listens
    BY <1>1, <2>2, AtServer, AtEnd
  <2>4. HostHears("serv")
    BY <1>2, <2>2 DEF D!Recvs, HostHears, D!history, Rest
  <2>5. Len(calls["serv"]) = 2 /\ Tail(calls["serv"]) = <<Reply>>
    BY <2>3, AtServer
  <2>6. calls'["serv"] = Tail(calls["serv"])
    BY <2>2, <2>5
  <2>7. Replies'
    BY <2>1, <2>5, <2>6 DEF Replies, Reply
  <2>8. QED BY <2>3, <2>4, <2>7 DEF ServerStep
<1>3. CASE D!Answers("serv") \/ D!Echoes("serv")
  <2>1. talk' = talk /\ (D!Does("serv", "answer") \/ D!Does("serv", "echo"))
    BY <1>3 DEF D!Answers, D!Echoes, D!Types, D!history
  <2>2. D!Now("serv").op \in {"answer", "echo"} /\ Others("serv")
        /\ calls'["serv"] = IF Len(calls["serv"]) = 1 THEN <<Awaits, Reply>> ELSE Tail(calls["serv"])
    BY <1>1, <2>1, CallMade
  <2>3. Replies
    BY <1>1, <2>2, AtServer, AtEnd
  <2>4. calls'["serv"] = <<Awaits, Reply>>
    BY <2>2, <2>3, AtServer
  <2>5. Listens'
    BY <2>1, <2>4 DEF Listens, Awaits, Reply
  <2>6. CASE D!Echoes("serv")
    <3>1. D!Now("serv").op = "echo"
      BY <2>6 DEF D!Echoes, D!Does
    <3>2. talk # "uchat"
      BY <2>3, <3>1, AtServer
    <3>3. HostEchoes("serv")
      BY <2>2, <2>6 DEF D!Echoes, Last, HostEchoes, D!history, Rest
    <3>4. QED BY <2>3, <2>5, <3>2, <3>3 DEF ServerStep
  <2>7. CASE D!Answers("serv")
    <3>1. D!Now("serv").op = "answer"
      BY <2>7 DEF D!Answers, D!Does
    <3>2. talk = "uchat"
      BY <2>3, <3>1, AtServer
    <3>3. HostTypes("serv", {peer["serv"]})
      BY <2>2, <2>7 DEF D!Answers, D!Types, HostTypes, D!history, Rest
    <3>4. QED BY <2>3, <2>5, <3>2, <3>3 DEF ServerStep
  <2>8. QED BY <1>3, <2>6, <2>7
<1>4. CASE D!RecvFails("serv")
  <2>1. D!Ended("serv") /\ UNCHANGED <<talk, inbox, peer, said, got, faults>> /\ refused' \subseteq refused
        /\ "serv" \in refused
    BY <1>4 DEF D!RecvFails, D!history
  <2>2. HostEnds("serv")
    BY <1>1, <2>1, CallsEnd DEF HostEnds
  <2>3. QED BY <2>1, <2>2 DEF ServerStep
<1>5. CASE D!Says("serv") \/ D!Closes("serv")
  <2>1. D!Now("serv").op \in {"say", "close"}
    BY <1>5 DEF D!Says, D!Closes, D!Does
  <2>2. QED BY <1>1, <2>1, AtServer, AtEnd
<1>6. CASE D!Interrupt("serv")
  BY <1>6 DEF D!Interrupt
<1>7. QED BY <1>2, <1>3, <1>4, <1>5, <1>6

LEMMA TurnSteps ==
    ASSUME Places, D!Next
    PROVE  \/ \E c \in {"c1", "c2"} : ClientStep(c)
           \/ ServerStep
           \/ \E h \in Hosts, t \in Seq(Mail) : Network(h, t)
<1>1. PICK h \in Hosts :
         \/ D!Says(h) \/ D!Answers(h) \/ D!Echoes(h) \/ D!Recvs(h) \/ D!RecvFails(h) \/ D!Closes(h)
            \/ D!Interrupt(h)
         \/ D!Bounces(h) \/ D!Loses(h) \/ D!Copies(h) \/ D!Overtakes(h)
  BY SameHosts DEF D!Next, D!Progress
<1>2. CASE D!Bounces(h) \/ D!Loses(h) \/ D!Copies(h) \/ D!Overtakes(h)
  BY <1>2, NetworkSteps DEF Places
<1>3. CASE D!Says(h) \/ D!Answers(h) \/ D!Echoes(h) \/ D!Recvs(h) \/ D!RecvFails(h) \/ D!Closes(h)
           \/ D!Interrupt(h)
  <2>1. CASE h = "serv"
    BY <1>3, <2>1, ServerSteps
  <2>2. CASE h # "serv"
    <3>1. h \in {"c1", "c2"}
      BY <2>2 DEF Hosts
    <3>2. ClientStep(h)
      BY <1>3, <3>1, ClientSteps
    <3>3. QED BY <3>1, <3>2
  <2>3. QED BY <2>1, <2>2
<1>4. QED BY <1>1, <1>2, <1>3

-----------------------------------------------------------------------------
(* The steps keep the types.                                               *)

HostStep(h) == \/ \E to : HostTypes(h, to)
               \/ HostHears(h)
               \/ got[h] # <<>> /\ HostEchoes(h)
               \/ HostEnds(h)
               \/ \E t \in Seq(Mail) : Network(h, t)

LEMMA ShapeKept ==
    ASSUME TalkShape, NEW h \in Hosts, HostStep(h)
    PROVE  TalkShape'
<1>1. /\ talk \in DOMAIN D!Talks /\ DOMAIN calls = Hosts
      /\ inbox \in [Hosts -> Seq(Mail)] /\ got \in [Hosts -> Seq(Marks)] /\ said \in [Hosts -> Nat]
      /\ peer \in [Hosts -> Hosts \cup {"nobody"}] /\ faults \in Seq(Faults)
      /\ open \subseteq Hosts /\ refused \subseteq Hosts
  BY DEF TalkShape
<1>2. talk' = talk /\ talk' \in DOMAIN D!Talks'
  BY <1>1 DEF HostStep, HostTypes, HostHears, HostEchoes, HostEnds, Network, Rest, D!Talks
<1>3. CASE \E to : HostTypes(h, to)
  <2>1. PICK to : HostTypes(h, to)
    BY <1>3
  <2>2. <<h, said[h] + 1>> \in Marks
    BY <1>1 DEF Marks
  <2>3. inbox' \in [Hosts -> Seq(Mail)]
    BY <1>1, <2>1, <2>2, Post DEF HostTypes
  <2>4. said' \in [Hosts -> Nat]
    BY <1>1, <2>1 DEF HostTypes
  <2>5. QED BY <1>1, <1>2, <2>1, <2>3, <2>4 DEF TalkShape, HostTypes, Rest, Others
<1>4. CASE HostHears(h)
  <2>1. inbox[h] # <<>> /\ inbox[h] \in Seq(Mail)
    BY <1>1, <1>4 DEF HostHears
  <2>2. Head(inbox[h]) \in Mail /\ Tail(inbox[h]) \in Seq(Mail)
    BY <2>1
  <2>3. Head(inbox[h]).m \in Marks /\ Head(inbox[h]).from \in Hosts
    BY <2>2 DEF Mail
  <2>4. inbox' \in [Hosts -> Seq(Mail)] /\ peer' \in [Hosts -> Hosts \cup {"nobody"}]
    BY <1>1, <1>4, <2>2, <2>3 DEF HostHears
  <2>5. Append(got[h], Head(inbox[h]).m) \in Seq(Marks)
    BY <1>1, <2>3
  <2>6. got' \in [Hosts -> Seq(Marks)]
    BY <1>1, <1>4, <2>5 DEF HostHears
  <2>7. QED BY <1>1, <1>2, <1>4, <2>4, <2>6 DEF TalkShape, HostHears, Rest, Others
<1>5. CASE got[h] # <<>> /\ HostEchoes(h)
  <2>1. got[h] \in Seq(Marks)
    BY <1>1
  <2>2. Last(got[h]) \in Marks
    BY <1>5, <2>1 DEF Last
  <2>3. inbox' \in [Hosts -> Seq(Mail)]
    BY <1>1, <1>5, <2>2, Post DEF HostEchoes
  <2>4. QED BY <1>1, <1>2, <1>5, <2>3 DEF TalkShape, HostEchoes, Rest, Others
<1>6. CASE HostEnds(h)
  BY <1>1, <1>2, <1>6 DEF TalkShape, HostEnds, Others
<1>7. CASE \E t \in Seq(Mail) : Network(h, t)
  <2>1. PICK t \in Seq(Mail) : Network(h, t)
    BY <1>7
  <2>2. inbox' \in [Hosts -> Seq(Mail)]
    BY <1>1, <2>1 DEF Network
  <2>3. QED BY <1>1, <1>2, <2>1, <2>2 DEF TalkShape, Network
<1>8. QED BY <1>3, <1>4, <1>5, <1>6, <1>7 DEF HostStep

\* A fault that has happened stays happened.
LEMMA CalmBefore ==
    ASSUME faults' = faults
    PROVE  Copied' = Copied /\ Moved' = Moved
BY DEF Copied, Moved, D!Had

\* What a host has typed, line by line.
LEMMA TypedFacts ==
    ASSUME NEW h \in Hosts, NEW n \in Nat
    PROVE  /\ D!Typed(h, n) \in Seq(Marks) /\ Len(D!Typed(h, n)) = n
           /\ D!Typed(h, 0) = <<>>
           /\ OpeningOf(D!Typed(h, n), h, n)
           /\ n > 0 => /\ Append(D!Typed(h, n - 1), <<h, n>>) = D!Typed(h, n)
                       /\ OpeningOf(D!Typed(h, n - 1), h, n)
<1>1. \A k \in Nat : <<h, k>> \in Marks
  BY DEF Marks
<1>2. \A k \in Nat : /\ D!Typed(h, k) \in Seq(Marks) /\ Len(D!Typed(h, k)) = k
                     /\ \A l \in 1..k : D!Typed(h, k)[l] = <<h, l>>
  BY <1>1 DEF D!Typed
<1>3. D!Typed(h, 0) = <<>>
  BY <1>2
<1>4. \A f, g \in Seq(Marks) : Len(f) = Len(g) /\ (\A k \in 1..Len(f) : f[k] = g[k]) => f = g
  OBVIOUS
<1>5. ASSUME n > 0 PROVE Append(D!Typed(h, n - 1), <<h, n>>) = D!Typed(h, n)
  <2> DEFINE a == D!Typed(h, n - 1)
             b == D!Typed(h, n)
             m == <<h, n>>
  <2>1. n - 1 \in Nat
    BY <1>5
  <2>2. /\ a \in Seq(Marks) /\ Len(a) = n - 1 /\ \A l \in 1..n - 1 : a[l] = <<h, l>>
        /\ b \in Seq(Marks) /\ Len(b) = n /\ \A l \in 1..n : b[l] = <<h, l>>
        /\ m \in Marks
    BY <1>1, <1>2, <2>1
  <2>3. b[n] = m
    BY <1>5, <2>2
  <2> HIDE DEF a, b, m
  <2>4. Append(a, m) \in Seq(Marks) /\ Len(Append(a, m)) = n
        /\ \A l \in 1..n : Append(a, m)[l] = IF l = n THEN m ELSE a[l]
    BY <1>5, <2>2
  <2>5. ASSUME NEW l \in 1..n PROVE Append(a, m)[l] = b[l]
    <3>1. CASE l = n
      BY <2>3, <2>4, <3>1
    <3>2. CASE l # n
      <4>1. l \in 1..n - 1
        BY <3>2
      <4>2. Append(a, m)[l] = a[l] /\ a[l] = <<h, l>> /\ b[l] = <<h, l>>
        BY <2>2, <2>4, <3>2, <4>1
      <4>3. QED BY <4>2
    <3>3. QED BY <3>1, <3>2
  <2>6. Append(a, m) = b
    BY <1>4, <2>2, <2>4, <2>5
  <2>7. QED BY <2>6 DEF a, b, m
<1>6. ASSUME NEW k \in 0..n PROVE OpeningOf(D!Typed(h, k), h, n)
  BY DEF OpeningOf
<1>7. n \in 0..n /\ (n > 0 => n - 1 \in 0..n)
  OBVIOUS
<1>8. OpeningOf(D!Typed(h, n), h, n) /\ (n > 0 => OpeningOf(D!Typed(h, n - 1), h, n))
  BY <1>6, <1>7, Zenon
<1>9. QED BY <1>2, <1>3, <1>5, <1>8, Zenon

\* What holds at the beginning.
LEMMA TalkBegins ==
    ASSUME D!Init
    PROVE  TalkInv
<1>1. /\ talk \in DOMAIN D!Talks
      /\ DOMAIN calls = Hosts /\ \A h \in Hosts : calls[h] = D!Talks[talk][h]
      /\ inbox = [h \in Hosts |-> <<>>] /\ got = [h \in Hosts |-> <<>>]
      /\ said = [h \in Hosts |-> 0] /\ peer = [h \in Hosts |-> "nobody"]
      /\ refused = {} /\ faults = <<>> /\ open \subseteq Hosts
  BY SameHosts DEF D!Init
<1>2. TalkShape
  BY <1>1 DEF TalkShape
<1>3. /\ \A h \in Hosts : D!Typed(h, 0) = <<>>
      /\ D!Group = {"c1", "c2"} /\ Hosts = {"serv", "c1", "c2"}
  BY TypedFacts, SameHosts DEF Hosts
<1>4. Messages \in Nat /\ Pieces \in Nat
  BY ProgramConstants
<1>5. \A h \in Hosts : inbox[h] = <<>> /\ got[h] = <<>> /\ said[h] = 0 /\ DOMAIN got[h] = {} /\ DOMAIN inbox[h] = {}
  BY <1>1
<1>6. ASSUME talk \in {"uecho", "uechw", "uchat"}
      PROVE  /\ Listens /\ ~Replies /\ Speaks("c1") /\ ~Hears("c1") /\ ~Gone("c1")
             /\ talk # "uchat" => Speaks("c2") /\ ~Hears("c2") /\ ~Gone("c2")
             /\ talk = "uchat" => Gone("c2")
  <2>1. /\ calls["serv"] = <<Awaits, Reply>> /\ calls["c1"] = Left(Messages, Turn)
        /\ talk # "uchat" => calls["c2"] = Left(Messages, Turn)
        /\ talk = "uchat" => calls["c2"] = <<>>
    BY <1>1, <1>3, <1>6, TurnFacts
  <2>2. Listens /\ ~Replies
    BY <2>1, AtServer DEF Listens
  <2>3. \A c \in {"c1", "c2"} : calls[c] = Left(Messages, Turn) => Speaks(c) /\ ~Hears(c) /\ ~Gone(c)
    <3>1. \A c \in {"c1", "c2"} : calls[c] = Left(Messages, Turn) => Speaks(c)
      BY <1>4 DEF Speaks
    <3>2. QED BY <1>3, <3>1, OnePlace
  <2>4. QED BY <2>1, <2>2, <2>3 DEF Gone
<1>7. ASSUME talk \in {"uecho", "uechw"} PROVE EchoInv
  <2>1. EchoOwn
    BY <1>3, <1>5, <1>6, <1>7 DEF EchoOwn
  <2>2. ASSUME NEW c \in D!Group PROVE EchoTurn(c)
    <3>1. NoneOut(c)
      BY <1>3, <1>5, <1>6, <1>7 DEF NoneOut, Sent, InHand
    <3>2. got[c] = D!Typed(c, said[c])
      BY <1>3, <1>5
    <3>3. QED BY <1>3, <1>6, <1>7, <3>1, <3>2 DEF EchoTurn
  <2>3. QED BY <2>1, <2>2 DEF EchoInv
<1>8. ASSUME talk = "uchat" PROVE ChatInv
  <2>1. ChatShape
    BY <1>1, <1>3, <1>5, <1>6, <1>8 DEF ChatShape
  <2>2. ClientTurn
    BY <1>3, <1>5, <1>6, <1>8 DEF ClientTurn
  <2>3. QED BY <1>6, <1>8, <2>1, <2>2 DEF ChatInv, ChatTurn
<1>9. ASSUME talk \in {"bound", "news", "brd", "newsw"} PROVE NewsInv
  <2>1. Speaker \in Hosts /\ Hearers \subseteq Hosts
    BY <1>3 DEF Speaker, Hearers
  <2>2. calls[Speaker] = Left(IF talk = "bound" THEN 3 ELSE Pieces, <<D!Say(Hearers)>>)
    BY <1>1, <1>9, <2>1, NewsFacts
  <2>3. Calling
    BY <1>4, <2>2 DEF Calling
  <2>4. ASSUME NEW c \in Hosts \ (Hearers \cup {Speaker}) PROVE Gone(c)
    <3>1. c = "serv" /\ talk = "bound"
      BY <1>3, <1>9, <2>4 DEF Speaker, Hearers
    <3>2. QED BY <1>1, <1>3, <1>9, <3>1, NewsFacts DEF Gone
  <2>5. talk = "bound" =>
          /\ \E n \in 0..3 : /\ Len(got["c2"]) + n = 3
                             /\ Gone("c2") \/ calls["c2"] = Left(n, <<D!Recv(FALSE)>>)
          /\ got["serv"] = <<>> /\ inbox["c1"] = <<>>
    <3>1. ASSUME talk = "bound" PROVE calls["c2"] = Left(3, <<D!Recv(FALSE)>>)
      BY <1>1, <1>3, <1>9, <3>1, NewsFacts
    <3>2. 3 \in 0..3 /\ Len(got["c2"]) + 3 = 3
      BY <1>3, <1>5
    <3>3. QED BY <1>3, <1>5, <3>1, <3>2
  <2>6. talk # "bound" => \A c \in D!Group : Gone(c) \/ calls[c] = <<D!Recv(TRUE)>>
    BY <1>1, <1>3, <1>9, NewsFacts
  <2>7. NewsCalls
    BY <1>5, <2>1, <2>3, <2>4, <2>5, <2>6 DEF NewsCalls
  <2>8. \A c \in Hearers : Ordered(c)
    BY <1>5, <2>1 DEF Ordered, D!Increasing
  <2>9. QED BY <2>7, <2>8 DEF NewsInv
<1>10. QED BY <1>2, <1>7, <1>8, <1>9 DEF TalkInv

-----------------------------------------------------------------------------
(* Echo.                                                                   *)

\* A client whose line is not touched by a step.
LEMMA LineStays ==
    ASSUME NEW c \in {"c1", "c2"}, EchoTurn(c), talk' = talk, calls'[c] = calls[c],
           inbox'[c] = inbox[c], got'[c] = got[c], said'[c] = said[c],
           Sent(c)' = Sent(c), \A n \in Sent(c) : inbox'["serv"][n] = inbox["serv"][n],
           InHand(c)' = InHand(c), InHand(c) => got'["serv"] = got["serv"]
    PROVE  EchoTurn(c)'
<1>1. Speaks(c)' = Speaks(c) /\ Hears(c)' = Hears(c) /\ Gone(c)' = Gone(c)
  BY OthersStay DEF Hosts
<1>2. NoneOut(c)' = NoneOut(c)
  BY DEF NoneOut
<1>3. OneOut(c) => OneOut(c)'
  BY DEF OneOut
<1>4. QED BY <1>1, <1>2, <1>3 DEF EchoTurn, D!Typed, OpeningOf

\* Where the entries of an inbox are after one is added, or the first is taken.
LEMMA BoxFacts ==
    ASSUME NEW box \in Seq(Mail), NEW d \in Mail
    PROVE  /\ DOMAIN box = 1..Len(box) /\ Len(box) \in Nat
           /\ DOMAIN Append(box, d) = 1..Len(box) + 1 /\ Len(Append(box, d)) = Len(box) + 1
           /\ \A n \in 1..Len(box) : Append(box, d)[n] = box[n]
           /\ Append(box, d)[Len(box) + 1] = d
           /\ box # <<>> => /\ DOMAIN Tail(box) = 1..Len(box) - 1 /\ Len(Tail(box)) = Len(box) - 1
                            /\ \A n \in 1..Len(box) - 1 : n + 1 \in 1..Len(box) /\ Tail(box)[n] = box[n + 1]
                            /\ 1 \in DOMAIN box /\ Head(box) = box[1]
                            /\ Len(box) > 0
OBVIOUS

LEMMA EchoSays ==
    ASSUME TalkShape, EchoInv, NEW c \in {"c1", "c2"}, Speaks(c), Hears(c)', HostTypes(c, {"serv"})
    PROVE  EchoInv'
<1> DEFINE m == <<c, said[c] + 1>>
           d == [from |-> c, m |-> m]
           box == inbox["serv"]
<1>1. /\ D!Group = {"c1", "c2"} /\ c \in Hosts /\ "serv" \in Hosts /\ c # "serv" /\ c \in D!Group
      /\ DOMAIN calls = Hosts /\ inbox \in [Hosts -> Seq(Mail)] /\ got \in [Hosts -> Seq(Marks)]
      /\ said \in [Hosts -> Nat] /\ Hosts = {"serv", "c1", "c2"}
  BY SameHosts DEF Hosts, TalkShape
<1>2. /\ Others(c) /\ said' = [said EXCEPT ![c] = @ + 1] /\ inbox' = D!Posted(c, {"serv"}, m)
      /\ peer' = peer /\ got' = got /\ talk' = talk /\ faults' = faults
  BY DEF HostTypes, Rest
<1>3. m \in Marks /\ d \in Mail /\ d.from = c /\ d.m[1] = c /\ d.m[2] = said[c] + 1
  BY <1>1 DEF Marks, Mail
<1>4. inbox'["serv"] = Append(box, d) /\ \A h \in {"c1", "c2"} : inbox'[h] = inbox[h]
  <2> HIDE DEF m
  <2>1. \A r \in Hosts : inbox'[r] = IF r \in {"serv"} THEN Append(inbox[r], [from |-> c, m |-> m])
                                    ELSE inbox[r]
    BY <1>1, <1>2, <1>3, Post, SMTT(30)
  <2>2. QED BY <1>1, <2>1
<1> HIDE DEF m, d, box
<1>5. box \in Seq(Mail) /\ box = inbox["serv"]
  BY <1>1 DEF box
<1>6. /\ DOMAIN box = 1..Len(box) /\ Len(box) \in Nat /\ DOMAIN Append(box, d) = 1..Len(box) + 1
      /\ \A n \in 1..Len(box) : Append(box, d)[n] = box[n]
      /\ Append(box, d)[Len(box) + 1] = d
  BY <1>3, <1>5, BoxFacts
<1>7. Listens' = Listens /\ Replies' = Replies /\ Gone("serv")' = Gone("serv")
  <2>1. calls'["serv"] = calls["serv"]
    BY <1>1, <1>2 DEF Others
  <2>2. QED BY <1>1, <1>2, <2>1, OthersStay
<1>8. \A o \in {"c1", "c2"} : o # c => calls'[o] = calls[o]
  BY <1>1, <1>2 DEF Others
<1>9. EchoOwn'
  <2>1. \A n \in DOMAIN inbox'["serv"] : inbox'["serv"][n].from \in D!Group
                                         /\ inbox'["serv"][n].m[1] = inbox'["serv"][n].from
    <3>1. \A n \in DOMAIN box : box[n].from \in D!Group /\ box[n].m[1] = box[n].from
      BY <1>5 DEF EchoInv, EchoOwn
    <3>2. QED BY <1>1, <1>3, <1>4, <1>6, <3>1, SMTT(30)
  <2>2. ASSUME NEW o \in D!Group
        PROVE  /\ Speaks(o)' \/ Hears(o)' \/ Gone(o)'
               /\ \A n \in DOMAIN inbox'[o] : inbox'[o][n].m[1] = o
               /\ \A n \in DOMAIN got'[o] : got'[o][n][1] = o
    <3>1. Speaks(o)' \/ Hears(o)' \/ Gone(o)'
      BY <1>1, <1>2, <1>8, OthersStay DEF EchoInv, EchoOwn
    <3>2. QED BY <1>1, <1>2, <1>4, <3>1, SMTT(30) DEF EchoInv, EchoOwn
  <2>3. Replies' => /\ peer'["serv"] \in D!Group /\ got'["serv"] # <<>>
                    /\ Last(got'["serv"])[1] = peer'["serv"]
    BY <1>2, <1>7 DEF EchoInv, EchoOwn
  <2>4. Listens' \/ Replies' \/ Gone("serv")'
    BY <1>7 DEF EchoInv, EchoOwn
  <2>5. QED BY <2>1, <2>2, <2>3, <2>4 DEF EchoOwn, D!Group, Last
<1>10. ASSUME ~Copied', NEW o \in D!Group PROVE EchoTurn(o)'
  <2>1. EchoTurn(o) /\ EchoTurn(c)
    BY <1>1, <1>2, <1>10, CalmBefore DEF EchoInv
  <2>2. InHand(o)' = InHand(o) /\ InHand(c)' = InHand(c)
    BY <1>2, <1>7 DEF InHand
  <2>3. CASE o # c
    <3>1. Sent(o)' = Sent(o)
      <4>1. Sent(o)' = {n \in DOMAIN inbox'["serv"] : inbox'["serv"][n].from = o}
        BY DEF Sent
      <4>2. QED BY <1>3, <1>4, <1>5, <1>6, <2>3, <4>1 DEF Sent
    <3>2. \A n \in Sent(o) : inbox'["serv"][n] = inbox["serv"][n]
      BY <1>4, <1>5, <1>6 DEF Sent
    <3>3. said'[o] = said[o]
      BY <1>1, <1>2, <2>3
    <3>4. QED BY <1>1, <1>2, <1>4, <1>8, <2>1, <2>2, <2>3, <3>1, <3>2, <3>3, LineStays
  <2>4. CASE o = c
    <3>1. NoneOut(c) /\ got[c] = D!Typed(c, said[c])
      BY <2>1 DEF EchoTurn
    <3>2. Sent(c)' = {Len(box) + 1}
      <4>1. \A n \in 1..Len(box) : box[n].from # c
        BY <1>5, <1>6, <3>1 DEF NoneOut, Sent
      <4>2. Sent(c)' = {n \in DOMAIN inbox'["serv"] : inbox'["serv"][n].from = c}
        BY DEF Sent
      <4>3. QED BY <1>3, <1>4, <1>6, <4>1, <4>2
    <3>3. ~InHand(c)' /\ inbox'[c] = <<>>
      BY <1>4, <2>2, <3>1 DEF NoneOut
    <3>4. said'[c] = said[c] + 1 /\ said[c] \in Nat
      BY <1>1, <1>2
    <3>5. \A n \in Sent(c)' : inbox'["serv"][n].m[2] = said'[c]
      BY <1>3, <1>4, <1>6, <3>2, <3>4
    <3>6. OneOut(c)'
      BY <3>2, <3>3, <3>5 DEF OneOut
    <3>7. got'[c] = D!Typed(c, said'[c] - 1) /\ said'[c] > 0
      BY <1>2, <3>1, <3>4
    <3>8. ~Speaks(c)' /\ ~Gone(c)'
      BY <1>1, <1>2, OnePlaceNext
    <3>9. EchoTurn(c)'
      BY <3>6, <3>7, <3>8 DEF EchoTurn, D!Typed
    <3>10. QED BY <2>4, <3>9
  <2>5. QED BY <2>3, <2>4
<1>11. QED BY <1>9, <1>10 DEF EchoInv, D!Group

LEMMA EchoHears ==
    ASSUME TalkShape, EchoInv, NEW c \in {"c1", "c2"}, Hears(c), Speaks(c)', HostHears(c)
    PROVE  EchoInv'
<1> DEFINE box == inbox[c]
<1>1. /\ D!Group = {"c1", "c2"} /\ c \in Hosts /\ "serv" \in Hosts /\ c # "serv" /\ c \in D!Group
      /\ DOMAIN calls = Hosts /\ inbox \in [Hosts -> Seq(Mail)] /\ got \in [Hosts -> Seq(Marks)]
      /\ said \in [Hosts -> Nat] /\ peer \in [Hosts -> Hosts \cup {"nobody"}]
      /\ Hosts = {"serv", "c1", "c2"}
  BY SameHosts DEF Hosts, TalkShape
<1>2. /\ Others(c) /\ box # <<>> /\ box \in Seq(Mail) /\ box = inbox[c]
      /\ got' = [got EXCEPT ![c] = Append(@, Head(box).m)]
      /\ peer' = [peer EXCEPT ![c] = Head(box).from] /\ inbox' = [inbox EXCEPT ![c] = Tail(box)]
      /\ said' = said /\ talk' = talk /\ faults' = faults
  BY <1>1 DEF HostHears, Rest
<1> HIDE DEF box
<1>3. /\ DOMAIN box = 1..Len(box) /\ Len(box) \in Nat /\ Len(box) > 0
      /\ DOMAIN Tail(box) = 1..Len(box) - 1 /\ Len(Tail(box)) = Len(box) - 1
      /\ \A n \in 1..Len(box) - 1 : n + 1 \in 1..Len(box) /\ Tail(box)[n] = box[n + 1]
      /\ 1 \in DOMAIN box /\ Head(box) = box[1]
  <2>1. box[1] \in Mail
    BY <1>2
  <2>2. QED BY <1>2, <2>1, BoxFacts
<1>4. /\ inbox'[c] = Tail(box) /\ \A h \in Hosts \ {c} : inbox'[h] = inbox[h] /\ got'[h] = got[h]
      /\ peer'["serv"] = peer["serv"]
      /\ got'[c] = Append(got[c], box[1].m)
  BY <1>1, <1>2, <1>3
<1>5. Listens' = Listens /\ Replies' = Replies /\ Gone("serv")' = Gone("serv")
  <2>1. calls'["serv"] = calls["serv"]
    BY <1>1, <1>2 DEF Others
  <2>2. QED BY <1>1, <1>2, <2>1, OthersStay
<1>6. \A o \in {"c1", "c2"} : o # c => calls'[o] = calls[o]
  BY <1>1, <1>2 DEF Others
<1>7. \A n \in DOMAIN box : box[n].m[1] = c
  BY <1>1, <1>2, SMTT(30) DEF EchoInv, EchoOwn
<1>8. \A n \in DOMAIN got'[c] : got'[c][n][1] = c
  <2>1. got[c] \in Seq(Marks) /\ \A n \in DOMAIN got[c] : got[c][n][1] = c
    BY <1>1 DEF EchoInv, EchoOwn
  <2>2. box[1].m \in Marks /\ box[1].m[1] = c
    <3>1. box[1] \in Mail
      BY <1>2, <1>3
    <3>2. QED BY <1>3, <1>7, <3>1 DEF Mail
  <2>3. /\ DOMAIN Append(got[c], box[1].m) = 1..Len(got[c]) + 1 /\ DOMAIN got[c] = 1..Len(got[c])
        /\ \A n \in 1..Len(got[c]) : Append(got[c], box[1].m)[n] = got[c][n]
        /\ Append(got[c], box[1].m)[Len(got[c]) + 1] = box[1].m /\ Len(got[c]) \in Nat
    BY <2>1, <2>2
  <2>4. QED BY <1>4, <2>1, <2>2, <2>3
<1>9. EchoOwn'
  <2>1. ASSUME NEW o \in D!Group
        PROVE  /\ Speaks(o)' \/ Hears(o)' \/ Gone(o)'
               /\ \A n \in DOMAIN inbox'[o] : inbox'[o][n].m[1] = o
               /\ \A n \in DOMAIN got'[o] : got'[o][n][1] = o
    <3>1. Speaks(o)' \/ Hears(o)' \/ Gone(o)'
      BY <1>1, <1>2, <1>6, OthersStay DEF EchoInv, EchoOwn
    <3>2. CASE o = c
      <4>1. \A n \in DOMAIN inbox'[c] : inbox'[c][n].m[1] = c
        BY <1>3, <1>4, <1>7
      <4>2. QED BY <1>8, <3>1, <3>2, <4>1
    <3>3. CASE o # c
      BY <1>1, <1>4, <3>1, <3>3, SMTT(30) DEF EchoInv, EchoOwn
    <3>4. QED BY <3>2, <3>3
  <2>2. /\ inbox'["serv"] = inbox["serv"] /\ got'["serv"] = got["serv"] /\ peer'["serv"] = peer["serv"]
    BY <1>1, <1>4
  <2>3. Replies' => /\ peer'["serv"] \in D!Group /\ got'["serv"] # <<>>
                    /\ Last(got'["serv"])[1] = peer'["serv"]
    BY <1>5, <2>2 DEF EchoInv, EchoOwn
  <2>4. /\ Listens' \/ Replies' \/ Gone("serv")'
        /\ \A n \in DOMAIN inbox'["serv"] : inbox'["serv"][n].from \in D!Group
                                            /\ inbox'["serv"][n].m[1] = inbox'["serv"][n].from
    BY <1>5, <2>2 DEF EchoInv, EchoOwn
  <2>5. QED BY <2>1, <2>3, <2>4 DEF EchoOwn, D!Group, Last
<1>10. ASSUME ~Copied', NEW o \in D!Group PROVE EchoTurn(o)'
  <2>1. EchoTurn(o) /\ EchoTurn(c)
    BY <1>1, <1>2, <1>10, CalmBefore DEF EchoInv
  <2>2. InHand(o)' = InHand(o) /\ InHand(c)' = InHand(c) /\ Sent(o)' = Sent(o) /\ Sent(c)' = Sent(c)
    BY <1>1, <1>4, <1>5 DEF InHand, Sent
  <2>3. CASE o # c
    <3>1. /\ inbox'[o] = inbox[o] /\ got'[o] = got[o] /\ calls'[o] = calls[o]
          /\ inbox'["serv"] = inbox["serv"] /\ got'["serv"] = got["serv"]
      BY <1>1, <1>4, <1>6, <2>3
    <3>2. QED BY <1>1, <1>2, <2>1, <2>2, <3>1, LineStays
  <2>4. CASE o = c
    <3>1. OneOut(c) /\ said[c] > 0 /\ got[c] = D!Typed(c, said[c] - 1)
      BY <2>1 DEF EchoTurn
    <3>2. Sent(c) = {} /\ ~InHand(c) /\ Len(box) = 1 /\ box[1].m[2] = said[c]
      <4>1. Len(box) <= 1
        BY <1>2, <3>1 DEF OneOut
      <4>2. Sent(c) = {} /\ ~InHand(c)
        BY <1>2, <3>1 DEF OneOut
      <4>3. \A n \in DOMAIN box : box[n].m[2] = said[c]
        BY <1>2, <3>1 DEF OneOut
      <4>4. QED BY <1>3, <4>1, <4>2, <4>3
    <3>3. inbox'[c] = <<>>
      <4>1. Tail(box) = <<>>
        <5>1. Tail(box) \in Seq(Mail) /\ Len(Tail(box)) = 0
          BY <1>2, <1>3, <3>2
        <5>2. \A s \in Seq(Mail) : Len(s) = 0 => s = <<>>
          OBVIOUS
        <5>3. QED BY <5>1, <5>2
      <4>2. QED BY <1>4, <4>1
    <3>4. NoneOut(c)'
      BY <2>2, <3>2, <3>3 DEF NoneOut
    <3>5. box[1].m = <<c, said[c]>>
      <4>1. box[1].m \in Marks
        <5>1. box[1] \in Mail
          BY <1>2, <1>3
        <5>2. QED BY <5>1 DEF Mail
      <4>2. QED BY <1>3, <1>7, <3>2, <4>1 DEF Marks
    <3>6. got'[c] = D!Typed(c, said[c])
      <4>1. said[c] \in Nat
        BY <1>1
      <4>2. Append(D!Typed(c, said[c] - 1), <<c, said[c]>>) = D!Typed(c, said[c])
        BY <1>1, <3>1, <4>1, TypedFacts
      <4>3. QED BY <1>4, <3>1, <3>5, <4>2
    <3>7. ~Hears(c)' /\ ~Gone(c)'
      BY <1>1, <1>2, OnePlaceNext
    <3>8. EchoTurn(c)'
      BY <1>2, <3>4, <3>6, <3>7 DEF EchoTurn, D!Typed
    <3>9. QED BY <2>4, <3>8
  <2>5. QED BY <2>3, <2>4
<1>11. QED BY <1>9, <1>10 DEF EchoInv, D!Group

\* A client or the server ends.
LEMMA EchoEnds ==
    ASSUME TalkShape, EchoInv, NEW h \in Hosts, HostEnds(h)
    PROVE  EchoInv'
<1>1. /\ D!Group = {"c1", "c2"} /\ Hosts = {"serv", "c1", "c2"} /\ said \in [Hosts -> Nat]
  BY SameHosts DEF Hosts, TalkShape
<1>2. /\ Others(h) /\ Gone(h)' /\ talk' = talk /\ inbox' = inbox /\ peer' = peer /\ said' = said
      /\ got' = got /\ faults' = faults
  BY DEF HostEnds
<1>3. \A o \in Hosts : o # h => calls'[o] = calls[o]
  BY <1>2 DEF Others
<1>4. Replies' => Replies
  <2>1. CASE h = "serv"
    <3>1. ~Replies'
      BY <1>2, <2>1 DEF Gone, Replies
    <3>2. QED BY <3>1
  <2>2. CASE h # "serv"
    BY <1>1, <1>2, <1>3, <2>2, OthersStay
  <2>3. QED BY <2>1, <2>2
<1>5. Listens' \/ Replies' \/ Gone("serv")'
  <2>1. CASE h = "serv"
    BY <1>2, <2>1
  <2>2. CASE h # "serv"
    BY <1>1, <1>2, <1>3, <2>2, OthersStay DEF EchoInv, EchoOwn
  <2>3. QED BY <2>1, <2>2
<1>6. \A o \in D!Group : Speaks(o)' \/ Hears(o)' \/ Gone(o)'
  BY <1>1, <1>2, <1>3, OthersStay DEF EchoInv, EchoOwn
<1>7. EchoOwn'
  BY <1>2, <1>4, <1>5, <1>6 DEF EchoInv, EchoOwn, D!Group, Last
<1>8. ASSUME ~Copied', NEW o \in D!Group PROVE EchoTurn(o)'
  <2>1. EchoTurn(o) /\ said[o] \in Nat /\ o \in Hosts
    BY <1>1, <1>2, <1>8, CalmBefore DEF EchoInv
  <2>2. (InHand(o)' => InHand(o)) /\ Sent(o)' = Sent(o)
    BY <1>2, <1>4 DEF InHand, Sent
  <2>3. CASE o = h
    <3>1. ~Speaks(o)' /\ ~Hears(o)'
      BY <1>2, <2>1, <2>3, OnePlaceNext
    <3>2. OpeningOf(got[o], o, said[o])
      <4>1. Speaks(o) \/ Hears(o) \/ Gone(o)
        BY DEF EchoInv, EchoOwn
      <4>2. got[o] = D!Typed(o, said[o]) => OpeningOf(got[o], o, said[o])
        BY <2>1, TypedFacts
      <4>3. got[o] = D!Typed(o, said[o] - 1) /\ said[o] > 0 => OpeningOf(got[o], o, said[o])
        BY <2>1, TypedFacts
      <4>4. QED BY <2>1, <4>1, <4>2, <4>3 DEF EchoTurn
    <3>3. QED BY <1>2, <3>1, <3>2 DEF EchoTurn, D!Typed, OpeningOf
  <2>4. CASE o # h
    <3>1. Speaks(o)' = Speaks(o) /\ Hears(o)' = Hears(o) /\ Gone(o)' = Gone(o)
      BY <1>2, <1>3, <2>1, <2>4, OthersStay
    <3>2. NoneOut(o) => NoneOut(o)'
      BY <1>2, <2>2 DEF NoneOut
    <3>3. OneOut(o) => OneOut(o)'
      BY <1>2, <2>2 DEF OneOut
    <3>4. QED BY <1>2, <2>1, <3>1, <3>2, <3>3 DEF EchoTurn, D!Typed, OpeningOf
  <2>5. QED BY <2>3, <2>4
<1>9. QED BY <1>7, <1>8 DEF EchoInv, D!Group

\* The server takes the first datagram that waits.
LEMMA EchoServes ==
    ASSUME TalkShape, EchoInv, Listens, Replies', HostHears("serv")
    PROVE  EchoInv'
<1> DEFINE box == inbox["serv"]
           d == box[1]
<1>1. /\ D!Group = {"c1", "c2"} /\ "serv" \in Hosts /\ Hosts = {"serv", "c1", "c2"}
      /\ DOMAIN calls = Hosts /\ inbox \in [Hosts -> Seq(Mail)] /\ got \in [Hosts -> Seq(Marks)]
      /\ peer \in [Hosts -> Hosts \cup {"nobody"}]
  BY SameHosts DEF Hosts, TalkShape
<1>2. /\ Others("serv") /\ box # <<>> /\ box \in Seq(Mail) /\ box = inbox["serv"]
      /\ got' = [got EXCEPT !["serv"] = Append(@, Head(box).m)]
      /\ peer' = [peer EXCEPT !["serv"] = Head(box).from] /\ inbox' = [inbox EXCEPT !["serv"] = Tail(box)]
      /\ said' = said /\ talk' = talk /\ faults' = faults
  BY <1>1 DEF HostHears, Rest
<1>3. d = box[1]
  OBVIOUS
<1> HIDE DEF box, d
<1>4. /\ DOMAIN box = 1..Len(box) /\ Len(box) \in Nat /\ Len(box) > 0
      /\ DOMAIN Tail(box) = 1..Len(box) - 1 /\ Len(Tail(box)) = Len(box) - 1
      /\ \A n \in 1..Len(box) - 1 : n + 1 \in 1..Len(box) /\ Tail(box)[n] = box[n + 1]
      /\ 1 \in DOMAIN box /\ Head(box) = d /\ d \in Mail
  <2>1. d \in Mail
    BY <1>2, <1>3
  <2>2. QED BY <1>2, <1>3, <2>1, BoxFacts
<1>5. /\ inbox'["serv"] = Tail(box) /\ \A h \in Hosts \ {"serv"} : inbox'[h] = inbox[h] /\ got'[h] = got[h]
      /\ peer'["serv"] = d.from /\ got'["serv"] = Append(got["serv"], d.m)
  BY <1>1, <1>2, <1>4
<1>6. \A n \in DOMAIN box : box[n].from \in D!Group /\ box[n].m[1] = box[n].from
  BY <1>2 DEF EchoInv, EchoOwn
<1>7. d.from \in D!Group /\ d.m[1] = d.from /\ d.m \in Marks
  BY <1>3, <1>4, <1>6 DEF Mail
<1>8. got'["serv"] # <<>> /\ Last(got'["serv"]) = d.m
  <2>1. got["serv"] \in Seq(Marks)
    BY <1>1
  <2>2. Append(got["serv"], d.m) # <<>>
        /\ Append(got["serv"], d.m)[Len(Append(got["serv"], d.m))] = d.m
    BY <1>7, <2>1
  <2>3. QED BY <1>5, <2>2 DEF Last
<1>9. \A o \in {"c1", "c2"} : calls'[o] = calls[o]
  BY <1>1, <1>2 DEF Others
<1>10. ~Replies
  BY AtServer
<1>11. EchoOwn'
  <2>1. ASSUME NEW o \in D!Group
        PROVE  /\ Speaks(o)' \/ Hears(o)' \/ Gone(o)'
               /\ \A n \in DOMAIN inbox'[o] : inbox'[o][n].m[1] = o
               /\ \A n \in DOMAIN got'[o] : got'[o][n][1] = o
    <3>1. Speaks(o)' \/ Hears(o)' \/ Gone(o)'
      BY <1>1, <1>2, <1>9, OthersStay DEF EchoInv, EchoOwn
    <3>2. QED BY <1>1, <1>5, <3>1 DEF EchoInv, EchoOwn
  <2>2. peer'["serv"] \in D!Group /\ got'["serv"] # <<>> /\ Last(got'["serv"])[1] = peer'["serv"]
    BY <1>5, <1>7, <1>8
  <2>3. \A n \in DOMAIN inbox'["serv"] : inbox'["serv"][n].from \in D!Group
                                         /\ inbox'["serv"][n].m[1] = inbox'["serv"][n].from
    BY <1>4, <1>5, <1>6
  <2>4. QED BY <2>1, <2>2, <2>3 DEF EchoOwn, D!Group, Last
<1>12. ASSUME ~Copied', NEW c \in D!Group PROVE EchoTurn(c)'
  <2>1. EchoTurn(c) /\ ~InHand(c)
    BY <1>2, <1>10, <1>12, CalmBefore DEF EchoInv, InHand
  <2>2. (InHand(c)' <=> c = d.from) /\ inbox'[c] = inbox[c] /\ got'[c] = got[c] /\ said'[c] = said[c]
    BY <1>1, <1>2, <1>5 DEF InHand
  <2>3. Speaks(c)' = Speaks(c) /\ Hears(c)' = Hears(c) /\ Gone(c)' = Gone(c)
    BY <1>1, <1>2, <1>9, OthersStay
  <2>4. Sent(c)' = {n \in 1..Len(box) - 1 : box[n + 1].from = c}
        /\ Sent(c) = {n \in 1..Len(box) : box[n].from = c}
    <3>1. Sent(c)' = {n \in DOMAIN inbox'["serv"] : inbox'["serv"][n].from = c}
      BY DEF Sent
    <3>2. DOMAIN inbox'["serv"] = 1..Len(box) - 1
          /\ \A n \in 1..Len(box) - 1 : inbox'["serv"][n] = box[n + 1]
      BY <1>4, <1>5
    <3>3. Sent(c)' = {n \in 1..Len(box) - 1 : box[n + 1].from = c}
      BY <3>1, <3>2
    <3>4. Sent(c) = {n \in 1..Len(box) : box[n].from = c}
      BY <1>2, <1>4 DEF Sent
    <3>5. QED BY <3>3, <3>4
  <2>5. ASSUME NoneOut(c) PROVE NoneOut(c)'
    <3>1. \A n \in 1..Len(box) : box[n].from # c
      BY <2>4, <2>5 DEF NoneOut
    <3>2. Sent(c)' = {} /\ d.from # c
      BY <1>3, <1>4, <2>4, <3>1
    <3>3. QED BY <2>2, <2>5, <3>2 DEF NoneOut
  <2>6. ASSUME OneOut(c) PROVE OneOut(c)'
    <3>1. CASE d.from = c
      <4>1. 1 \in Sent(c)
        BY <1>3, <1>4, <2>4, <3>1
      <4>2. Sent(c) = {1} /\ inbox[c] = <<>> /\ d.m[2] = said[c]
        <5>1. \A n \in Sent(c) : n = 1
          BY <2>6, <4>1 DEF OneOut
        <5>2. QED BY <1>2, <1>3, <2>6, <4>1, <5>1 DEF OneOut
      <4>3. Sent(c)' = {}
        <5>1. ASSUME NEW n \in Sent(c)' PROVE FALSE
          <6>1. n \in 1..Len(box) - 1 /\ n + 1 \in 1..Len(box) /\ box[n + 1].from = c
            BY <1>4, <2>4
          <6>2. n + 1 \in Sent(c)
            BY <2>4, <6>1
          <6>3. QED BY <4>2, <6>1, <6>2
        <5>2. QED BY <5>1
      <4>4. Last(got'["serv"])[2] = said'[c]
        BY <1>8, <2>2, <4>2
      <4>5. inbox'[c] = <<>> /\ DOMAIN inbox'[c] = {} /\ Len(inbox'[c]) <= 1
        BY <2>2, <4>2
      <4>6. QED BY <4>3, <4>4, <4>5 DEF OneOut, Last
    <3>2. CASE d.from # c
      <4>1. \A n \in Sent(c)' : n \in 1..Len(box) - 1 /\ n + 1 \in Sent(c)
                                /\ inbox'["serv"][n] = inbox["serv"][n + 1]
        BY <1>2, <1>4, <1>5, <2>4
      <4>2. \A n, l \in Sent(c)' : n = l
        <5>1. TAKE n, l \in Sent(c)'
        <5>2. n + 1 = l + 1 /\ n \in Int /\ l \in Int
          BY <2>6, <4>1 DEF OneOut
        <5>3. QED BY <5>2
      <4>3. Sent(c)' # {} => inbox'[c] = <<>>
        BY <2>2, <2>6, <4>1 DEF OneOut
      <4>4. \A n \in Sent(c)' : inbox'["serv"][n].m[2] = said'[c]
        BY <2>2, <2>6, <4>1 DEF OneOut
      <4>5. Len(inbox'[c]) <= 1 /\ \A n \in DOMAIN inbox'[c] : inbox'[c][n].m[2] = said'[c]
        BY <2>2, <2>6 DEF OneOut
      <4>6. QED BY <2>2, <3>2, <4>2, <4>3, <4>4, <4>5 DEF OneOut, Last
    <3>3. QED BY <3>1, <3>2
  <2>7. QED BY <2>1, <2>2, <2>3, <2>5, <2>6 DEF EchoTurn, D!Typed, OpeningOf
<1>13. QED BY <1>11, <1>12 DEF EchoInv, D!Group

\* The server sends back what it received.
LEMMA EchoReplies ==
    ASSUME TalkShape, EchoInv, Replies, Listens', HostEchoes("serv")
    PROVE  EchoInv'
<1> DEFINE p == peer["serv"]
           m == Last(got["serv"])
           d == [from |-> "serv", m |-> m]
           box == inbox[p]
<1>1. /\ D!Group = {"c1", "c2"} /\ "serv" \in Hosts /\ Hosts = {"serv", "c1", "c2"}
      /\ DOMAIN calls = Hosts /\ inbox \in [Hosts -> Seq(Mail)] /\ got \in [Hosts -> Seq(Marks)]
  BY SameHosts DEF Hosts, TalkShape
<1>2. /\ Others("serv") /\ inbox' = D!Posted("serv", {p}, m)
      /\ peer' = peer /\ said' = said /\ got' = got /\ talk' = talk /\ faults' = faults
  BY DEF HostEchoes, Rest
<1>3. p = peer["serv"] /\ p \in D!Group /\ m[1] = p /\ m \in Marks /\ m = Last(got["serv"])
  <2>1. got["serv"] # <<>> /\ got["serv"] \in Seq(Marks) /\ p \in D!Group /\ m[1] = p
    BY <1>1 DEF EchoInv, EchoOwn
  <2>2. got["serv"][Len(got["serv"])] \in Marks
    BY <2>1
  <2>3. QED BY <2>1, <2>2 DEF Last
<1>4. d \in Mail /\ d.m = m
  BY <1>1, <1>3 DEF Mail
<1>5. p \in Hosts /\ p # "serv" /\ box \in Seq(Mail) /\ box = inbox[p]
  BY <1>1, <1>3
<1>6. inbox'[p] = Append(box, d) /\ \A h \in Hosts : h # p => inbox'[h] = inbox[h]
  <2> HIDE DEF m, p
  <2>1. \A r \in Hosts : inbox'[r] = IF r \in {p} THEN Append(inbox[r], [from |-> "serv", m |-> m]) ELSE inbox[r]
    <3>1. "serv" \in Hosts /\ m \in Marks /\ inbox \in [Hosts -> Seq(Mail)]
          /\ inbox' = D!Posted("serv", {p}, m)
      BY <1>1, <1>2, <1>3
    <3>2. QED BY <3>1, Post
  <2>2. QED BY <1>5, <2>1
<1> HIDE DEF p, m, d, box
<1>7. /\ DOMAIN box = 1..Len(box) /\ Len(box) \in Nat /\ DOMAIN Append(box, d) = 1..Len(box) + 1
      /\ Len(Append(box, d)) = Len(box) + 1
      /\ \A n \in 1..Len(box) : Append(box, d)[n] = box[n]
      /\ Append(box, d)[Len(box) + 1] = d
  BY <1>4, <1>5, BoxFacts
<1>8. \A o \in {"c1", "c2"} : calls'[o] = calls[o]
  BY <1>1, <1>2 DEF Others
<1>9. ~Replies'
  <2>1. Listens' /\ Awaits' = Awaits /\ Reply' = Reply
    BY <1>2 DEF Awaits, Reply
  <2>2. calls'["serv"] = <<Awaits, Reply>>
    BY <2>1 DEF Listens
  <2>3. <<Awaits, Reply>> # <<Reply>>
    OBVIOUS
  <2>4. QED BY <2>1, <2>2, <2>3 DEF Replies
<1>10. EchoOwn'
  <2>1. ASSUME NEW o \in D!Group
        PROVE  /\ Speaks(o)' \/ Hears(o)' \/ Gone(o)'
               /\ \A n \in DOMAIN inbox'[o] : inbox'[o][n].m[1] = o
               /\ \A n \in DOMAIN got'[o] : got'[o][n][1] = o
    <3>1. (Speaks(o)' \/ Hears(o)' \/ Gone(o)') /\ \A n \in DOMAIN got'[o] : got'[o][n][1] = o
      BY <1>1, <1>2, <1>8, OthersStay DEF EchoInv, EchoOwn
    <3>2. \A n \in DOMAIN inbox[o] : inbox[o][n].m[1] = o
      BY DEF EchoInv, EchoOwn
    <3>3. CASE o = p
      <4>1. \A n \in DOMAIN Append(box, d) : Append(box, d)[n].m[1] = p
        <5>1. \A n \in 1..Len(box) : box[n].m[1] = p
          BY <1>5, <1>7, <3>2, <3>3
        <5>2. QED BY <1>3, <1>4, <1>7, <5>1
      <4>2. QED BY <1>6, <3>1, <3>3, <4>1
    <3>4. CASE o # p
      BY <1>1, <1>6, <3>1, <3>2, <3>4
    <3>5. QED BY <3>3, <3>4
  <2>2. \A n \in DOMAIN inbox'["serv"] : inbox'["serv"][n].from \in D!Group
                                         /\ inbox'["serv"][n].m[1] = inbox'["serv"][n].from
    BY <1>1, <1>5, <1>6 DEF EchoInv, EchoOwn
  <2>3. QED BY <1>9, <2>1, <2>2 DEF EchoOwn, D!Group
<1>11. ASSUME ~Copied', NEW c \in D!Group PROVE EchoTurn(c)'
  <2>1. EchoTurn(c)
    BY <1>2, <1>11, CalmBefore DEF EchoInv
  <2>2. (InHand(c) <=> c = p) /\ ~InHand(c)' /\ Sent(c)' = Sent(c) /\ inbox'["serv"] = inbox["serv"]
    <3>1. inbox'["serv"] = inbox["serv"]
      BY <1>1, <1>5, <1>6
    <3>2. QED BY <1>3, <1>9, <3>1 DEF InHand, Sent
  <2>3. CASE c # p
    <3>1. inbox'[c] = inbox[c] /\ calls'[c] = calls[c]
      BY <1>1, <1>6, <1>8, <2>3
    <3>2. InHand(c)' = InHand(c)
      BY <2>2, <2>3 DEF InHand
    <3>3. QED BY <1>1, <1>2, <2>1, <2>2, <3>1, <3>2, LineStays
  <2>4. CASE c = p
    <3>1. Speaks(c)' = Speaks(c) /\ Hears(c)' = Hears(c) /\ Gone(c)' = Gone(c)
      BY <1>1, <1>2, <1>8, OthersStay
    <3>2. ~NoneOut(c)
      BY <2>2, <2>4 DEF NoneOut
    <3>3. ASSUME OneOut(c) PROVE OneOut(c)'
      <4>1. Sent(c) = {} /\ inbox[c] = <<>> /\ m[2] = said[c]
        BY <1>3, <2>2, <2>4, <3>3 DEF OneOut
      <4>2. Len(box) = 0
        BY <1>5, <2>4, <4>1
      <4>3. Len(inbox'[c]) = 1 /\ DOMAIN inbox'[c] = {1} /\ inbox'[c][1] = d
        BY <1>6, <1>7, <2>4, <4>2
      <4>4. Len(inbox'[c]) <= 1 /\ \A n \in DOMAIN inbox'[c] : inbox'[c][n].m[2] = said'[c]
        <5>1. d.m[2] = said'[c]
          BY <1>2, <1>4, <4>1
        <5>2. QED BY <4>3, <5>1
      <4>5. Sent(c)' = {}
        BY <2>2, <4>1
      <4>6. QED BY <2>2, <4>4, <4>5 DEF OneOut
    <3>4. QED BY <1>2, <2>1, <3>1, <3>2, <3>3 DEF EchoTurn, D!Typed, OpeningOf
  <2>5. QED BY <2>3, <2>4
<1>12. QED BY <1>10, <1>11 DEF EchoInv, D!Group

LEMMA EchoNetwork ==
    ASSUME TalkShape, EchoInv, NEW h \in Hosts, NEW t \in Seq(Mail), Network(h, t)
    PROVE  EchoInv'
<1> DEFINE box == inbox[h]
<1>1. /\ D!Group = {"c1", "c2"} /\ Hosts = {"serv", "c1", "c2"}
      /\ inbox \in [Hosts -> Seq(Mail)]
  BY SameHosts DEF Hosts, TalkShape
<1>2. /\ inbox' = [inbox EXCEPT ![h] = t] /\ Among(t, box) /\ (~Copied' => ~Copied /\ Keeps(t, box))
      /\ talk' = talk /\ calls' = calls /\ peer' = peer /\ said' = said /\ got' = got
  BY DEF Network
<1>3. /\ inbox'[h] = t /\ \A o \in Hosts : o # h => inbox'[o] = inbox[o]
      /\ box \in Seq(Mail) /\ box = inbox[h]
  BY <1>1, <1>2
<1> HIDE DEF box
<1>4. \A o \in Hosts : Speaks(o)' = Speaks(o) /\ Hears(o)' = Hears(o) /\ Gone(o)' = Gone(o)
  BY <1>2, OthersStay
<1>5. Listens' = Listens /\ Replies' = Replies
  BY <1>1, <1>2, OthersStay
<1>6. \A n \in DOMAIN t : \E l \in DOMAIN box : t[n] = box[l]
  BY <1>2 DEF Among
<1>7. EchoOwn'
  <2>1. \A n \in DOMAIN inbox'["serv"] : inbox'["serv"][n].from \in D!Group
                                         /\ inbox'["serv"][n].m[1] = inbox'["serv"][n].from
    <3>1. \A n \in DOMAIN inbox["serv"] : inbox["serv"][n].from \in D!Group
                                          /\ inbox["serv"][n].m[1] = inbox["serv"][n].from
      BY DEF EchoInv, EchoOwn
    <3>2. CASE h = "serv"
      BY <1>3, <1>6, <3>1, <3>2
    <3>3. CASE h # "serv"
      BY <1>1, <1>3, <3>1, <3>3
    <3>4. QED BY <3>2, <3>3
  <2>2. ASSUME NEW o \in D!Group PROVE \A n \in DOMAIN inbox'[o] : inbox'[o][n].m[1] = o
    <3>1. \A n \in DOMAIN inbox[o] : inbox[o][n].m[1] = o
      BY DEF EchoInv, EchoOwn
    <3>2. CASE h = o
      BY <1>3, <1>6, <3>1, <3>2
    <3>3. CASE h # o
      BY <1>1, <1>3, <3>1, <3>3
    <3>4. QED BY <3>2, <3>3
  <2>3. \A o \in D!Group : (Speaks(o)' \/ Hears(o)' \/ Gone(o)') /\ \A n \in DOMAIN got'[o] : got'[o][n][1] = o
    BY <1>1, <1>2, <1>4 DEF EchoInv, EchoOwn
  <2>4. /\ Listens' \/ Replies' \/ Gone("serv")'
        /\ Replies' => /\ peer'["serv"] \in D!Group /\ got'["serv"] # <<>>
                       /\ Last(got'["serv"])[1] = peer'["serv"]
    BY <1>1, <1>2, <1>4, <1>5 DEF EchoInv, EchoOwn
  <2>5. QED BY <2>1, <2>2, <2>3, <2>4 DEF EchoOwn, D!Group, Last
<1>8. ASSUME ~Copied', NEW c \in D!Group PROVE EchoTurn(c)'
  <2>1. EchoTurn(c) /\ Keeps(t, box)
    BY <1>2, <1>8 DEF EchoInv
  <2>2. PICK f \in [DOMAIN t -> DOMAIN box] : /\ \A n, l \in DOMAIN t : f[n] = f[l] => n = l
                                              /\ \A n \in DOMAIN t : t[n] = box[f[n]]
    BY <2>1 DEF Keeps
  <2>3. (Len(box) <= 1 => Len(t) <= 1) /\ (box = <<>> => t = <<>>)
    BY <1>3, <2>1, KeptFew
  <2>4. InHand(c)' = InHand(c) /\ c \in Hosts
    BY <1>1, <1>2, <1>5 DEF InHand
  <2>5. Sent(c)' = {n \in DOMAIN inbox'["serv"] : inbox'["serv"][n].from = c}
        /\ Sent(c) = {n \in DOMAIN inbox["serv"] : inbox["serv"][n].from = c}
    BY DEF Sent
  <2>6. CASE h = "serv"
    <3>1. inbox'[c] = inbox[c]
      BY <1>1, <1>3, <2>6
    <3>2. /\ Sent(c)' = {n \in DOMAIN t : t[n].from = c} /\ Sent(c) = {n \in DOMAIN box : box[n].from = c}
          /\ inbox'["serv"] = t /\ inbox["serv"] = box
      BY <1>3, <2>5, <2>6
    <3>3. \A n \in Sent(c)' : n \in DOMAIN t /\ f[n] \in Sent(c) /\ t[n] = box[f[n]]
      BY <2>2, <3>2
    <3>4. NoneOut(c) => NoneOut(c)'
      BY <2>4, <3>1, <3>3 DEF NoneOut
    <3>5. ASSUME OneOut(c) PROVE OneOut(c)'
      <4>1. \A n, l \in Sent(c)' : n = l
        BY <2>2, <3>3, <3>5 DEF OneOut
      <4>2. Sent(c)' # {} => ~InHand(c)' /\ inbox'[c] = <<>>
        BY <2>4, <3>1, <3>3, <3>5 DEF OneOut
      <4>3. \A n \in Sent(c)' : inbox'["serv"][n].m[2] = said'[c]
        BY <1>2, <3>2, <3>3, <3>5 DEF OneOut
      <4>4. QED BY <1>2, <2>4, <3>1, <3>5, <4>1, <4>2, <4>3 DEF OneOut, Last
    <3>6. QED BY <1>2, <1>4, <2>1, <2>4, <3>4, <3>5 DEF EchoTurn, D!Typed, OpeningOf
  <2>7. CASE h = c
    <3>1. inbox'["serv"] = inbox["serv"] /\ Sent(c)' = Sent(c)
      BY <1>1, <1>3, <2>5, <2>7
    <3>2. inbox'[c] = t /\ inbox[c] = box
      BY <1>3, <2>7
    <3>3. NoneOut(c) => NoneOut(c)'
      BY <2>3, <2>4, <3>1, <3>2 DEF NoneOut
    <3>4. ASSUME OneOut(c) PROVE OneOut(c)'
      <4>1. /\ Sent(c)' # {} => ~InHand(c)' /\ inbox'[c] = <<>>
            /\ InHand(c)' => inbox'[c] = <<>> /\ Last(got'["serv"])[2] = said'[c]
            /\ Len(inbox'[c]) <= 1
            /\ \A n, l \in Sent(c)' : n = l
            /\ \A n \in Sent(c)' : inbox'["serv"][n].m[2] = said'[c]
        BY <1>2, <2>3, <2>4, <3>1, <3>2, <3>4 DEF OneOut
      <4>2. \A n \in DOMAIN inbox'[c] : inbox'[c][n].m[2] = said'[c]
        BY <1>2, <2>2, <3>2, <3>4 DEF OneOut
      <4>3. QED BY <4>1, <4>2 DEF OneOut, Last
    <3>5. QED BY <1>2, <1>4, <2>1, <2>4, <3>3, <3>4 DEF EchoTurn, D!Typed, OpeningOf
  <2>8. CASE h # "serv" /\ h # c
    <3>1. inbox'["serv"] = inbox["serv"] /\ Sent(c)' = Sent(c) /\ inbox'[c] = inbox[c]
      BY <1>1, <1>3, <2>4, <2>5, <2>8
    <3>2. QED BY <1>1, <1>2, <2>1, <2>4, <3>1, LineStays
  <2>9. QED BY <2>6, <2>7, <2>8
<1>9. QED BY <1>7, <1>8 DEF EchoInv, D!Group

LEMMA EchoKept ==
    ASSUME TalkShape, talk \in {"uecho", "uechw"}, EchoInv, D!Next
    PROVE  TalkShape' /\ EchoInv' /\ talk' = talk
<1>1. Places /\ D!Group = {"c1", "c2"} /\ Hosts = {"serv", "c1", "c2"}
  BY SameHosts DEF Places, EchoInv, EchoOwn, Hosts
<1>2. ASSUME NEW c \in {"c1", "c2"}, ClientStep(c) PROVE TalkShape' /\ EchoInv' /\ talk' = talk
  <2>1. CASE Speaks(c) /\ Hears(c)' /\ HostTypes(c, {"serv"})
    <3>1. HostStep(c) /\ talk' = talk
      BY <2>1 DEF HostStep, HostTypes, Rest
    <3>2. QED BY <1>1, <2>1, <3>1, ShapeKept, EchoSays
  <2>2. CASE Hears(c) /\ Speaks(c)' /\ HostHears(c)
    <3>1. HostStep(c) /\ talk' = talk
      BY <2>2 DEF HostStep, HostHears, Rest
    <3>2. QED BY <1>1, <2>2, <3>1, ShapeKept, EchoHears
  <2>3. CASE HostEnds(c)
    <3>1. HostStep(c) /\ talk' = talk
      BY <2>3 DEF HostStep, HostEnds
    <3>2. QED BY <1>1, <2>3, <3>1, ShapeKept, EchoEnds
  <2>4. QED BY <1>2, <2>1, <2>2, <2>3 DEF ClientStep
<1>3. ASSUME ServerStep PROVE TalkShape' /\ EchoInv' /\ talk' = talk
  <2>1. CASE Listens /\ Replies' /\ HostHears("serv")
    <3>1. HostStep("serv") /\ talk' = talk
      BY <2>1 DEF HostStep, HostHears, Rest
    <3>2. QED BY <1>1, <2>1, <3>1, ShapeKept, EchoServes
  <2>2. CASE Replies /\ Listens' /\ HostEchoes("serv")
    <3>1. got["serv"] # <<>>
      BY <2>2 DEF EchoInv, EchoOwn
    <3>2. HostStep("serv") /\ talk' = talk
      BY <2>2, <3>1 DEF HostStep, HostEchoes, Rest
    <3>3. QED BY <1>1, <2>2, <3>2, ShapeKept, EchoReplies
  <2>3. CASE HostEnds("serv")
    <3>1. HostStep("serv") /\ talk' = talk
      BY <2>3 DEF HostStep, HostEnds
    <3>2. QED BY <1>1, <2>3, <3>1, ShapeKept, EchoEnds
  <2>4. QED BY <1>3, <2>1, <2>2, <2>3 DEF ServerStep
<1>4. ASSUME NEW h \in Hosts, NEW t \in Seq(Mail), Network(h, t) PROVE TalkShape' /\ EchoInv' /\ talk' = talk
  <2>1. HostStep(h) /\ talk' = talk
    BY <1>4 DEF HostStep, Network
  <2>2. QED BY <1>4, <2>1, ShapeKept, EchoNetwork
<1>5. QED BY <1>1, <1>2, <1>3, <1>4, TurnSteps

-----------------------------------------------------------------------------
(* Chat.                                                                   *)

LEMMA ChatSays ==
    ASSUME TalkShape, talk = "uchat", ChatInv, Speaks("c1"), Hears("c1")', HostTypes("c1", {"serv"})
    PROVE  ChatInv'
<1> DEFINE m == <<"c1", said["c1"] + 1>>
           d == [from |-> "c1", m |-> m]
           box == inbox["serv"]
<1>1. /\ Hosts = {"serv", "c1", "c2"} /\ inbox \in [Hosts -> Seq(Mail)] /\ said \in [Hosts -> Nat]
  BY DEF Hosts, TalkShape
<1>2. /\ Others("c1") /\ said' = [said EXCEPT !["c1"] = @ + 1] /\ inbox' = D!Posted("c1", {"serv"}, m)
      /\ peer' = peer /\ got' = got /\ talk' = talk /\ faults' = faults /\ refused' = refused
  BY DEF HostTypes, Rest
<1>3. m \in Marks /\ d \in Mail /\ d.from = "c1"
  BY <1>1 DEF Marks, Mail
<1>4. inbox'["serv"] = Append(box, d) /\ inbox'["c1"] = inbox["c1"]
  <2> HIDE DEF m
  <2>1. \A r \in Hosts : inbox'[r] = IF r \in {"serv"} THEN Append(inbox[r], [from |-> "c1", m |-> m])
                                    ELSE inbox[r]
    BY <1>1, <1>2, <1>3, Post
  <2>2. QED BY <1>1, <2>1
<1> HIDE DEF m, d, box
<1>5. box \in Seq(Mail) /\ box = inbox["serv"]
  BY <1>1 DEF box
<1>6. /\ DOMAIN box = 1..Len(box) /\ Len(box) \in Nat /\ DOMAIN Append(box, d) = 1..Len(box) + 1
      /\ Len(Append(box, d)) = Len(box) + 1
      /\ \A n \in 1..Len(box) : Append(box, d)[n] = box[n]
      /\ Append(box, d)[Len(box) + 1] = d
  BY <1>3, <1>5, BoxFacts
<1>7. /\ Listens' = Listens /\ Replies' = Replies /\ Gone("serv")' = Gone("serv") /\ Gone("c2")' = Gone("c2")
  <2>1. calls'["serv"] = calls["serv"] /\ calls'["c2"] = calls["c2"]
    BY <1>1, <1>2 DEF Others
  <2>2. QED BY <1>1, <1>2, <2>1, OthersStay
<1>8. ChatShape'
  <2>1. \A n \in DOMAIN box : box[n].from = "c1"
    BY <1>5 DEF ChatInv, ChatShape
  <2>2. \A n \in DOMAIN inbox'["serv"] : inbox'["serv"][n].from = "c1"
    BY <1>3, <1>4, <1>6, <2>1
  <2>3. QED BY <1>2, <1>7, <2>2 DEF ChatInv, ChatShape
<1>9. ASSUME ~Copied' PROVE ChatTurn'
  <2>1. ClientTurn
    BY <1>2, <1>9, CalmBefore DEF ChatInv, ChatTurn
  <2>2. said'["c1"] = said["c1"] + 1 /\ said'["serv"] = said["serv"]
    BY <1>1, <1>2
  <2>3. inbox'["c1"] = <<>> /\ Len(inbox'["serv"]) <= 1 /\ ~Replies' /\ said'["c1"] = said'["serv"] + 1
    <3>1. Len(box) = 0
      BY <1>5, <2>1 DEF ClientTurn
    <3>2. QED BY <1>4, <1>6, <1>7, <2>1, <2>2, <3>1 DEF ClientTurn
  <2>4. got'["c1"] = D!Typed("serv", said'["serv"])
    BY <1>2, <2>1, <2>2 DEF ClientTurn
  <2>5. ServerTurn'
    BY <2>3, <2>4 DEF ServerTurn, D!Typed
  <2>6. ~Speaks("c1")' /\ ~Gone("c1")'
    BY <1>1, <1>2, OnePlaceNext
  <2>7. QED BY <2>5, <2>6 DEF ChatTurn
<1>10. QED BY <1>8, <1>9 DEF ChatInv

LEMMA ChatHears ==
    ASSUME TalkShape, talk = "uchat", ChatInv, Hears("c1"), Speaks("c1")', HostHears("c1")
    PROVE  ChatInv'
<1> DEFINE box == inbox["c1"]
<1>1. /\ Hosts = {"serv", "c1", "c2"} /\ inbox \in [Hosts -> Seq(Mail)] /\ said \in [Hosts -> Nat]
      /\ got \in [Hosts -> Seq(Marks)] /\ peer \in [Hosts -> Hosts \cup {"nobody"}]
  BY DEF Hosts, TalkShape
<1>2. /\ Others("c1") /\ box # <<>> /\ box \in Seq(Mail) /\ box = inbox["c1"]
      /\ got' = [got EXCEPT !["c1"] = Append(@, Head(box).m)]
      /\ peer' = [peer EXCEPT !["c1"] = Head(box).from] /\ inbox' = [inbox EXCEPT !["c1"] = Tail(box)]
      /\ said' = said /\ talk' = talk /\ faults' = faults /\ refused' = refused
  BY <1>1 DEF HostHears, Rest
<1> HIDE DEF box
<1>3. /\ DOMAIN box = 1..Len(box) /\ Len(box) \in Nat /\ Len(box) > 0
      /\ Tail(box) \in Seq(Mail) /\ Len(Tail(box)) = Len(box) - 1
      /\ 1 \in DOMAIN box /\ Head(box) = box[1]
  <2>1. box[1] \in Mail
    BY <1>2
  <2>2. QED BY <1>2, <2>1, BoxFacts
<1>4. /\ inbox'["c1"] = Tail(box) /\ inbox'["serv"] = inbox["serv"] /\ peer'["serv"] = peer["serv"]
      /\ got'["c1"] = Append(got["c1"], box[1].m)
  BY <1>1, <1>2, <1>3
<1>5. /\ Listens' = Listens /\ Replies' = Replies /\ Gone("serv")' = Gone("serv") /\ Gone("c2")' = Gone("c2")
  <2>1. calls'["serv"] = calls["serv"] /\ calls'["c2"] = calls["c2"]
    BY <1>1, <1>2 DEF Others
  <2>2. QED BY <1>1, <1>2, <2>1, OthersStay
<1>6. ChatShape'
  BY <1>2, <1>4, <1>5 DEF ChatInv, ChatShape
<1>7. ASSUME ~Copied' PROVE ChatTurn'
  <2>1. Answered
    BY <1>2, <1>7, CalmBefore DEF ChatInv, ChatTurn, ServerTurn
  <2>2. Len(box) = 1 /\ box[1].m = <<"serv", said["serv"]>>
    <3>1. Len(box) <= 1 /\ \A n \in DOMAIN box : box[n].m = <<"serv", said["serv"]>>
      BY <1>2, <2>1 DEF Answered
    <3>2. QED BY <1>3, <3>1
  <2>3. inbox'["c1"] = <<>>
    <3>1. Tail(box) \in Seq(Mail) /\ Len(Tail(box)) = 0
      BY <1>3, <2>2
    <3>2. \A s \in Seq(Mail) : Len(s) = 0 => s = <<>>
      OBVIOUS
    <3>3. QED BY <1>4, <3>1, <3>2
  <2>4. got'["c1"] = D!Typed("serv", said["serv"])
    <3>1. said["serv"] \in Nat /\ said["serv"] > 0 /\ got["c1"] = D!Typed("serv", said["serv"] - 1)
      BY <1>1, <2>1 DEF Answered
    <3>2. Append(D!Typed("serv", said["serv"] - 1), <<"serv", said["serv"]>>) = D!Typed("serv", said["serv"])
      BY <1>1, <3>1, TypedFacts
    <3>3. QED BY <1>4, <2>2, <3>1, <3>2
  <2>5. ClientTurn'
    BY <1>2, <1>4, <1>5, <2>1, <2>3, <2>4 DEF ClientTurn, Answered, D!Typed
  <2>6. ~Hears("c1")'
    BY <1>1, <1>2, OnePlaceNext
  <2>7. QED BY <2>5, <2>6 DEF ChatTurn
<1>8. QED BY <1>6, <1>7 DEF ChatInv

LEMMA ChatEnds ==
    ASSUME TalkShape, talk = "uchat", ChatInv, Speaks("c1"), HostEnds("c1")
    PROVE  ChatInv'
<1>1. Hosts = {"serv", "c1", "c2"}
  BY DEF Hosts
<1>2. /\ Others("c1") /\ Gone("c1")' /\ refused' \subseteq refused
      /\ UNCHANGED <<talk, inbox, peer, said, got, faults>>
  BY DEF HostEnds
<1>3. /\ Listens' = Listens /\ Replies' = Replies /\ Gone("serv")' = Gone("serv") /\ Gone("c2")' = Gone("c2")
  <2>1. calls'["serv"] = calls["serv"] /\ calls'["c2"] = calls["c2"]
    BY <1>1, <1>2 DEF Others
  <2>2. QED BY <1>1, <1>2, <2>1, OthersStay
<1>4. ChatShape'
  BY <1>2, <1>3 DEF ChatInv, ChatShape
<1>5. ASSUME ~Copied' PROVE ChatTurn'
  <2>1. ClientTurn
    BY <1>2, <1>5, CalmBefore DEF ChatInv, ChatTurn
  <2>2. ClientTurn'
    BY <1>2, <1>3, <2>1 DEF ClientTurn, D!Typed
  <2>3. ~Hears("c1")'
    BY <1>1, <1>2, OnePlaceNext
  <2>4. QED BY <2>2, <2>3 DEF ChatTurn
<1>6. QED BY <1>4, <1>5 DEF ChatInv

LEMMA ChatServes ==
    ASSUME TalkShape, talk = "uchat", ChatInv, Listens, Replies', HostHears("serv")
    PROVE  ChatInv'
<1> DEFINE box == inbox["serv"]
<1>1. /\ Hosts = {"serv", "c1", "c2"} /\ inbox \in [Hosts -> Seq(Mail)]
      /\ got \in [Hosts -> Seq(Marks)] /\ peer \in [Hosts -> Hosts \cup {"nobody"}]
  BY DEF Hosts, TalkShape
<1>2. /\ Others("serv") /\ box # <<>> /\ box \in Seq(Mail) /\ box = inbox["serv"]
      /\ got' = [got EXCEPT !["serv"] = Append(@, Head(box).m)]
      /\ peer' = [peer EXCEPT !["serv"] = Head(box).from] /\ inbox' = [inbox EXCEPT !["serv"] = Tail(box)]
      /\ said' = said /\ talk' = talk /\ faults' = faults /\ refused' = refused
  BY <1>1 DEF HostHears, Rest
<1> HIDE DEF box
<1>3. /\ DOMAIN box = 1..Len(box) /\ Len(box) \in Nat /\ Len(box) > 0
      /\ Tail(box) \in Seq(Mail) /\ Len(Tail(box)) = Len(box) - 1 /\ DOMAIN Tail(box) = 1..Len(box) - 1
      /\ \A n \in 1..Len(box) - 1 : n + 1 \in 1..Len(box) /\ Tail(box)[n] = box[n + 1]
      /\ 1 \in DOMAIN box /\ Head(box) = box[1]
  <2>1. box[1] \in Mail
    BY <1>2
  <2>2. QED BY <1>2, <2>1, BoxFacts
<1>4. /\ inbox'["serv"] = Tail(box) /\ inbox'["c1"] = inbox["c1"] /\ peer'["serv"] = box[1].from
      /\ got'["c1"] = got["c1"]
  BY <1>1, <1>2, <1>3
<1>5. /\ Speaks("c1")' = Speaks("c1") /\ Hears("c1")' = Hears("c1") /\ Gone("c1")' = Gone("c1")
      /\ Gone("c2")' = Gone("c2")
  <2>1. calls'["c1"] = calls["c1"] /\ calls'["c2"] = calls["c2"]
    BY <1>1, <1>2 DEF Others
  <2>2. QED BY <1>1, <1>2, <2>1, OthersStay
<1>6. \A n \in DOMAIN box : box[n].from = "c1"
  BY <1>2 DEF ChatInv, ChatShape
<1>7. ChatShape'
  <2>1. peer'["serv"] = "c1" /\ \A n \in DOMAIN inbox'["serv"] : inbox'["serv"][n].from = "c1"
    BY <1>3, <1>4, <1>6
  <2>2. QED BY <1>2, <1>5, <2>1 DEF ChatInv, ChatShape
<1>8. ASSUME ~Copied' PROVE ChatTurn'
  <2>1. ChatTurn
    BY <1>2, <1>8, CalmBefore DEF ChatInv
  <2>2. ~Speaks("c1") /\ ~Gone("c1")
    BY <1>2, <2>1 DEF ChatTurn, ClientTurn
  <2>3. Hears("c1") => ServerTurn
    BY <1>2, <2>1 DEF ChatTurn, Answered
  <2>4. ASSUME ServerTurn PROVE ServerTurn'
    <3>1. Len(box) <= 1
      BY <1>2, <2>4 DEF ServerTurn
    <3>2. inbox'["serv"] = <<>>
      <4>1. Tail(box) \in Seq(Mail) /\ Len(Tail(box)) = 0
        BY <1>3, <3>1
      <4>2. \A s \in Seq(Mail) : Len(s) = 0 => s = <<>>
        OBVIOUS
      <4>3. QED BY <1>4, <4>1, <4>2
    <3>3. QED BY <1>2, <1>4, <2>4, <3>2 DEF ServerTurn, D!Typed
  <2>5. QED BY <1>5, <2>2, <2>3, <2>4 DEF ChatTurn
<1>9. QED BY <1>7, <1>8 DEF ChatInv

LEMMA ChatAnswers ==
    ASSUME TalkShape, talk = "uchat", ChatInv, Replies, Listens', HostTypes("serv", {peer["serv"]})
    PROVE  ChatInv'
<1> DEFINE m == <<"serv", said["serv"] + 1>>
           d == [from |-> "serv", m |-> m]
           box == inbox["c1"]
<1>1. /\ Hosts = {"serv", "c1", "c2"} /\ inbox \in [Hosts -> Seq(Mail)] /\ said \in [Hosts -> Nat]
      /\ peer["serv"] = "c1"
  BY DEF Hosts, TalkShape, ChatInv, ChatShape
<1>2. /\ Others("serv") /\ said' = [said EXCEPT !["serv"] = @ + 1] /\ inbox' = D!Posted("serv", {"c1"}, m)
      /\ peer' = peer /\ got' = got /\ talk' = talk /\ faults' = faults /\ refused' = refused
  BY <1>1 DEF HostTypes, Rest
<1>3. m \in Marks /\ d \in Mail /\ d.m = m
  BY <1>1 DEF Marks, Mail
<1>4. inbox'["c1"] = Append(box, d) /\ inbox'["serv"] = inbox["serv"]
  <2> HIDE DEF m
  <2>1. \A r \in Hosts : inbox'[r] = IF r \in {"c1"} THEN Append(inbox[r], [from |-> "serv", m |-> m])
                                    ELSE inbox[r]
    BY <1>1, <1>2, <1>3, Post
  <2>2. QED BY <1>1, <2>1
<1>5. m = <<"serv", said["serv"] + 1>>
  OBVIOUS
<1> HIDE DEF m, d, box
<1>6. box \in Seq(Mail) /\ box = inbox["c1"]
  BY <1>1 DEF box
<1>7. /\ DOMAIN box = 1..Len(box) /\ Len(box) \in Nat /\ DOMAIN Append(box, d) = 1..Len(box) + 1
      /\ Len(Append(box, d)) = Len(box) + 1
      /\ Append(box, d)[Len(box) + 1] = d
  BY <1>3, <1>6, BoxFacts
<1>8. /\ Speaks("c1")' = Speaks("c1") /\ Hears("c1")' = Hears("c1") /\ Gone("c1")' = Gone("c1")
      /\ Gone("c2")' = Gone("c2")
  <2>1. calls'["c1"] = calls["c1"] /\ calls'["c2"] = calls["c2"]
    BY <1>1, <1>2 DEF Others
  <2>2. QED BY <1>1, <1>2, <2>1, OthersStay
<1>9. ~Replies'
  <2>1. Listens' /\ Awaits' = Awaits /\ Reply' = Reply
    BY <1>2 DEF Awaits, Reply
  <2>2. calls'["serv"] = <<Awaits, Reply>>
    BY <2>1 DEF Listens
  <2>3. <<Awaits, Reply>> # <<Reply>>
    OBVIOUS
  <2>4. QED BY <2>1, <2>2, <2>3 DEF Replies
<1>10. ChatShape'
  BY <1>2, <1>4, <1>8, <1>9 DEF ChatInv, ChatShape
<1>11. ASSUME ~Copied' PROVE ChatTurn'
  <2>1. ChatTurn
    BY <1>2, <1>11, CalmBefore DEF ChatInv
  <2>2. ~Speaks("c1") /\ ~Gone("c1")
    BY <2>1 DEF ChatTurn, ClientTurn
  <2>3. Hears("c1") => ServerTurn
    BY <2>1 DEF ChatTurn, Answered
  <2>4. ASSUME ServerTurn PROVE Answered'
    <3>1. Len(box) = 0 /\ inbox["serv"] = <<>>
      BY <1>6, <2>4 DEF ServerTurn
    <3>2. said'["serv"] = said["serv"] + 1 /\ said'["c1"] = said["c1"] /\ said["serv"] \in Nat
      BY <1>1, <1>2
    <3>3. /\ inbox'["serv"] = <<>> /\ Len(inbox'["c1"]) <= 1
          /\ DOMAIN inbox'["c1"] = {1} /\ inbox'["c1"][1].m = <<"serv", said'["serv"]>>
      BY <1>3, <1>4, <1>5, <1>7, <3>1, <3>2
    <3>4. /\ said'["c1"] = said'["serv"] /\ said'["serv"] > 0 /\ said'["serv"] - 1 = said["serv"]
      BY <2>4, <3>2 DEF ServerTurn
    <3>5. got'["c1"] = D!Typed("serv", said'["serv"] - 1)
      BY <1>2, <2>4, <3>4 DEF ServerTurn
    <3>6. QED BY <1>9, <3>3, <3>4, <3>5 DEF Answered, D!Typed
  <2>5. QED BY <1>8, <2>2, <2>3, <2>4 DEF ChatTurn
<1>12. QED BY <1>10, <1>11 DEF ChatInv

LEMMA ChatNetwork ==
    ASSUME TalkShape, talk = "uchat", ChatInv, NEW h \in Hosts, NEW t \in Seq(Mail), Network(h, t)
    PROVE  ChatInv'
<1> DEFINE box == inbox[h]
<1>1. Hosts = {"serv", "c1", "c2"} /\ inbox \in [Hosts -> Seq(Mail)]
  BY DEF Hosts, TalkShape
<1>2. /\ inbox' = [inbox EXCEPT ![h] = t] /\ Among(t, box) /\ (~Copied' => ~Copied /\ Keeps(t, box))
      /\ talk' = talk /\ calls' = calls /\ peer' = peer /\ said' = said /\ got' = got
      /\ (refused = {} /\ ~D!Talks[talk].win => refused' = {})
  BY DEF Network
<1>3. /\ inbox'[h] = t /\ \A o \in Hosts : o # h => inbox'[o] = inbox[o]
      /\ box \in Seq(Mail) /\ box = inbox[h]
  BY <1>1, <1>2
<1> HIDE DEF box
<1>4. /\ \A o \in Hosts : Speaks(o)' = Speaks(o) /\ Hears(o)' = Hears(o) /\ Gone(o)' = Gone(o)
      /\ Listens' = Listens /\ Replies' = Replies
  BY <1>1, <1>2, OthersStay
<1>5. refused' = {}
  BY <1>2, TurnFacts DEF ChatInv, ChatShape
<1>6. \A n \in DOMAIN inbox'["serv"] : inbox'["serv"][n].from = "c1"
  <2>1. \A n \in DOMAIN inbox["serv"] : inbox["serv"][n].from = "c1"
    BY DEF ChatInv, ChatShape
  <2>2. CASE h = "serv"
    BY <1>2, <1>3, <2>1, <2>2 DEF Among
  <2>3. CASE h # "serv"
    BY <1>1, <1>3, <2>1, <2>3
  <2>4. QED BY <2>2, <2>3
<1>7. ChatShape'
  BY <1>1, <1>2, <1>4, <1>5, <1>6 DEF ChatInv, ChatShape
<1>8. ASSUME ~Copied' PROVE ChatTurn'
  <2>1. ChatTurn /\ Keeps(t, box)
    BY <1>2, <1>8 DEF ChatInv
  <2>2. (Len(box) <= 1 => Len(t) <= 1) /\ (box = <<>> => t = <<>>)
    BY <1>3, <2>1, KeptFew
  <2>3. \A o \in Hosts : /\ Len(inbox[o]) <= 1 => Len(inbox'[o]) <= 1
                         /\ inbox[o] = <<>> => inbox'[o] = <<>>
    BY <1>3, <2>2
  <2>4. ClientTurn => ClientTurn'
    BY <1>1, <1>2, <1>4, <2>3 DEF ClientTurn, D!Typed
  <2>5. ServerTurn => ServerTurn'
    BY <1>1, <1>2, <1>4, <2>3 DEF ServerTurn, D!Typed
  <2>6. ASSUME Answered PROVE Answered'
    <3>1. \A n \in DOMAIN inbox'["c1"] : inbox'["c1"][n].m = <<"serv", said["serv"]>>
      <4>1. \A n \in DOMAIN inbox["c1"] : inbox["c1"][n].m = <<"serv", said["serv"]>>
        BY <2>6 DEF Answered
      <4>2. CASE h = "c1"
        BY <1>2, <1>3, <4>1, <4>2 DEF Among
      <4>3. CASE h # "c1"
        BY <1>1, <1>3, <4>1, <4>3
      <4>4. QED BY <4>2, <4>3
    <3>2. QED BY <1>1, <1>2, <1>4, <2>3, <2>6, <3>1 DEF Answered, D!Typed
  <2>7. QED BY <1>1, <1>4, <2>1, <2>4, <2>5, <2>6 DEF ChatTurn
<1>9. QED BY <1>7, <1>8 DEF ChatInv

LEMMA ChatKept ==
    ASSUME TalkShape, talk = "uchat", ChatInv, D!Next
    PROVE  TalkShape' /\ ChatInv' /\ talk' = talk
<1>1. /\ Places /\ Hosts = {"serv", "c1", "c2"} /\ refused = {} /\ Gone("c2")
  BY DEF Places, ChatInv, ChatShape, Hosts
<1>2. ASSUME NEW c \in {"c1", "c2"}, ClientStep(c) PROVE TalkShape' /\ ChatInv' /\ talk' = talk
  <2>1. c = "c1"
    BY <1>1, <1>2, OnePlace DEF ClientStep
  <2>2. CASE Speaks(c) /\ Hears(c)' /\ HostTypes(c, {"serv"})
    <3>1. HostStep("c1") /\ talk' = talk
      BY <2>1, <2>2 DEF HostStep, HostTypes, Rest
    <3>2. QED BY <1>1, <2>1, <2>2, <3>1, ShapeKept, ChatSays
  <2>3. CASE Hears(c) /\ Speaks(c)' /\ HostHears(c)
    <3>1. HostStep("c1") /\ talk' = talk
      BY <2>1, <2>3 DEF HostStep, HostHears, Rest
    <3>2. QED BY <1>1, <2>1, <2>3, <3>1, ShapeKept, ChatHears
  <2>4. CASE Speaks(c) /\ HostEnds(c)
    <3>1. HostStep("c1") /\ talk' = talk
      BY <2>1, <2>4 DEF HostStep, HostEnds
    <3>2. QED BY <1>1, <2>1, <2>4, <3>1, ShapeKept, ChatEnds
  <2>5. QED BY <1>1, <1>2, <2>2, <2>3, <2>4 DEF ClientStep
<1>3. ASSUME ServerStep PROVE TalkShape' /\ ChatInv' /\ talk' = talk
  <2>1. CASE Listens /\ Replies' /\ HostHears("serv")
    <3>1. HostStep("serv") /\ talk' = talk
      BY <2>1 DEF HostStep, HostHears, Rest
    <3>2. QED BY <1>1, <2>1, <3>1, ShapeKept, ChatServes
  <2>2. CASE Replies /\ Listens' /\ HostTypes("serv", {peer["serv"]})
    <3>1. HostStep("serv") /\ talk' = talk
      BY <2>2 DEF HostStep, HostTypes, Rest
    <3>2. QED BY <1>1, <2>2, <3>1, ShapeKept, ChatAnswers
  <2>3. QED BY <1>1, <1>3, <2>1, <2>2 DEF ServerStep
<1>4. ASSUME NEW h \in Hosts, NEW t \in Seq(Mail), Network(h, t) PROVE TalkShape' /\ ChatInv' /\ talk' = talk
  <2>1. HostStep(h) /\ talk' = talk
    BY <1>4 DEF HostStep, Network
  <2>2. QED BY <1>4, <2>1, ShapeKept, ChatNetwork
<1>5. QED BY <1>1, <1>2, <1>3, <1>4, TurnSteps

-----------------------------------------------------------------------------
(* Three messages, and the news.                                           *)

News == {"bound", "news", "brd", "newsw"}

\* A loop of one call.
LEMMA CallOnce ==
    ASSUME NEW a, NEW n \in Nat
    PROVE  /\ Left(0, <<a>>) = <<D!Close>>
           /\ Left(n + 1, <<a>>) # <<>> /\ Head(Left(n + 1, <<a>>)) = a
           /\ Tail(Left(n + 1, <<a>>)) = Left(n, <<a>>)
<1> DEFINE C == {a, D!Close}
<1>1. <<a>> \in Seq(C) /\ D!Close \in C /\ a \in C
  OBVIOUS
<1> HIDE DEF C
<1>2. /\ Left(0, <<a>>) = <<D!Close>> /\ Left(n, <<a>>) \in Seq(C)
      /\ Left(n + 1, <<a>>) = <<a>> \o Left(n, <<a>>)
  BY <1>1, LeftOnce
<1>3. \A s \in Seq(C) : <<a>> \o s # <<>> /\ Head(<<a>> \o s) = a /\ Tail(<<a>> \o s) = s
  BY <1>1
<1>4. QED BY <1>2, <1>3

\* The next call of a host that has n turns of one call to make.
LEMMA AtCall ==
    ASSUME NEW h \in Hosts, NEW a, NEW n \in Nat, calls[h] = Left(n, <<a>>)
    PROVE  /\ n = 0 => D!Now(h) = D!Close
           /\ n > 0 => D!Now(h) = a /\ Tail(calls[h]) = Left(n - 1, <<a>>)
<1>1. CASE n = 0
  <2>1. calls[h] = <<D!Close>>
    BY <1>1, CallOnce
  <2>2. <<D!Close>> # <<>> /\ Head(<<D!Close>>) = D!Close
    OBVIOUS
  <2>3. QED BY <1>1, <2>1, <2>2 DEF D!Now
<1>2. CASE n > 0
  <2>1. n - 1 \in Nat /\ (n - 1) + 1 = n
    BY <1>2
  <2>2. calls[h] # <<>> /\ Head(calls[h]) = a /\ Tail(calls[h]) = Left(n - 1, <<a>>)
    <3>1. \A k \in Nat : /\ Left(k + 1, <<a>>) # <<>> /\ Head(Left(k + 1, <<a>>)) = a
                         /\ Tail(Left(k + 1, <<a>>)) = Left(k, <<a>>)
      BY CallOnce
    <3>2. /\ Left((n - 1) + 1, <<a>>) # <<>> /\ Head(Left((n - 1) + 1, <<a>>)) = a
          /\ Tail(Left((n - 1) + 1, <<a>>)) = Left(n - 1, <<a>>)
      BY <2>1, <3>1
    <3>3. QED BY <2>1, <3>2
  <2>3. QED BY <1>2, <2>2 DEF D!Now
<1>3. QED BY <1>1, <1>2

NewsHears(c) ==
    /\ HostHears(c)
    /\ talk = "bound" => \E n \in 1..3 : /\ Len(got[c]) + n = 3
                                         /\ calls'[c] = Left(n - 1, <<D!Recv(FALSE)>>)
    /\ talk # "bound" => calls'[c] = <<D!Recv(TRUE)>>

LEMMA SpeakerFacts ==
    ASSUME talk \in News
    PROVE  /\ Hosts = {"serv", "c1", "c2"} /\ D!Group = {"c1", "c2"}
           /\ Speaker \in Hosts /\ Hearers \subseteq Hosts /\ Speaker \notin Hearers
           /\ talk = "bound" => Speaker = "c1" /\ Hearers = {"c2"}
           /\ talk # "bound" => Speaker = "serv" /\ Hearers = {"c1", "c2"}
           /\ Speaker \notin D!Talks[talk].loop
<1>1. Hosts = {"serv", "c1", "c2"} /\ D!Group = {"c1", "c2"}
  BY SameHosts DEF Hosts
<1>2. QED BY <1>1, NewsFacts DEF Speaker, Hearers, News

LEMMA NewsSteps ==
    ASSUME TalkShape, talk \in News, NewsCalls, D!Next
    PROVE  \/ Calling' /\ HostTypes(Speaker, Hearers)
           \/ \E c \in Hearers : NewsHears(c)
           \/ \E h \in Hosts : HostEnds(h)
           \/ \E h \in Hosts, t \in Seq(Mail) : Network(h, t)
<1>1. PICK h \in Hosts :
         \/ D!Says(h) \/ D!Answers(h) \/ D!Echoes(h) \/ D!Recvs(h) \/ D!RecvFails(h) \/ D!Closes(h)
            \/ D!Interrupt(h)
         \/ D!Bounces(h) \/ D!Loses(h) \/ D!Copies(h) \/ D!Overtakes(h)
  BY SameHosts DEF D!Next, D!Progress
<1>2. /\ DOMAIN calls = Hosts /\ open \subseteq Hosts /\ got \in [Hosts -> Seq(Marks)]
  BY DEF TalkShape
<1>3. CASE D!Bounces(h) \/ D!Loses(h) \/ D!Copies(h) \/ D!Overtakes(h)
  BY <1>3, NetworkSteps
<1>4. CASE D!RecvFails(h) \/ D!Closes(h)
  <2>1. D!Ended(h) /\ UNCHANGED <<talk, inbox, peer, said, got, faults>> /\ refused' \subseteq refused
    BY <1>4 DEF D!RecvFails, D!Closes, D!history
  <2>2. HostEnds(h)
    BY <1>2, <2>1, CallsEnd DEF HostEnds
  <2>3. QED BY <2>2
<1>5. CASE D!Interrupt(h)
  BY <1>5 DEF D!Interrupt, News
<1>6. ASSUME NEW name, D!Does(h, name), name # "end"
      PROVE  /\ name \in {"say", "recv", "close"}
             /\ name = "say" => h = Speaker /\ \E n \in Nat : /\ D!Now(h) = D!Say(Hearers)
                                                              /\ calls'[h] = Left(n, <<D!Say(Hearers)>>)
             /\ name = "recv" =>
                   /\ h \in Hearers
                   /\ talk = "bound" => \E n \in 1..3 : /\ Len(got[h]) + n = 3
                                                        /\ calls'[h] = Left(n - 1, <<D!Recv(FALSE)>>)
                   /\ talk # "bound" => calls'[h] = <<D!Recv(TRUE)>>
  <2>1. /\ D!Now(h).op = name /\ Others(h)
        /\ calls'[h] = IF Len(calls[h]) = 1 /\ h \in D!Talks[talk].loop
                       THEN D!Talks[talk][h] ELSE Tail(calls[h])
    BY <1>2, <1>6, CallMade
  <2>2. ~Gone(h)
    BY <1>6, <2>1, AtEnd
  <2>3. CASE h = Speaker
    <3>1. PICK n \in Nat : calls[h] = Left(n, <<D!Say(Hearers)>>)
      BY <2>2, <2>3 DEF NewsCalls, Calling
    <3>2. calls'[h] = Tail(calls[h])
      BY <2>1, <2>3, SpeakerFacts
    <3>3. CASE n = 0
      <4>1. name = "close"
        BY <2>1, <3>1, <3>3, AtCall, CallNames
      <4>2. QED BY <4>1
    <3>4. CASE n > 0
      <4>1. D!Now(h) = D!Say(Hearers) /\ Tail(calls[h]) = Left(n - 1, <<D!Say(Hearers)>>)
        BY <3>1, <3>4, AtCall
      <4>2. name = "say" /\ n - 1 \in Nat
        BY <2>1, <3>4, <4>1, CallNames
      <4>3. QED BY <2>3, <3>2, <4>1, <4>2
    <3>5. n = 0 \/ n > 0
      BY <3>1
    <3>6. QED BY <3>3, <3>4, <3>5, Zenon
  <2>4. CASE h # Speaker
    <3>1. h \in Hearers
      BY <2>2, <2>4 DEF NewsCalls
    <3>2. CASE talk = "bound"
      <4>1. h = "c2" /\ D!Talks[talk].loop = {}
        BY <3>1, <3>2, SpeakerFacts, NewsFacts
      <4>2. PICK n \in 0..3 : Len(got[h]) + n = 3 /\ calls[h] = Left(n, <<D!Recv(FALSE)>>)
        BY <2>2, <3>2, <4>1 DEF NewsCalls
      <4>3. calls'[h] = Tail(calls[h])
        BY <2>1, <4>1
      <4>4. CASE n = 0
        <5>1. name = "close"
          BY <2>1, <4>2, <4>4, AtCall, CallNames
        <5>2. QED BY <5>1
      <4>5. CASE n > 0
        <5>1. n \in 1..3 /\ n \in Nat
          BY <4>5
        <5>2. D!Now(h) = D!Recv(FALSE) /\ Tail(calls[h]) = Left(n - 1, <<D!Recv(FALSE)>>)
          BY <4>2, <4>5, <5>1, AtCall
        <5>3. name = "recv"
          BY <2>1, <5>2, CallNames
        <5>4. QED BY <3>1, <3>2, <4>2, <4>3, <5>1, <5>2, <5>3
      <4>6. n = 0 \/ n > 0
        BY <4>2
      <4>7. QED BY <4>4, <4>5, <4>6, Zenon
    <3>3. CASE talk # "bound"
      <4>1. h \in D!Group /\ D!Talks[talk][h] = <<D!Recv(TRUE)>> /\ h \in D!Talks[talk].loop
        BY <3>1, <3>3, SpeakerFacts, NewsFacts DEF News
      <4>2. calls[h] = <<D!Recv(TRUE)>>
        BY <2>2, <3>3, <4>1 DEF NewsCalls
      <4>3. Len(calls[h]) = 1 /\ D!Now(h) = D!Recv(TRUE)
        BY <4>2 DEF D!Now
      <4>4. calls'[h] = <<D!Recv(TRUE)>> /\ name = "recv"
        BY <2>1, <4>1, <4>3, CallNames
      <4>5. QED BY <3>1, <3>3, <4>4
    <3>4. QED BY <3>2, <3>3
  <2>5. QED BY <2>3, <2>4
<1>7. CASE D!Answers(h) \/ D!Echoes(h)
  <2>1. D!Does(h, "answer") \/ D!Does(h, "echo")
    BY <1>7 DEF D!Answers, D!Echoes
  <2>2. ~D!Does(h, "answer")
    <3>1. "answer" # "end" /\ "answer" \notin {"say", "recv", "close"}
      OBVIOUS
    <3>2. QED BY <1>6, <3>1
  <2>3. ~D!Does(h, "echo")
    <3>1. "echo" # "end" /\ "echo" \notin {"say", "recv", "close"}
      OBVIOUS
    <3>2. QED BY <1>6, <3>1
  <2>4. QED BY <2>1, <2>2, <2>3
<1>8. CASE D!Says(h)
  <2>1. D!Does(h, "say") /\ D!Types(h, D!Now(h).to)
    BY <1>8 DEF D!Says
  <2>2. h = Speaker /\ D!Now(h).to = Hearers /\ Others(h)
    <3>1. Others(h)
      BY <1>2, <2>1, CallMade, Zenon
    <3>2. "say" # "end"
      OBVIOUS
    <3>3. h = Speaker /\ \E n \in Nat : D!Now(h) = D!Say(Hearers)
      BY <1>6, <2>1, <3>2, Zenon
    <3>4. D!Now(h).to = Hearers
      BY <3>3, CallNames, Zenon
    <3>5. QED BY <3>1, <3>3, <3>4
  <2>3. PICK n \in Nat : calls'[h] = Left(n, <<D!Say(Hearers)>>)
    BY <1>6, <2>1
  <2>4. HostTypes(Speaker, Hearers) /\ talk' = talk
    BY <2>1, <2>2 DEF D!Types, HostTypes, D!history, Rest
  <2>5. Calling'
    BY <2>2, <2>3, <2>4 DEF Calling, Speaker, Hearers, D!Group
  <2>6. QED BY <2>4, <2>5
<1>9. CASE D!Recvs(h)
  <2>1. D!Does(h, "recv")
    BY <1>9 DEF D!Recvs
  <2>2. h \in Hearers /\ Others(h)
    BY <1>2, <1>6, <2>1, CallMade
  <2>3. HostHears(h)
    BY <1>9, <2>2 DEF D!Recvs, HostHears, D!history, Rest
  <2>4. NewsHears(h)
    BY <1>6, <2>1, <2>3 DEF NewsHears
  <2>5. QED BY <2>2, <2>4
<1>10. QED BY <1>1, <1>3, <1>4, <1>5, <1>7, <1>8, <1>9

\* The calls of a host that does nothing are those it had.
LEMMA QuietHosts ==
    ASSUME talk \in News, talk' = talk, NEW h \in Hosts, Others(h)
    PROVE  /\ Speaker' = Speaker /\ Hearers' = Hearers
           /\ \A o \in Hosts : o # h => calls'[o] = calls[o] /\ Gone(o)' = Gone(o)
           /\ h # Speaker => Calling' = Calling
<1>1. Speaker' = Speaker /\ Hearers' = Hearers
  BY DEF Speaker, Hearers, D!Group
<1>2. \A o \in Hosts : o # h => calls'[o] = calls[o] /\ Gone(o)' = Gone(o)
  BY DEF Others, Gone
<1>3. h # Speaker => Calling' = Calling
  BY <1>1, <1>2, SpeakerFacts DEF Calling
<1>4. QED BY <1>1, <1>2, <1>3

\* Something is said.
LEMMA NewsSays ==
    ASSUME TalkShape, talk \in News, NewsInv, Calling', HostTypes(Speaker, Hearers)
    PROVE  NewsInv'
<1> DEFINE v == Speaker
           m == <<v, said[v] + 1>>
           d == [from |-> v, m |-> m]
<1>1. /\ v \in Hosts /\ Hearers \subseteq Hosts /\ v \notin Hearers /\ Hosts = {"serv", "c1", "c2"}
      /\ inbox \in [Hosts -> Seq(Mail)] /\ said \in [Hosts -> Nat] /\ got \in [Hosts -> Seq(Marks)]
      /\ D!Group = {"c1", "c2"} /\ v = Speaker
      /\ talk = "bound" => v = "c1" /\ Hearers = {"c2"}
      /\ talk # "bound" => v = "serv" /\ Hearers = {"c1", "c2"}
  BY SpeakerFacts DEF TalkShape
<1>2. /\ Others(v) /\ said' = [said EXCEPT ![v] = @ + 1] /\ inbox' = D!Posted(v, Hearers, m)
      /\ got' = got /\ talk' = talk /\ faults' = faults
  BY DEF HostTypes, Rest
<1>3. m \in Marks /\ d \in Mail /\ d.m[2] = said[v] + 1
  BY <1>1 DEF Marks, Mail
<1>4. \A c \in Hosts : inbox'[c] = IF c \in Hearers THEN Append(inbox[c], d) ELSE inbox[c]
  <2> HIDE DEF m, v
  <2>1. inbox' = D!Posted(v, Hearers, m)
    BY <1>2
  <2>2. \A r \in Hosts : inbox'[r] = IF r \in Hearers THEN Append(inbox[r], [from |-> v, m |-> m])
                                    ELSE inbox[r]
    BY <1>1, <1>3, <2>1, Post
  <2>3. QED BY <2>2
<1> HIDE DEF v, m, d
<1>5. /\ Speaker' = v /\ Hearers' = Hearers
      /\ \A o \in Hosts : o # v => calls'[o] = calls[o] /\ Gone(o)' = Gone(o)
  BY <1>1, <1>2, QuietHosts
<1>6. said'[v] = said[v] + 1 /\ said[v] \in Nat
  BY <1>1, <1>2
<1>7. NewsCalls'
  <2>1. /\ \A c \in Hosts \ (Hearers \cup {v}) : Gone(c)' /\ got'[v] = <<>>
        /\ Calling'
    BY <1>1, <1>2, <1>5 DEF NewsInv, NewsCalls
  <2>2. ASSUME talk = "bound"
        PROVE  /\ \E n \in 0..3 : /\ Len(got'["c2"]) + n = 3
                                  /\ Gone("c2")' \/ calls'["c2"] = Left(n, <<D!Recv(FALSE)>>)
               /\ got'["serv"] = <<>> /\ inbox'["c1"] = <<>>
    BY <1>1, <1>2, <1>4, <1>5, <2>2 DEF NewsInv, NewsCalls
  <2>3. ASSUME talk # "bound" PROVE \A c \in D!Group : Gone(c)' \/ calls'[c] = <<D!Recv(TRUE)>>
    BY <1>1, <1>5, <2>3 DEF NewsInv, NewsCalls
  <2>4. /\ \A c \in Hosts \ (Hearers' \cup {Speaker'}) : Gone(c)'
        /\ got'[Speaker'] = <<>>
    BY <1>1, <1>2, <1>5, <2>1 DEF NewsInv, NewsCalls
  <2>5. QED BY <1>2, <2>1, <2>2, <2>3, <2>4 DEF NewsCalls, Left, D!Recv, D!Close, D!Op, D!Group
<1>8. ASSUME ~Copied', ~Moved', NEW c \in Hearers PROVE Ordered(c)'
  <2> DEFINE box == inbox[c]
  <2>1. Ordered(c) /\ c \in Hosts
    BY <1>1, <1>2, <1>8, CalmBefore DEF NewsInv
  <2>2. box \in Seq(Mail) /\ inbox'[c] = Append(box, d) /\ box = inbox[c]
    BY <1>1, <1>4, <2>1
  <2> HIDE DEF box
  <2>3. /\ DOMAIN box = 1..Len(box) /\ Len(box) \in Nat /\ DOMAIN Append(box, d) = 1..Len(box) + 1
        /\ \A n \in 1..Len(box) : Append(box, d)[n] = box[n]
        /\ Append(box, d)[Len(box) + 1] = d
    BY <1>3, <2>2, BoxFacts
  <2>4. /\ \A n, l \in DOMAIN box : n < l => box[n].m[2] < box[l].m[2]
        /\ \A n \in DOMAIN got[c], l \in DOMAIN box : got[c][n][2] < box[l].m[2]
        /\ \A n \in DOMAIN got[c] : got[c][n][2] <= said[v]
        /\ \A n \in DOMAIN box : box[n].m[2] <= said[v]
    BY <1>1, <2>1, <2>2 DEF Ordered
  <2>5. /\ \A n \in DOMAIN box : box[n].m[2] \in Nat
        /\ \A n \in DOMAIN got[c] : got[c][n][2] \in Nat
    <3>1. \A k \in Marks : k[2] \in Nat
      BY DEF Marks
    <3>2. \A n \in DOMAIN box : box[n] \in Mail
      BY <2>2
    <3>3. \A n \in DOMAIN box : box[n].m \in Marks
      BY <3>2 DEF Mail
    <3>4. \A n \in DOMAIN got[c] : got[c][n] \in Marks
      BY <1>1, <2>1
    <3>5. QED BY <3>1, <3>3, <3>4
  <2>6. d.m[2] = said'[v] /\ \A k \in Nat : k <= said[v] => k < said'[v]
    BY <1>3, <1>6
  <2>7. \A n, l \in DOMAIN inbox'[c] : n < l => inbox'[c][n].m[2] < inbox'[c][l].m[2]
    <3>1. TAKE n, l \in DOMAIN inbox'[c]
    <3>2. HAVE n < l
    <3>3. n \in 1..Len(box) + 1 /\ l \in 1..Len(box) + 1 /\ n \in 1..Len(box)
      BY <2>2, <2>3, <3>2
    <3>4. CASE l = Len(box) + 1
      BY <2>2, <2>3, <2>4, <2>5, <2>6, <3>3, <3>4
    <3>5. CASE l # Len(box) + 1
      <4>1. l \in 1..Len(box)
        BY <2>3, <3>3, <3>5
      <4>2. QED BY <2>2, <2>3, <2>4, <3>2, <3>3, <4>1
    <3>6. QED BY <3>4, <3>5
  <2>8. ASSUME NEW l \in DOMAIN inbox'[c]
        PROVE  /\ inbox'[c][l].m[2] <= said'[v]
               /\ \A n \in DOMAIN got[c] : got[c][n][2] < inbox'[c][l].m[2]
    <3>1. l \in 1..Len(box) + 1
      BY <2>2, <2>3
    <3>2. CASE l = Len(box) + 1
      <4>1. inbox'[c][l].m[2] = said'[v]
        BY <2>2, <2>3, <2>6, <3>2
      <4>2. QED BY <1>6, <2>4, <2>5, <2>6, <4>1
    <3>3. CASE l # Len(box) + 1
      <4>1. l \in 1..Len(box)
        BY <2>3, <3>1, <3>3
      <4>2. inbox'[c][l] = box[l] /\ box[l].m[2] \in Nat
        BY <2>2, <2>3, <2>5, <4>1
      <4>3. QED BY <1>6, <2>3, <2>4, <4>1, <4>2
    <3>4. QED BY <3>2, <3>3
  <2>9. \A n \in DOMAIN got'[c] : got'[c][n][2] <= said'[v]
    BY <1>2, <1>6, <2>4, <2>5
  <2>10. D!Increasing(got[c])' /\ got'[c] = got[c]
    BY <1>2, <2>1 DEF Ordered, D!Increasing
  <2>11. QED BY <1>5, <2>7, <2>8, <2>9, <2>10 DEF Ordered
<1>9. QED BY <1>5, <1>7, <1>8 DEF NewsInv

\* A datagram is heard.
LEMMA NewsHeard ==
    ASSUME TalkShape, talk \in News, NewsInv, NEW c \in Hearers, NewsHears(c)
    PROVE  NewsInv'
<1> DEFINE v == Speaker
           box == inbox[c]
           d == box[1]
<1>1. /\ v \in Hosts /\ Hearers \subseteq Hosts /\ v \notin Hearers /\ Hosts = {"serv", "c1", "c2"}
      /\ inbox \in [Hosts -> Seq(Mail)] /\ said \in [Hosts -> Nat] /\ got \in [Hosts -> Seq(Marks)]
      /\ peer \in [Hosts -> Hosts \cup {"nobody"}] /\ D!Group = {"c1", "c2"}
      /\ c \in Hosts /\ c # v /\ v = Speaker
      /\ talk = "bound" => v = "c1" /\ Hearers = {"c2"} /\ c = "c2"
      /\ talk # "bound" => v = "serv" /\ Hearers = {"c1", "c2"}
  BY SpeakerFacts DEF TalkShape
<1>2. /\ Others(c) /\ box # <<>> /\ box \in Seq(Mail) /\ box = inbox[c] /\ d = box[1]
      /\ got' = [got EXCEPT ![c] = Append(@, Head(box).m)] /\ inbox' = [inbox EXCEPT ![c] = Tail(box)]
      /\ said' = said /\ talk' = talk /\ faults' = faults
  BY <1>1 DEF NewsHears, HostHears, Rest
<1> HIDE DEF v, box, d
<1>3. /\ DOMAIN box = 1..Len(box) /\ Len(box) \in Nat /\ Len(box) > 0
      /\ DOMAIN Tail(box) = 1..Len(box) - 1
      /\ \A n \in 1..Len(box) - 1 : n + 1 \in 1..Len(box) /\ Tail(box)[n] = box[n + 1]
      /\ 1 \in DOMAIN box /\ Head(box) = d /\ d \in Mail
  <2>1. d \in Mail
    BY <1>2
  <2>2. QED BY <1>2, <2>1, BoxFacts
<1>4. /\ inbox'[c] = Tail(box) /\ got'[c] = Append(got[c], d.m)
      /\ \A h \in Hosts : h # c => inbox'[h] = inbox[h] /\ got'[h] = got[h]
  BY <1>1, <1>2, <1>3
<1>5. /\ Speaker' = v /\ Hearers' = Hearers /\ Calling' = Calling
      /\ \A o \in Hosts : o # c => calls'[o] = calls[o] /\ Gone(o)' = Gone(o)
  BY <1>1, <1>2, QuietHosts
<1>6. d.m \in Marks /\ got[c] \in Seq(Marks)
  BY <1>1, <1>3 DEF Mail
<1>7. /\ DOMAIN got[c] = 1..Len(got[c]) /\ Len(got[c]) \in Nat
      /\ DOMAIN got'[c] = 1..Len(got[c]) + 1 /\ Len(got'[c]) = Len(got[c]) + 1
      /\ \A n \in 1..Len(got[c]) : got'[c][n] = got[c][n]
      /\ got'[c][Len(got[c]) + 1] = d.m
  BY <1>4, <1>6
<1>8. NewsCalls'
  <2>1. /\ Calling' \/ calls'[v] = <<>>
        /\ got'[v] = <<>>
        /\ \A o \in Hosts \ (Hearers \cup {v}) : Gone(o)'
    <3>1. /\ Calling \/ calls[v] = <<>>
          /\ got[v] = <<>>
          /\ \A o \in Hosts \ (Hearers \cup {v}) : Gone(o)
      BY <1>1 DEF NewsInv, NewsCalls, Gone
    <3>2. QED BY <1>1, <1>4, <1>5, <3>1
  <2>2. ASSUME talk = "bound"
        PROVE  /\ \E n \in 0..3 : /\ Len(got'["c2"]) + n = 3
                                  /\ Gone("c2")' \/ calls'["c2"] = Left(n, <<D!Recv(FALSE)>>)
               /\ got'["serv"] = <<>> /\ inbox'["c1"] = <<>>
    <3>1. PICK n \in 1..3 : Len(got[c]) + n = 3 /\ calls'[c] = Left(n - 1, <<D!Recv(FALSE)>>)
      BY <2>2 DEF NewsHears
    <3>2. n - 1 \in 0..3 /\ Len(got'[c]) + (n - 1) = 3
      BY <1>7, <3>1
    <3>3. got["serv"] = <<>> /\ inbox["c1"] = <<>>
      BY <2>2 DEF NewsInv, NewsCalls
    <3>4. QED BY <1>1, <1>4, <2>2, <3>1, <3>2, <3>3
  <2>3. ASSUME talk # "bound", NEW o \in D!Group PROVE Gone(o)' \/ calls'[o] = <<D!Recv(TRUE)>>
    <3>1. CASE o = c
      BY <2>3, <3>1 DEF NewsHears
    <3>2. CASE o # c
      BY <1>1, <1>5, <2>3, <3>2 DEF NewsInv, NewsCalls
    <3>3. QED BY <3>1, <3>2
  <2>4. /\ Calling' \/ calls'[Speaker'] = <<>>
        /\ got'[Speaker'] = <<>>
        /\ \A o \in Hosts \ (Hearers' \cup {Speaker'}) : Gone(o)'
    BY <1>5, <2>1
  <2>5. QED BY <1>2, <2>2, <2>3, <2>4 DEF NewsCalls, Left, D!Recv, D!Close, D!Op, D!Group, Gone
<1>9. ASSUME ~Copied', ~Moved', NEW o \in Hearers PROVE Ordered(o)'
  <2>1. Ordered(o) /\ o \in Hosts
    BY <1>1, <1>2, <1>9, CalmBefore DEF NewsInv
  <2>2. CASE o # c
    BY <1>2, <1>4, <1>5, <2>1, <2>2, <1>1 DEF Ordered, D!Increasing
  <2>3. CASE o = c
    <3>1. /\ \A n, l \in DOMAIN got[c] : n < l => got[c][n][2] < got[c][l][2]
          /\ \A n, l \in DOMAIN box : n < l => box[n].m[2] < box[l].m[2]
          /\ \A n \in DOMAIN got[c], l \in DOMAIN box : got[c][n][2] < box[l].m[2]
          /\ \A n \in DOMAIN got[c] : got[c][n][2] <= said[v]
          /\ \A n \in DOMAIN box : box[n].m[2] <= said[v]
      BY <1>1, <1>2, <2>1, <2>3 DEF Ordered, D!Increasing
    <3>2. \A l \in DOMAIN Tail(box) : /\ l \in 1..Len(box) - 1 /\ l + 1 \in DOMAIN box
                                      /\ Tail(box)[l] = box[l + 1]
      BY <1>3
    <3>3. \A n, l \in DOMAIN got'[c] : n < l => got'[c][n][2] < got'[c][l][2]
      <4>1. TAKE n, l \in DOMAIN got'[c]
      <4>2. HAVE n < l
      <4>3. n \in 1..Len(got[c]) /\ l \in 1..Len(got[c]) + 1
        BY <1>7, <4>2
      <4>4. CASE l = Len(got[c]) + 1
        BY <1>2, <1>3, <1>7, <3>1, <4>3, <4>4
      <4>5. CASE l # Len(got[c]) + 1
        <5>1. l \in 1..Len(got[c])
          BY <1>7, <4>3, <4>5
        <5>2. QED BY <1>7, <3>1, <4>2, <4>3, <5>1
      <4>6. QED BY <4>4, <4>5
    <3>4. \A n, l \in DOMAIN inbox'[c] : n < l => inbox'[c][n].m[2] < inbox'[c][l].m[2]
      <4>1. TAKE n, l \in DOMAIN inbox'[c]
      <4>2. HAVE n < l
      <4>3. n + 1 \in DOMAIN box /\ l + 1 \in DOMAIN box /\ n + 1 < l + 1
            /\ inbox'[c][n] = box[n + 1] /\ inbox'[c][l] = box[l + 1]
        BY <1>4, <3>2, <4>2
      <4>4. QED BY <3>1, <4>3
    <3>5. \A n \in DOMAIN got'[c], l \in DOMAIN inbox'[c] : got'[c][n][2] < inbox'[c][l].m[2]
      <4>1. TAKE n \in DOMAIN got'[c], l \in DOMAIN inbox'[c]
      <4>2. l + 1 \in DOMAIN box /\ 1 < l + 1 /\ inbox'[c][l] = box[l + 1] /\ 1 \in DOMAIN box
        BY <1>3, <1>4, <3>2
      <4>3. CASE n = Len(got[c]) + 1
        BY <1>2, <1>7, <3>1, <4>2, <4>3
      <4>4. CASE n # Len(got[c]) + 1
        <5>1. n \in DOMAIN got[c] /\ got'[c][n] = got[c][n]
          BY <1>7, <4>4
        <5>2. QED BY <3>1, <4>2, <5>1
      <4>5. QED BY <4>3, <4>4
    <3>6. \A n \in DOMAIN got'[c] : got'[c][n][2] <= said'[v]
      <4>1. TAKE n \in DOMAIN got'[c]
      <4>2. CASE n = Len(got[c]) + 1
        BY <1>2, <1>3, <1>7, <3>1, <4>2
      <4>3. CASE n # Len(got[c]) + 1
        <5>1. n \in DOMAIN got[c] /\ got'[c][n] = got[c][n]
          BY <1>7, <4>3
        <5>2. QED BY <1>2, <3>1, <5>1
      <4>4. QED BY <4>2, <4>3
    <3>7. \A n \in DOMAIN inbox'[c] : inbox'[c][n].m[2] <= said'[v]
      BY <1>2, <1>4, <3>1, <3>2
    <3>8. QED BY <1>5, <2>3, <3>3, <3>4, <3>5, <3>6, <3>7 DEF Ordered, D!Increasing
  <2>4. QED BY <2>2, <2>3
<1>10. QED BY <1>5, <1>8, <1>9 DEF NewsInv

\* A host ends.
LEMMA NewsEnds ==
    ASSUME TalkShape, talk \in News, NewsInv, NEW h \in Hosts, HostEnds(h)
    PROVE  NewsInv'
<1>1. /\ Others(h) /\ Gone(h)' /\ UNCHANGED <<talk, inbox, peer, said, got, faults>>
  BY DEF HostEnds
<1>2. /\ Speaker' = Speaker /\ Hearers' = Hearers
      /\ \A o \in Hosts : o # h => calls'[o] = calls[o] /\ Gone(o)' = Gone(o)
      /\ h # Speaker => Calling' = Calling
  BY <1>1, QuietHosts
<1>3. /\ Speaker \in Hosts /\ Hosts = {"serv", "c1", "c2"} /\ D!Group = {"c1", "c2"}
  BY SpeakerFacts
<1>4. NewsCalls'
  <2>1. Calling' \/ Gone(Speaker)'
    <3>1. CASE h = Speaker
      <4>1. calls'[h] = <<>> /\ calls'[Speaker'] = <<>>
        BY <1>1, <1>2, <3>1 DEF Gone
      <4>2. QED BY <4>1 DEF Gone
    <3>2. CASE h # Speaker
      <4>1. Calling \/ calls'[Speaker'] = <<>>
        BY <1>2, <1>3, <3>2 DEF NewsInv, NewsCalls, Gone
      <4>2. QED BY <1>2, <3>2, <4>1 DEF Gone
    <3>3. QED BY <3>1, <3>2
  <2>2. \A o \in Hosts : Gone(o) => Gone(o)'
    BY <1>1, <1>2
  <2>3. /\ \A o \in Hosts \ (Hearers' \cup {Speaker'}) : Gone(o)'
        /\ got'[Speaker'] = <<>>
    BY <1>1, <1>2, <2>2 DEF NewsInv, NewsCalls
  <2>4. ASSUME talk = "bound"
        PROVE  /\ \E n \in 0..3 : /\ Len(got'["c2"]) + n = 3
                                  /\ Gone("c2")' \/ calls'["c2"] = Left(n, <<D!Recv(FALSE)>>)
               /\ got'["serv"] = <<>> /\ inbox'["c1"] = <<>>
    <3>1. got' = got /\ inbox' = inbox
      BY <1>1
    <3>2. Gone("c2")' \/ calls'["c2"] = calls["c2"]
      BY <1>1, <1>2, <1>3
    <3>3. Gone("c2") => Gone("c2")'
      BY <1>3, <2>2
    <3>4. QED BY <2>4, <3>1, <3>2, <3>3 DEF NewsInv, NewsCalls
  <2>5. ASSUME talk # "bound", NEW o \in D!Group PROVE Gone(o)' \/ calls'[o] = <<D!Recv(TRUE)>>
    <3>1. Gone(o)' \/ calls'[o] = calls[o]
      BY <1>1, <1>2, <1>3
    <3>2. Gone(o) => Gone(o)'
      BY <1>3, <2>2
    <3>3. QED BY <2>5, <3>1, <3>2 DEF NewsInv, NewsCalls
  <2>6. QED BY <1>1, <2>1, <2>3, <2>4, <2>5 DEF NewsCalls, Left, D!Recv, D!Close, D!Op, D!Group
<1>5. ASSUME ~Copied', ~Moved', NEW c \in Hearers PROVE Ordered(c)'
  <2>1. Ordered(c)
    BY <1>1, <1>5, CalmBefore DEF NewsInv
  <2>2. QED BY <1>1, <1>2, <2>1 DEF Ordered, D!Increasing
<1>6. QED BY <1>2, <1>4, <1>5 DEF NewsInv

\* What the network does to them.
LEMMA NewsNetwork ==
    ASSUME TalkShape, talk \in News, NewsInv, NEW h \in Hosts, NEW t \in Seq(Mail), Network(h, t)
    PROVE  NewsInv'
<1> DEFINE box == inbox[h]
<1>1. /\ Speaker \in Hosts /\ Hearers \subseteq Hosts /\ Hosts = {"serv", "c1", "c2"}
      /\ inbox \in [Hosts -> Seq(Mail)] /\ D!Group = {"c1", "c2"}
  BY SpeakerFacts DEF TalkShape
<1>2. /\ inbox' = [inbox EXCEPT ![h] = t] /\ Among(t, box)
      /\ (~Copied' /\ ~Moved' => ~Moved /\ KeepsOrder(t, box)) /\ (~Copied' => ~Copied)
      /\ talk' = talk /\ calls' = calls /\ said' = said /\ got' = got
  BY DEF Network
<1>3. /\ inbox'[h] = t /\ \A o \in Hosts : o # h => inbox'[o] = inbox[o]
      /\ box \in Seq(Mail) /\ box = inbox[h]
  BY <1>1, <1>2
<1> HIDE DEF box
<1>4. Speaker' = Speaker /\ Hearers' = Hearers
  BY <1>2 DEF Speaker, Hearers, D!Group
<1>5. NewsCalls'
  <2>1. Calling' = Calling /\ Gone(Speaker)' = Gone(Speaker)
    BY <1>2, <1>4 DEF Calling, Gone
  <2>2. \A o \in Hosts : Gone(o)' = Gone(o)
    BY <1>2 DEF Gone
  <2>3. talk = "bound" => inbox'["c1"] = <<>>
    <3>1. talk = "bound" => inbox["c1"] = <<>>
      BY DEF NewsInv, NewsCalls
    <3>2. box = <<>> => t = <<>>
      <4>1. ASSUME box = <<>>, NEW n \in DOMAIN t PROVE FALSE
        <5>1. DOMAIN box = {}
          BY <4>1
        <5>2. QED BY <1>2, <5>1 DEF Among
      <4>2. \A s \in Seq(Mail) : DOMAIN s = {} => s = <<>>
        OBVIOUS
      <4>3. ASSUME box = <<>> PROVE t = <<>>
        <5>1. DOMAIN t = {}
          BY <4>1, <4>3
        <5>2. QED BY <4>2, <5>1
      <4>4. QED BY <4>3
    <3>3. QED BY <1>1, <1>3, <3>1, <3>2
  <2>4. /\ Calling' \/ Gone(Speaker)'
        /\ \A o \in Hosts \ (Hearers' \cup {Speaker'}) : Gone(o)'
        /\ got'[Speaker'] = <<>>
    BY <1>2, <1>4, <2>1, <2>2 DEF NewsInv, NewsCalls
  <2>5. ASSUME talk = "bound"
        PROVE  /\ \E n \in 0..3 : /\ Len(got'["c2"]) + n = 3
                                  /\ Gone("c2")' \/ calls'["c2"] = Left(n, <<D!Recv(FALSE)>>)
               /\ got'["serv"] = <<>> /\ inbox'["c1"] = <<>>
    BY <1>1, <1>2, <2>2, <2>3, <2>5 DEF NewsInv, NewsCalls
  <2>6. ASSUME talk # "bound", NEW o \in D!Group PROVE Gone(o)' \/ calls'[o] = <<D!Recv(TRUE)>>
    BY <1>1, <1>2, <2>2, <2>6 DEF NewsInv, NewsCalls
  <2>7. QED BY <1>2, <2>4, <2>5, <2>6 DEF NewsCalls, Left, D!Recv, D!Close, D!Op, D!Group
<1>6. ASSUME ~Copied', ~Moved', NEW c \in Hearers PROVE Ordered(c)'
  <2>1. Ordered(c) /\ c \in Hosts /\ KeepsOrder(t, box)
    BY <1>1, <1>2, <1>6 DEF NewsInv
  <2>2. CASE c # h
    BY <1>2, <1>3, <1>4, <2>1, <2>2 DEF Ordered, D!Increasing
  <2>3. CASE c = h
    <3>1. PICK f \in [DOMAIN t -> DOMAIN box] : /\ \A n, l \in DOMAIN t : n < l => f[n] < f[l]
                                                /\ \A n \in DOMAIN t : t[n] = box[f[n]]
      BY <2>1 DEF KeepsOrder
    <3>2. /\ D!Increasing(got[c])
          /\ \A n, l \in DOMAIN box : n < l => box[n].m[2] < box[l].m[2]
          /\ \A n \in DOMAIN got[c], l \in DOMAIN box : got[c][n][2] < box[l].m[2]
          /\ \A n \in DOMAIN got[c] : got[c][n][2] <= said[Speaker]
          /\ \A n \in DOMAIN box : box[n].m[2] <= said[Speaker]
      BY <1>3, <2>1, <2>3 DEF Ordered
    <3>3. \A n \in DOMAIN t : f[n] \in DOMAIN box
      BY <3>1
    <3>4. /\ \A n, l \in DOMAIN t : n < l => t[n].m[2] < t[l].m[2]
          /\ \A n \in DOMAIN got[c], l \in DOMAIN t : got[c][n][2] < t[l].m[2]
          /\ \A n \in DOMAIN t : t[n].m[2] <= said[Speaker]
      BY <3>1, <3>2, <3>3
    <3>5. D!Increasing(got[c])' /\ got'[c] = got[c] /\ inbox'[c] = t /\ said'[Speaker'] = said[Speaker]
      BY <1>2, <1>3, <1>4, <2>3, <3>2 DEF D!Increasing
    <3>6. QED BY <3>2, <3>4, <3>5 DEF Ordered
  <2>4. QED BY <2>2, <2>3
<1>7. QED BY <1>4, <1>5, <1>6 DEF NewsInv

LEMMA NewsKept ==
    ASSUME TalkShape, talk \in News, NewsInv, D!Next
    PROVE  TalkShape' /\ NewsInv' /\ talk' = talk
<1>1. NewsCalls /\ Speaker \in Hosts /\ Hearers \subseteq Hosts
  BY SpeakerFacts DEF NewsInv
<1>2. CASE Calling' /\ HostTypes(Speaker, Hearers)
  <2>1. HostStep(Speaker) /\ talk' = talk
    BY <1>2 DEF HostStep, HostTypes, Rest
  <2>2. QED BY <1>1, <1>2, <2>1, ShapeKept, NewsSays
<1>3. ASSUME NEW c \in Hearers, NewsHears(c) PROVE TalkShape' /\ NewsInv' /\ talk' = talk
  <2>1. HostStep(c) /\ talk' = talk /\ c \in Hosts
    BY <1>1, <1>3 DEF HostStep, NewsHears, HostHears, Rest
  <2>2. QED BY <1>3, <2>1, ShapeKept, NewsHeard
<1>4. ASSUME NEW h \in Hosts, HostEnds(h) PROVE TalkShape' /\ NewsInv' /\ talk' = talk
  <2>1. HostStep(h) /\ talk' = talk
    BY <1>4 DEF HostStep, HostEnds
  <2>2. QED BY <1>4, <2>1, ShapeKept, NewsEnds
<1>5. ASSUME NEW h \in Hosts, NEW t \in Seq(Mail), Network(h, t) PROVE TalkShape' /\ NewsInv' /\ talk' = talk
  <2>1. HostStep(h) /\ talk' = talk
    BY <1>5 DEF HostStep, Network
  <2>2. QED BY <1>5, <2>1, ShapeKept, NewsNetwork
<1>6. QED BY <1>1, <1>2, <1>3, <1>4, <1>5, NewsSteps

-----------------------------------------------------------------------------
(* Every talk.                                                             *)

LEMMA TalkKept ==
    ASSUME TalkInv, talk # "none", D!Next
    PROVE  TalkInv'
<1>1. TalkShape /\ talk \in {"uecho", "uechw", "uchat"} \cup News
  BY TalkTable DEF TalkInv, TalkShape, News
<1>2. CASE talk \in {"uecho", "uechw"}
  <2>1. TalkShape' /\ EchoInv' /\ talk' = talk
    BY <1>1, <1>2, EchoKept DEF TalkInv
  <2>2. QED BY <1>2, <2>1 DEF TalkInv
<1>3. CASE talk = "uchat"
  <2>1. TalkShape' /\ ChatInv' /\ talk' = talk
    BY <1>1, <1>3, ChatKept DEF TalkInv
  <2>2. QED BY <1>3, <2>1 DEF TalkInv
<1>4. CASE talk \in News
  <2>1. TalkShape' /\ NewsInv' /\ talk' = talk
    BY <1>1, <1>4, NewsKept DEF TalkInv, News
  <2>2. QED BY <1>4, <2>1 DEF TalkInv, News
<1>5. QED BY <1>1, <1>2, <1>3, <1>4

\* A step of another machine.
LEMMA TalkRests ==
    ASSUME TalkInv, UNCHANGED datagrams
    PROVE  TalkInv'
<1>1. UNCHANGED <<talk, calls, inbox, open, peer, said, got, refused, faults, left>>
  BY DEF datagrams
<1>2. /\ Copied' = Copied /\ Moved' = Moved /\ Listens' = Listens /\ Replies' = Replies
      /\ Speaker' = Speaker /\ Hearers' = Hearers
  BY <1>1 DEF Copied, Moved, D!Had, Listens, Replies, Awaits, Reply, Speaker, Hearers, D!Group
<1>3. TalkShape' = TalkShape
  BY <1>1, Zenon DEF TalkShape, D!Talks
<1>4. \A h \in Hosts : Speaks(h)' = Speaks(h) /\ Hears(h)' = Hears(h) /\ Gone(h)' = Gone(h)
  BY <1>1, OthersStay
<1>5. D!Group = {"c1", "c2"} /\ Hosts = {"serv", "c1", "c2"}
  BY SameHosts DEF Hosts
<1>6. EchoInv => EchoInv'
  <2>1. EchoOwn => EchoOwn'
    BY <1>1, <1>2, <1>4, <1>5 DEF EchoOwn, D!Group, Last
  <2>2. ASSUME NEW c \in D!Group, EchoTurn(c) PROVE EchoTurn(c)'
    <3>1. Sent(c)' = Sent(c) /\ InHand(c)' = InHand(c)
      BY <1>1, <1>2 DEF Sent, InHand
    <3>2. QED BY <1>1, <1>5, <2>2, <3>1, LineStays
  <2>3. QED BY <1>2, <2>1, <2>2 DEF EchoInv, D!Group
<1>7. ChatInv => ChatInv'
  <2>1. ChatShape => ChatShape'
    BY <1>1, <1>2, <1>4, <1>5 DEF ChatShape
  <2>2. (ClientTurn => ClientTurn') /\ (ServerTurn => ServerTurn') /\ (Answered => Answered')
    BY <1>1, <1>2 DEF ClientTurn, ServerTurn, Answered, D!Typed
  <2>3. ChatTurn => ChatTurn'
    BY <1>4, <1>5, <2>2 DEF ChatTurn
  <2>4. QED BY <1>2, <2>1, <2>3 DEF ChatInv
<1>8. NewsInv => NewsInv'
  <2>1. Calling' = Calling /\ Gone(Speaker)' = Gone(Speaker)
    BY <1>1, <1>2 DEF Calling, Gone
  <2>2. NewsCalls => NewsCalls'
    BY <1>1, <1>2, <1>4, <1>5, <2>1 DEF NewsCalls, D!Group, D!Recv, Left, D!Close, D!Op
  <2>3. \A c \in Hosts : Ordered(c) => Ordered(c)'
    BY <1>1, <1>2 DEF Ordered, D!Increasing
  <2>4. Hearers \subseteq Hosts
    BY <1>5 DEF Hearers
  <2>5. QED BY <1>2, <2>2, <2>3, <2>4 DEF NewsInv
<1>9. QED BY <1>1, <1>3, <1>6, <1>7, <1>8 DEF TalkInv

LEMMA TalkInStep ==
    ASSUME TalkInv
    PROVE  InStep
<1>1. /\ D!Group = {"c1", "c2"} /\ Hosts = {"serv", "c1", "c2"} /\ TalkShape
      /\ said \in [Hosts -> Nat] /\ got \in [Hosts -> Seq(Marks)]
  BY SameHosts DEF Hosts, TalkInv, TalkShape
<1>2. ASSUME talk \in {"uecho", "uechw"}, NEW c \in D!Group
      PROVE  /\ \A n \in DOMAIN got[c] : got[c][n][1] = c
             /\ ~D!Had("copied") => OpeningOf(got[c], c, said[c])
  <2>1. EchoInv /\ c \in Hosts /\ said[c] \in Nat
    BY <1>1, <1>2 DEF TalkInv
  <2>2. \A n \in DOMAIN got[c] : got[c][n][1] = c
    BY <2>1 DEF EchoInv, EchoOwn
  <2>3. ASSUME ~D!Had("copied") PROVE OpeningOf(got[c], c, said[c])
    <3>1. EchoTurn(c) /\ (Speaks(c) \/ Hears(c) \/ Gone(c))
      BY <2>1, <2>3 DEF EchoInv, EchoOwn, Copied
    <3>2. got[c] = D!Typed(c, said[c]) => OpeningOf(got[c], c, said[c])
      BY <2>1, TypedFacts
    <3>3. got[c] = D!Typed(c, said[c] - 1) /\ said[c] > 0 => OpeningOf(got[c], c, said[c])
      BY <2>1, TypedFacts
    <3>4. QED BY <3>1, <3>2, <3>3 DEF EchoTurn
  <2>4. QED BY <2>2, <2>3
<1>3. ASSUME talk = "uchat", ~D!Had("copied")
      PROVE  /\ said["c1"] - said["serv"] \in {0, 1}
             /\ OpeningOf(got["c1"], "serv", said["serv"])
  <2>1. ChatShape /\ ChatTurn /\ said["c1"] \in Nat /\ said["serv"] \in Nat /\ "serv" \in Hosts
    BY <1>1, <1>3 DEF TalkInv, ChatInv, Copied
  <2>2. ClientTurn \/ ServerTurn \/ Answered
    BY <2>1 DEF ChatShape, ChatTurn
  <2>3. said["c1"] = said["serv"] \/ said["c1"] = said["serv"] + 1
    BY <2>2 DEF ClientTurn, ServerTurn, Answered
  <2>4. \/ got["c1"] = D!Typed("serv", said["serv"])
        \/ said["serv"] > 0 /\ got["c1"] = D!Typed("serv", said["serv"] - 1)
    BY <2>2 DEF ClientTurn, ServerTurn, Answered
  <2>5. OpeningOf(got["c1"], "serv", said["serv"])
    BY <2>1, <2>4, TypedFacts
  <2>6. QED BY <2>1, <2>3, <2>5
<1>4. ASSUME talk \in News, NEW c \in D!Group
      PROVE  /\ ~D!Had("copied") /\ ~D!Had("moved") => D!Increasing(got[c])
             /\ Len(got[c]) <= 3 \/ talk # "bound"
  <2>1. NewsInv /\ c \in {"c1", "c2"} /\ got[c] \in Seq(Marks)
    BY <1>1, <1>4 DEF TalkInv, News
  <2>2. CASE c \in Hearers
    <3>1. ~D!Had("copied") /\ ~D!Had("moved") => D!Increasing(got[c])
      BY <2>1, <2>2 DEF NewsInv, Copied, Moved, Ordered
    <3>2. ASSUME talk = "bound" PROVE Len(got[c]) <= 3
      <4>1. c = "c2"
        BY <1>4, <2>2, <3>2, SpeakerFacts
      <4>2. PICK n \in 0..3 : Len(got["c2"]) + n = 3
        BY <2>1, <3>2 DEF NewsInv, NewsCalls
      <4>3. Len(got[c]) \in Nat
        BY <2>1
      <4>4. QED BY <4>1, <4>2, <4>3
    <3>3. QED BY <3>1, <3>2
  <2>3. CASE c \notin Hearers
    <3>1. c = Speaker
      BY <1>4, <2>1, <2>3, SpeakerFacts
    <3>2. got[c] = <<>>
      BY <2>1, <3>1 DEF NewsInv, NewsCalls
    <3>3. QED BY <3>2 DEF D!Increasing
  <2>4. QED BY <2>2, <2>3
<1>5. QED BY <1>2, <1>3, <1>4 DEF InStep, D!InStep, News, D!serv, OpeningOf

\* For every number of lines and faults: a client of the echo server reads its
\* own lines in order, the chat's hosts stay in step, and messages and news come in
\* order unless one was overtaken or copied.
THEOREM MessagesInStep == OneSpec => []InStep
<1>1. OneInit => TalkInv
  BY TalkBegins DEF OneInit
<1>2. TalkInv /\ [OneNext]_<<streams, tasks, datagrams>> => TalkInv'
  <2> SUFFICES ASSUME TalkInv, [OneNext]_<<streams, tasks, datagrams>>
               PROVE  TalkInv'
    OBVIOUS
  <2>1. CASE Streaming(S!Next) \/ Tasking(T!Next) \/ UNCHANGED <<streams, tasks, datagrams>>
    <3>1. UNCHANGED datagrams
      BY <2>1 DEF Streaming, Tasking
    <3>2. QED BY <3>1, TalkRests
  <2>2. CASE Messaging(D!Next)
    BY <2>2, TalkKept DEF Messaging
  <2>3. QED BY <2>1, <2>2 DEF OneNext
<1>3. TalkInv => InStep
  BY TalkInStep
<1>4. QED BY <1>1, <1>2, <1>3, PTL DEF OneSpec
-----------------------------------------------------------------------------
(* Tasks: the invariant.                                                   *)

\* What task t runs, from its first call to its return.
Script(t) == IF t = 0 THEN T!Programs[prog].main
             ELSE IF t \in DOMAIN T!Programs[prog].body
                  THEN T!Programs[prog].body[t] \o <<T!Op("return")>>
                  ELSE <<>>
\* How many of them t has still to do.
Todo(t)   == Len(ops[t])

CountingPrograms == {"thread4", "thread3_win", "mutex", "SyncMutex", "SyncCS"}
Readers  == {"SyncEvent", "SyncEvent_Sema"}
Followed == Readers \cup {"fork", "wait", "waitpid", "remove_zombie", "pipe1", "pipe2", "pipe3",
                          "give_and_take", "thread2", "thread3"}

\* Calls are names with numbers and texts.  Some are made by one program only.
Names == {"join", "set", "post", "send", "recv", "load", "store", "lock", "unlock", "print",
          "return", "wait", "sleep", "look", "setevent", "waitevent", "take"}
Atoms == Names \cup {"create", "destroy", "forever", "sigchld", "alarm"}
         \cup {"str1", "str2", "str3", "message", "typed"} \cup Int
Calls == Seq(Atoms)
Allowed(p) ==
    {c \in Calls : /\ c[1] = "create"  => c[2] \in T!Kids /\ c[2] \in DOMAIN T!Programs[p].body
                   /\ c[1] = "destroy" => p \in CountingPrograms \cup Readers
                   /\ c[1] = "forever" => p = "SIGINT"
                   /\ c[1] = "sigchld" => p = "remove_zombie"
                   /\ c[1] = "alarm"   => p \in {"sigaction", "signal"}}

TaskShape ==
    /\ prog \in DOMAIN T!Programs
    /\ ops \in [T!Tasks -> Seq(Allowed(prog))]
    /\ DOMAIN mem = T!Tasks /\ DOMAIN reg = T!Tasks /\ DOMAIN output = T!Tasks /\ DOMAIN pipe = 1..2
    /\ DOMAIN signals = {"handled", "pending", "merged"}
    /\ prog # "remove_zombie" => ~signals.handled /\ ~signals.pending
    /\ prog \notin {"sigaction", "signal"} => ~armed
    /\ prog \notin CountingPrograms \cup Readers => ~gone

\* The call that begins the last n of them.
CallLeft(t, n) == Script(t)[Len(Script(t)) - n + 1]
AtScript(t) ==
    /\ Todo(t) <= Len(Script(t))
    /\ \A n \in 1..Todo(t) : ops[t][n] = Script(t)[Len(Script(t)) - Todo(t) + n]
ScriptInv == \A t \in T!Tasks : AtScript(t)

\* The programs of a fixed length: what is in memory, in the pipes and on the
\* screen, by the calls that main and its children have still to do.
ForkInv ==
    /\ Todo(0) = 7 => mem[0] = 0
    /\ Todo(0) = 6 => reg[0] = 0
    /\ Todo(0) \in {4, 5} => mem[0] = 1
    /\ Todo(0) = 3 => reg[0] = 1
    /\ Todo(0) = 2 => mem[0] = -1
    /\ output[0] = IF Todo(0) >= 2 THEN <<>> ELSE <<-1>>
    /\ Todo(0) >= 5 => Todo(1) = 0 /\ output[1] = <<>>
    /\ Todo(0) < 5 => /\ Todo(1) = 4 => mem[1] = 1
                      /\ Todo(1) = 3 => reg[1] = 1
                      /\ Todo(1) = 2 => mem[1] = 3
                      /\ output[1] = IF Todo(1) >= 2 THEN <<>> ELSE <<3>>

\* A child that has ended is waiting to be collected, or has been.
WaitInv ==
    /\ output[1] = <<>> /\ output[2] = <<>>
    /\ Todo(0) >= 4 => output[0] = <<>>
    /\ Todo(0) = 6 => Todo(1) = 0 /\ Todo(2) = 0 /\ ended = {}
    /\ Todo(0) = 5 => Todo(2) = 0 /\ ended = {1} \ {k \in {1} : Todo(k) > 0}
    /\ Todo(0) = 4 => ended = {k \in {1, 2} : Todo(k) = 0}
    /\ Todo(0) = 3 => \E a \in {1, 2} : /\ Todo(a) = 0 /\ output[0] = <<a>>
                                        /\ ended = {k \in {1, 2} : Todo(k) = 0} \ {a}
    /\ Todo(0) < 3 => output[0] \in {<<1, 2>>, <<2, 1>>} /\ Todo(1) = 0 /\ Todo(2) = 0
WaitpidInv ==
    /\ output[1] = <<>> /\ output[2] = <<>>
    /\ output[0] = IF Todo(0) >= 2 THEN <<>> ELSE <<1>>
    /\ Todo(0) = 3 => Todo(1) = 0 /\ ended = {}
    /\ Todo(0) = 2 => ended = {1} \ {k \in {1} : Todo(k) > 0}
    /\ Todo(0) < 2 => Todo(1) = 0

\* As long as no signal was merged, only the child whose signal is pending is
\* there to be collected.
ZombieInv ==
    /\ Todo(0) = 9 \/ signals.handled
    /\ Todo(0) = 9 => ended = {} /\ \A k \in T!Kids : Todo(k) = 0
    /\ Todo(0) = 0 => ended = {}
    /\ ~signals.merged => IF signals.pending THEN \A k, l \in ended : k = l ELSE ended = {}

Pipe1Inv ==
    /\ Todo(0) = 3 => Todo(1) = 0 /\ pipe[1] = <<>>
    /\ Todo(0) = 2 => pipe[1] = IF Todo(1) = 2 THEN <<>> ELSE <<"str1">>
    /\ output[0] = IF Todo(0) >= 2 THEN <<>> ELSE <<"str1">>
    /\ output[1] = <<>>
Pipe2Inv ==
    /\ Todo(0) = 5 => Todo(1) = 0 /\ pipe[1] = <<>> /\ output[1] = <<>>
    /\ Todo(0) = 4 => /\ pipe[1] = IF Todo(1) \in {2, 3} THEN <<"str1">> ELSE <<>>
                      /\ output[1] = IF Todo(1) >= 2 THEN <<>> ELSE <<"str1">>
    /\ Todo(0) = 3 => pipe[1] = <<>> /\ output[1] = <<>> /\ Todo(1) \in {2, 3}
    /\ Todo(0) < 3 => /\ Todo(1) <= 3
                      /\ Todo(1) \in {2, 3} => pipe[1] = <<"str2">> /\ output[1] = <<>>
                      /\ Todo(1) < 2 => output[1] = <<"str2">>
    /\ output[0] = IF Todo(0) >= 4 THEN <<>> ELSE <<"str1">>
Pipe3Inv ==
    /\ Todo(0) = 4 => Todo(1) = 0 /\ pipe[1] = <<>> /\ pipe[2] = <<>> /\ output[1] = <<>>
    /\ Todo(0) = 3 => /\ Todo(1) \in {2, 3} /\ pipe[2] = <<>> /\ output[1] = <<>>
                      /\ pipe[1] = IF Todo(1) = 3 THEN <<>> ELSE <<"str1">>
    /\ Todo(0) = 2 => Todo(1) = 2 /\ pipe[1] = <<>> /\ pipe[2] = <<>> /\ output[1] = <<>>
    /\ Todo(0) < 2 => /\ Todo(1) <= 2
                      /\ Todo(1) = 2 => pipe[2] = <<"str2">> /\ output[1] = <<>>
                      /\ Todo(1) < 2 => output[1] = <<"str2">>
    /\ output[0] = IF Todo(0) >= 3 THEN <<>> ELSE <<"str1">>
GiveInv ==
    /\ Todo(0) = 5 => Todo(1) = 0 /\ pipe[1] = <<>> /\ pipe[2] = <<>> /\ output[1] = <<>>
    /\ Todo(0) = 4 => /\ Todo(1) \in {3, 4} /\ pipe[2] = <<>> /\ output[1] = <<>>
                      /\ pipe[1] = IF Todo(1) = 4 THEN <<>> ELSE <<"str1">>
    /\ Todo(0) = 3 => Todo(1) = 3 /\ pipe[1] = <<>> /\ pipe[2] = <<>> /\ output[1] = <<>>
    /\ Todo(0) = 2 => /\ Todo(1) <= 3
                      /\ Todo(1) = 3 => pipe[1] = <<>> /\ pipe[2] = <<"str2">> /\ output[1] = <<>>
                      /\ Todo(1) = 2 => pipe[1] = <<>> /\ output[1] = <<"str2">>
                      /\ Todo(1) < 2 => pipe[1] = <<"str3">> /\ output[1] = <<"str2">>
    /\ Todo(0) < 2 => Todo(1) <= 1 /\ output[1] = <<"str2">>
    /\ output[0] = IF Todo(0) >= 4 THEN <<>> ELSE IF Todo(0) >= 2 THEN <<"str1">> ELSE <<"str1", "str3">>

Thread2Inv ==
    /\ Todo(0) = 4 => Todo(1) = 0
    /\ Todo(0) = 3 => (Todo(1) < 3 => str = "message")
    /\ Todo(0) = 2 => str = "message" /\ Todo(1) = 0
    /\ output[0] = IF Todo(0) >= 2 THEN <<>> ELSE <<"message">>
    /\ output[1] = <<>> /\ output[2] = <<>>
\* No addition is lost after the last two: 1 + 2 at least, 1 + 2 + 3 + 4 at most.
Added3(n, first, both) == IF n >= 4 THEN 0 ELSE IF n >= 2 THEN first ELSE both
Most3(n0, n1, n2) == (IF n0 >= 6 THEN 0 ELSE Added3(n1, 1, 3))
                     + (IF n0 >= 5 THEN 0 ELSE Added3(n2, 3, 7))
Counts3(n0, n1, n2, m, r1, r2) ==
    /\ m \in Nat /\ r1 \in Nat /\ r2 \in Nat
    /\ n0 = 6 => n1 = 0 /\ m = 0
    /\ n0 >= 5 => n2 = 0
    /\ n0 \in 2..3 => n1 = 0
    /\ n0 = 2 => n2 = 0
    /\ n0 \in 2..5 => /\ m <= Most3(n0, n1, n2)
                      /\ n1 \in {2, 4} => r1 <= Most3(n0, n1, n2)
                      /\ n1 <= 3 => m >= 1
                      /\ n1 = 2 => r1 >= 1
                      /\ n1 <= 1 => m >= 3
    /\ n0 \in 2..4 /\ n2 \in {2, 4} => r2 <= Most3(n0, n1, n2)
Thread3Inv ==
    /\ Counts3(Todo(0), Todo(1), Todo(2), mem[0], reg[1], reg[2])
    /\ IF Todo(0) >= 2 THEN output[0] = <<>> ELSE \E sum0 \in 3..10 : output[0] = <<sum0>>
    /\ output[1] = <<>> /\ output[2] = <<>>

\* The string is there before a reader can pass, and the lock outlives both.
ReadersInv(passed) ==
    /\ output[0] = <<>>
    /\ Todo(0) = 8 => Todo(1) = 0 /\ output[1] = <<>>
    /\ Todo(0) >= 7 => Todo(2) = 0 /\ output[2] = <<>>
    /\ Todo(0) < 6 => str = "typed"
    /\ Todo(0) >= 5 => Todo(1) \in {0, passed} /\ Todo(2) \in {0, passed}
    /\ Todo(0) < 8 => output[1] = IF Todo(1) >= passed - 1 THEN <<>> ELSE <<"typed">>
    /\ Todo(0) < 7 => output[2] = IF Todo(2) >= passed - 1 THEN <<>> ELSE <<"typed">>
    /\ Todo(0) <= 7 /\ Todo(0) >= 5 => Todo(1) = passed
    /\ Todo(0) <= 6 /\ Todo(0) >= 5 => Todo(2) = passed
    /\ Todo(0) < 4 => Todo(1) = 0
    /\ Todo(0) < 3 => Todo(2) = 0
    /\ gone => Todo(0) < 2
EventInv == ReadersInv(3) /\ (event => Todo(0) < 5)
SemaInv  == ReadersInv(4) /\ sem \in Nat /\ (sem > 0 => Todo(0) < 5)

\* One child, and what it prints.
Pairs == {"fork", "pipe1", "pipe2", "pipe3", "give_and_take"}
FollowedInv ==
    /\ prog \in Followed => ScriptInv
    /\ prog \in Pairs => output[2] = <<>>
    /\ prog = "fork" => ForkInv
    /\ prog = "wait" => WaitInv
    /\ prog = "waitpid" => WaitpidInv
    /\ prog = "remove_zombie" => ZombieInv
    /\ prog = "pipe1" => Pipe1Inv
    /\ prog = "pipe2" => Pipe2Inv
    /\ prog = "pipe3" => Pipe3Inv
    /\ prog = "give_and_take" => GiveInv
    /\ prog = "thread2" => Thread2Inv
    /\ prog = "thread3" => Thread3Inv
    /\ prog = "SyncEvent" => EventInv
    /\ prog = "SyncEvent_Sema" => SemaInv

\* The programs that count: how a thread works, and where it is with n
\* additions left.  Free threads share the counter without a lock; the others
\* hold it once for all their additions, or once for each.
Sign(k) == IF k % 2 = 0 THEN 1 ELSE -1
Free    == prog \in {"thread4", "thread3_win"}
Each(k) == prog = "mutex" /\ k % 2 = 1
Ending    == <<T!Op("return")>>
Frees   == <<T!Op("unlock"), T!Op("return")>>
Load    == <<"load">>
Put(k)         == <<"store", Sign(k)>>
AddsLeft(n, k, rest) == T!Repeat(n, T!Add(Sign(k))) \o rest
EachLeft(n, k)     == T!Repeat(n, T!Locked(T!Add(Sign(k)))) \o Ending

NotYet(k)  == k > 2 * NUM_THREAD + 3 - Todo(0)   \* main has not created it
Joined(k)   == k + NUM_THREAD <= 2 * NUM_THREAD + 3 - Todo(0)
FreeAt(k, n) ==
    \/ ops[k] = AddsLeft(n, k, Ending)
    \/ n > 0 /\ ops[k] = <<Put(k)>> \o AddsLeft(n - 1, k, Ending)
    \/ n = 0 /\ ops[k] = <<>>
OnceAt(k, n) ==
    \/ n = Loops /\ ops[k] = <<T!Op("lock")>> \o AddsLeft(n, k, Frees) /\ lock # {k}
    \/ ops[k] = AddsLeft(n, k, Frees) /\ lock = {k}
    \/ n > 0 /\ ops[k] = <<Put(k)>> \o AddsLeft(n - 1, k, Frees) /\ lock = {k} /\ reg[k] = mem[0]
    \/ n = 0 /\ ops[k] \in {Ending, <<>>} /\ lock # {k}
EachAt(k, n) ==
    \/ ops[k] = EachLeft(n, k) /\ lock # {k}
    \/ n > 0 /\ ops[k] = <<Load, Put(k), T!Op("unlock")>> \o EachLeft(n - 1, k) /\ lock = {k}
    \/ n > 0 /\ ops[k] = <<Put(k), T!Op("unlock")>> \o EachLeft(n - 1, k) /\ lock = {k} /\ reg[k] = mem[0]
    \/ ops[k] = <<T!Op("unlock")>> \o EachLeft(n, k) /\ lock = {k}
    \/ n = 0 /\ ops[k] = <<>> /\ lock # {k}
ThreadAt(k, n) ==
    IF NotYet(k) THEN n = Loops /\ ops[k] = <<>> /\ lock # {k}
    ELSE IF Free THEN FreeAt(k, n) ELSE IF Each(k) THEN EachAt(k, n) ELSE OnceAt(k, n)

\* The additions made, by which thread and which of its own.
Made(togo, s) == {x \in (1..NUM_THREAD) \X (1..Loops) : Sign(x[1]) = s /\ x[2] > togo[x[1]]}
Ups(togo)   == Cardinality(Made(togo, 1))
Downs(togo) == Cardinality(Made(togo, -1))
Within(v, togo) == v \in Int /\ v <= Ups(togo) /\ -Downs(togo) <= v

CounterInv ==
    /\ AtScript(0)
    /\ \A k \in T!Kids : Joined(k) => ops[k] = <<>>
    /\ \E togo \in [T!Kids -> 0..Loops] :
          /\ \A k \in T!Kids : ThreadAt(k, togo[k])
          /\ IF Free THEN Within(mem[0], togo) /\ \A k \in T!Kids : Within(reg[k], togo)
                     ELSE mem[0] = Ups(togo) - Downs(togo)
    /\ gone => Todo(0) <= 2
    /\ output[1] = <<>> /\ output[2] = <<>>
    /\ IF Todo(0) >= 2 THEN output[0] = <<>>
       ELSE \E v \in -T!Half..T!Half : output[0] = <<v>> /\ (Free \/ v = 0)

TaskInv ==
    /\ TaskShape
    /\ FollowedInv
    /\ prog \in CountingPrograms => CounterInv
-----------------------------------------------------------------------------
(* Tasks: the scripts.                                                     *)

LEMMA RepeatTask ==
    ASSUME NEW C, NEW n \in Nat, NEW body \in Seq(C)
    PROVE  /\ T!Repeat(0, body) = <<>>
           /\ T!Repeat(n, body) \in Seq(C)
           /\ T!Repeat(n + 1, body) = body \o T!Repeat(n, body)
BY SameTurns, TurnsOnce, Zenon

\* The calls that the programs make.
LEMMA CallTypes ==
    ASSUME NEW p
    PROVE  /\ \A nm \in Names : T!Op(nm) \in Allowed(p)
           /\ \A v \in T!Kids : v \in DOMAIN T!Programs[p].body => T!Create(v) \in Allowed(p)
           /\ p \in CountingPrograms \cup Readers => T!Op("destroy") \in Allowed(p)
           /\ p = "SIGINT" => T!Op("forever") \in Allowed(p)
           /\ p = "remove_zombie" => T!Op("sigchld") \in Allowed(p)
           /\ p \in {"sigaction", "signal"} => T!Op("alarm") \in Allowed(p)
           /\ \A v \in Int : T!Join(v) \in Allowed(p) /\ T!Post(v) \in Allowed(p)
           /\ T!Set("message") \in Allowed(p) /\ T!Set("typed") \in Allowed(p)
           /\ \A v \in Int, m \in {"str1", "str2", "str3"} :
                 T!Send(v, m) \in Allowed(p) /\ T!Recv(v) \in Allowed(p)
           /\ \A v \in Int : <<"store", v>> \in Allowed(p)
           /\ <<"load">> \in Allowed(p)
<1>1. \A a \in Atoms : <<a>> \in Calls /\ <<a>>[1] = a
  BY DEF Calls
<1>2. \A a, b \in Atoms : <<a, b>> \in Calls /\ <<a, b>>[1] = a /\ <<a, b>>[2] = b
  BY DEF Calls
<1>3. \A a, b, c \in Atoms : <<a, b, c>> \in Calls /\ <<a, b, c>>[1] = a
  BY DEF Calls
<1> DEFINE Special == {"create", "destroy", "forever", "sigchld", "alarm"}
           Words   == {"str1", "str2", "str3", "message", "typed"}
<1>4. /\ \A a \in Int : a \in Atoms
      /\ \A a \in Names \cup Special \cup Words : a \in Atoms
      /\ \A a \in Names : a \notin Special
  BY DEF Atoms, Names
<1>5. ASSUME NEW nm \in Names PROVE <<nm>> \in Allowed(p)
  BY <1>1, <1>4 DEF Allowed
<1>6. ASSUME NEW nm \in Names, NEW v \in Atoms
      PROVE  <<nm, v>> \in Allowed(p) /\ \A w \in Words : <<nm, v, w>> \in Allowed(p)
  BY <1>2, <1>3, <1>4 DEF Allowed
<1>7. ASSUME NEW v \in T!Kids, v \in DOMAIN T!Programs[p].body PROVE <<"create", v>> \in Allowed(p)
  <2>1. v \in Int
    BY ProgramConstants DEF T!Kids
  <2>2. <<"create", v>> \in Calls /\ <<"create", v>>[1] = "create" /\ <<"create", v>>[2] = v
    BY <1>2, <1>4, <2>1
  <2>3. QED BY <1>7, <2>2 DEF Allowed
<1>8. /\ p \in CountingPrograms \cup Readers => <<"destroy">> \in Allowed(p)
      /\ p = "SIGINT" => <<"forever">> \in Allowed(p)
      /\ p = "remove_zombie" => <<"sigchld">> \in Allowed(p)
      /\ p \in {"sigaction", "signal"} => <<"alarm">> \in Allowed(p)
  <2>1. \A a \in Special : <<a>> \in Calls /\ <<a>>[1] = a
    BY <1>1, <1>4
  <2>2. QED BY <2>1 DEF Allowed
<1>9. "join" \in Names /\ "post" \in Names /\ "set" \in Names /\ "send" \in Names
      /\ "recv" \in Names /\ "store" \in Names /\ "load" \in Names
  BY DEF Names
<1>10. (\A nm \in Names : T!Op(nm) \in Allowed(p)) /\ <<"load">> \in Allowed(p)
  BY <1>5, <1>9, Zenon DEF T!Op
<1>11. \A v \in Atoms : /\ T!Join(v) \in Allowed(p) /\ T!Post(v) \in Allowed(p) /\ T!Set(v) \in Allowed(p)
                        /\ T!Recv(v) \in Allowed(p) /\ <<"store", v>> \in Allowed(p)
                        /\ \A w \in Words : T!Send(v, w) \in Allowed(p)
  BY <1>6, <1>9, Zenon DEF T!Join, T!Post, T!Set, T!Recv, T!Send
<1>12. QED BY <1>4, <1>7, <1>8, <1>10, <1>11 DEF T!Op, T!Create

\* A script ends with return.
LEMMA Returning ==
    ASSUME NEW C, T!Op("return") \in C
    PROVE  \A p \in Seq(C) :
              LET s == p \o <<T!Op("return")>>
              IN  /\ s \in Seq(C) /\ Len(s) = Len(p) + 1
                  /\ \A n \in 1..Len(p) : s[n] = p[n]
                  /\ s[Len(p) + 1] = <<"return">>
<1>1. T!Op("return") = <<"return">>
  BY DEF T!Op
<1>2. QED BY <1>1, OneMore
LEMMA ProgramOf ==
    /\ T!Programs["fork"] = T!fork /\ T!Programs["wait"] = T!wait /\ T!Programs["waitpid"] = T!waitpid
    /\ T!Programs["remove_zombie"] = T!remove_zombie /\ T!Programs["pipe1"] = T!pipe1
    /\ T!Programs["pipe2"] = T!pipe2 /\ T!Programs["pipe3"] = T!pipe3
    /\ T!Programs["give_and_take"] = T!give_and_take /\ T!Programs["thread2"] = T!thread2
    /\ T!Programs["thread3"] = T!thread3 /\ T!Programs["SyncEvent"] = T!SyncEvent
    /\ T!Programs["SyncEvent_Sema"] = T!SyncEvent_Sema
BY DEF T!Programs

LEMMA FiveSleeps ==
    ASSUME NEW C, <<"sleep">> \in C
    PROVE  LET s == T!Repeat(5, << <<"sleep">> >>)
           IN  /\ s \in Seq(C) /\ Len(s) = 5
               /\ \A n \in 1..5 : s[n] = <<"sleep">>
<1> DEFINE one == << <<"sleep">> >>
           R(n) == T!Repeat(n, one)
           Good(n) == R(n) \in Seq(C) /\ Len(R(n)) = n /\ \A l \in 1..n : R(n)[l] = <<"sleep">>
<1>1. one \in Seq(C) /\ Len(one) = 1 /\ one[1] = <<"sleep">>
  OBVIOUS
<1> HIDE DEF one
<1>2. R(0) = <<>> /\ \A n \in Nat : R(n + 1) = one \o R(n)
  BY <1>1, RepeatTask
<1> HIDE DEF R
<1>3. <<>> \in Seq(C) /\ Len(<<>>) = 0
  OBVIOUS
<1>4. Good(0)
  <2>1. R(0) \in Seq(C) /\ Len(R(0)) = 0
    BY <1>2, <1>3
  <2>2. \A l \in 1..0 : R(0)[l] = <<"sleep">>
    OBVIOUS
  <2>3. QED BY <2>1, <2>2
<1>5. ASSUME NEW n \in Nat, Good(n) PROVE Good(n + 1)
  <2> DEFINE s == one \o R(n)
  <2>1. /\ s \in Seq(C) /\ Len(s) = Len(one) + Len(R(n))
        /\ \A l \in 1..Len(one) + Len(R(n)) : s[l] = IF l <= Len(one) THEN one[l] ELSE R(n)[l - Len(one)]
    BY <1>1, <1>5, JoinParts
  <2> HIDE DEF s
  <2>2. s \in Seq(C) /\ Len(s) = n + 1 /\ \A l \in 1..n + 1 : s[l] = <<"sleep">>
    BY <1>1, <1>5, <2>1
  <2>3. QED BY <1>2, <2>2 DEF s
<1> HIDE DEF Good
<1>6. Good(1) /\ Good(2) /\ Good(3) /\ Good(4) /\ Good(5)
  <2>1. Good(1)
    BY <1>4, <1>5
  <2>2. Good(2)
    BY <1>5, <2>1
  <2>3. Good(3)
    BY <1>5, <2>2
  <2>4. Good(4)
    BY <1>5, <2>3
  <2>5. QED BY <1>5, <2>1, <2>2, <2>3, <2>4
<1>7. QED BY <1>6 DEF Good, R, one
\* A script made of parts.
Ends1(s, a) ==
    /\ Len(s) = Len(a) + 1
    /\ \A n \in 1..Len(a) : s[n] = a[n]
    /\ s[Len(a) + 1] = <<"return">>

Ends2(s, a, b) ==
    /\ Len(s) = Len(a) + Len(b) + 1
    /\ \A n \in 1..Len(a) : s[n] = a[n]
    /\ \A n \in 1..Len(b) : s[Len(a) + n] = b[n]
    /\ s[Len(a) + Len(b) + 1] = <<"return">>

Ends3(s, a, b, c) ==
    /\ Len(s) = Len(a) + Len(b) + Len(c) + 1
    /\ \A n \in 1..Len(a) : s[n] = a[n]
    /\ \A n \in 1..Len(b) : s[Len(a) + n] = b[n]
    /\ \A n \in 1..Len(c) : s[Len(a) + Len(b) + n] = c[n]
    /\ s[Len(a) + Len(b) + Len(c) + 1] = <<"return">>

Ends4(s, a, b, c, d) ==
    /\ Len(s) = Len(a) + Len(b) + Len(c) + Len(d) + 1
    /\ \A n \in 1..Len(a) : s[n] = a[n]
    /\ \A n \in 1..Len(b) : s[Len(a) + n] = b[n]
    /\ \A n \in 1..Len(c) : s[Len(a) + Len(b) + n] = c[n]
    /\ \A n \in 1..Len(d) : s[Len(a) + Len(b) + Len(c) + n] = d[n]
    /\ s[Len(a) + Len(b) + Len(c) + Len(d) + 1] = <<"return">>

LEMMA OnePart ==
    ASSUME NEW C, T!Op("return") \in C, NEW a \in Seq(C)
    PROVE  LET s == a \o <<T!Op("return")>> IN s \in Seq(C) /\ Ends1(s, a)
BY Returning DEF Ends1

LEMMA TwoParts ==
    ASSUME NEW C, T!Op("return") \in C, NEW a \in Seq(C), NEW b \in Seq(C)
    PROVE  LET s == (a \o b) \o <<T!Op("return")>> IN s \in Seq(C) /\ Ends2(s, a, b)
<1> DEFINE p == a \o b
<1>1. /\ p \in Seq(C) /\ Len(p) = Len(a) + Len(b)
      /\ \A n \in 1..Len(a) + Len(b) : p[n] = IF n <= Len(a) THEN a[n] ELSE b[n - Len(a)]
  BY JoinParts
<1>2. Len(a) \in Nat /\ Len(b) \in Nat
  OBVIOUS
<1> HIDE DEF p
<1> DEFINE s == p \o <<T!Op("return")>>
<1>3. s \in Seq(C) /\ Ends1(s, p)
  BY <1>1, OnePart
<1> HIDE DEF s
<1>4. \A n \in 1..Len(p) : s[n] = p[n]
  BY <1>3 DEF Ends1
<1>5. \A n \in 1..Len(a) : s[n] = a[n]
  BY <1>1, <1>2, <1>4
<1>6. ASSUME NEW n \in 1..Len(b) PROVE s[Len(a) + n] = b[n]
  <2>1. /\ Len(a) + n \in 1..Len(p) /\ Len(a) + n \in 1..Len(a) + Len(b)
        /\ ~(Len(a) + n <= Len(a)) /\ Len(a) + n - Len(a) = n
    BY <1>1, <1>2
  <2>2. p[Len(a) + n] = b[Len(a) + n - Len(a)]
    BY <1>1, <2>1
  <2>3. QED BY <1>4, <2>1, <2>2, Zenon
<1>7. Ends2(s, a, b)
  BY <1>1, <1>2, <1>3, <1>5, <1>6 DEF Ends1, Ends2
<1>8. QED BY <1>3, <1>7 DEF s, p

LEMMA ThreeParts ==
    ASSUME NEW C, T!Op("return") \in C, NEW a \in Seq(C), NEW b \in Seq(C), NEW c \in Seq(C)
    PROVE  LET s == ((a \o b) \o c) \o <<T!Op("return")>> IN s \in Seq(C) /\ Ends3(s, a, b, c)
<1> DEFINE p == a \o b
<1>1. /\ p \in Seq(C) /\ Len(p) = Len(a) + Len(b)
      /\ \A n \in 1..Len(a) + Len(b) : p[n] = IF n <= Len(a) THEN a[n] ELSE b[n - Len(a)]
  BY JoinParts
<1>2. Len(a) \in Nat /\ Len(b) \in Nat /\ Len(c) \in Nat
  OBVIOUS
<1> HIDE DEF p
<1> DEFINE s == (p \o c) \o <<T!Op("return")>>
<1>3. s \in Seq(C) /\ Ends2(s, p, c)
  BY <1>1, TwoParts
<1> HIDE DEF s
<1>4. \A n \in 1..Len(p) : s[n] = p[n]
  BY <1>3 DEF Ends2
<1>5. \A n \in 1..Len(a) : s[n] = a[n]
  BY <1>1, <1>2, <1>4
<1>6. ASSUME NEW n \in 1..Len(b) PROVE s[Len(a) + n] = b[n]
  <2>1. /\ Len(a) + n \in 1..Len(p) /\ Len(a) + n \in 1..Len(a) + Len(b)
        /\ ~(Len(a) + n <= Len(a)) /\ Len(a) + n - Len(a) = n
    BY <1>1, <1>2
  <2>2. p[Len(a) + n] = b[Len(a) + n - Len(a)]
    BY <1>1, <2>1
  <2>3. QED BY <1>4, <2>1, <2>2, Zenon
<1>7. Ends3(s, a, b, c)
  BY <1>1, <1>2, <1>3, <1>5, <1>6 DEF Ends2, Ends3
<1>8. QED BY <1>3, <1>7 DEF s, p

LEMMA FourParts ==
    ASSUME NEW C, T!Op("return") \in C, NEW a \in Seq(C), NEW b \in Seq(C), NEW c \in Seq(C), NEW d \in Seq(C)
    PROVE  LET s == (((a \o b) \o c) \o d) \o <<T!Op("return")>> IN s \in Seq(C) /\ Ends4(s, a, b, c, d)
<1> DEFINE p == a \o b
<1>1. /\ p \in Seq(C) /\ Len(p) = Len(a) + Len(b)
      /\ \A n \in 1..Len(a) + Len(b) : p[n] = IF n <= Len(a) THEN a[n] ELSE b[n - Len(a)]
  BY JoinParts
<1>2. Len(a) \in Nat /\ Len(b) \in Nat /\ Len(c) \in Nat /\ Len(d) \in Nat
  OBVIOUS
<1> HIDE DEF p
<1> DEFINE s == ((p \o c) \o d) \o <<T!Op("return")>>
<1>3. s \in Seq(C) /\ Ends3(s, p, c, d)
  BY <1>1, ThreeParts
<1> HIDE DEF s
<1>4. \A n \in 1..Len(p) : s[n] = p[n]
  BY <1>3 DEF Ends3
<1>5. \A n \in 1..Len(a) : s[n] = a[n]
  BY <1>1, <1>2, <1>4
<1>6. ASSUME NEW n \in 1..Len(b) PROVE s[Len(a) + n] = b[n]
  <2>1. /\ Len(a) + n \in 1..Len(p) /\ Len(a) + n \in 1..Len(a) + Len(b)
        /\ ~(Len(a) + n <= Len(a)) /\ Len(a) + n - Len(a) = n
    BY <1>1, <1>2
  <2>2. p[Len(a) + n] = b[Len(a) + n - Len(a)]
    BY <1>1, <2>1
  <2>3. QED BY <1>4, <2>1, <2>2, Zenon
<1>7. Ends4(s, a, b, c, d)
  BY <1>1, <1>2, <1>3, <1>5, <1>6 DEF Ends3, Ends4
<1>8. QED BY <1>3, <1>7 DEF s, p

LEMMA ForkScripts ==
    ASSUME prog = "fork"
    PROVE  /\ Script(0) \in Seq(Allowed(prog)) /\ Len(Script(0)) = 7
           /\ CallLeft(0, 7) = <<"load">> /\ CallLeft(0, 6) = <<"store", 1>>
           /\ CallLeft(0, 5) = <<"create", 1>> /\ CallLeft(0, 4) = <<"load">>
           /\ CallLeft(0, 3) = <<"store", -2>> /\ CallLeft(0, 2) = <<"print">>
           /\ CallLeft(0, 1) = <<"return">> /\ Script(1) \in Seq(Allowed(prog))
           /\ Len(Script(1)) = 4 /\ CallLeft(1, 4) = <<"load">>
           /\ CallLeft(1, 3) = <<"store", 2>> /\ CallLeft(1, 2) = <<"print">>
           /\ CallLeft(1, 1) = <<"return">> /\ \A t \in T!Tasks \ {0, 1} : Script(t) = <<>>
<1> DEFINE C == Allowed(prog)
<1>1. T!Programs[prog] = T!fork
  BY ProgramOf
<1>2. 1 \in T!Kids /\ 1 \in DOMAIN T!Programs[prog].body
  BY <1>1, ProgramConstants DEF T!Kids, T!Program, T!fork
<1>3. /\ <<"load">> \in C /\ <<"store", 1>> \in C /\ T!Create(1) \in C /\ <<"store", -2>> \in C
      /\ T!Op("print") \in C /\ <<"store", 2>> \in C /\ T!Op("return") \in C
  BY <1>2, CallTypes DEF Names
<1> HIDE DEF C
<1>4. /\ Script(0) \in Seq(C) /\ Len(Script(0)) = 7 /\ CallLeft(0, 7) = <<"load">>
      /\ CallLeft(0, 6) = <<"store", 1>> /\ CallLeft(0, 5) = <<"create", 1>>
      /\ CallLeft(0, 4) = <<"load">> /\ CallLeft(0, 3) = <<"store", -2>>
      /\ CallLeft(0, 2) = <<"print">> /\ CallLeft(0, 1) = <<"return">>
  <2> DEFINE p1 == T!Add(1)
             p2 == <<T!Create(1)>>
             p3 == T!Add(-2)
             p4 == <<T!Op("print")>>
  <2>1. /\ p1 \in Seq(C) /\ Len(p1) = 2 /\ p1[1] = <<"load">> /\ p1[2] = <<"store", 1>>
    BY <1>3 DEF T!Add
  <2>2. /\ p2 \in Seq(C) /\ Len(p2) = 1 /\ p2[1] = <<"create", 1>>
    BY <1>3 DEF T!Create
  <2>3. /\ p3 \in Seq(C) /\ Len(p3) = 2 /\ p3[1] = <<"load">> /\ p3[2] = <<"store", -2>>
    BY <1>3 DEF T!Add
  <2>4. /\ p4 \in Seq(C) /\ Len(p4) = 1 /\ p4[1] = <<"print">>
    BY <1>3 DEF T!Op
  <2>5. Script(0) = (((p1 \o p2) \o p3) \o p4) \o <<T!Op("return")>>
    BY <1>1 DEF Script, T!Program, T!fork
  <2> HIDE DEF p1, p2, p3, p4
  <2> DEFINE s == Script(0)
  <2>6. s \in Seq(C) /\ Ends4(s, p1, p2, p3, p4)
    <3>1. p1 \in Seq(C) /\ p2 \in Seq(C) /\ p3 \in Seq(C) /\ p4 \in Seq(C)
      BY <2>1, <2>2, <2>3, <2>4
    <3> DEFINE q == (((p1 \o p2) \o p3) \o p4) \o <<T!Op("return")>>
    <3>2. q \in Seq(C) /\ Ends4(q, p1, p2, p3, p4)
      BY <1>3, <3>1, FourParts
    <3> HIDE DEF q
    <3>3. s = q
      BY <2>5 DEF q
    <3>4. QED BY <3>2, <3>3
  <2>7. \A n : CallLeft(0, n) = s[Len(s) - n + 1]
    BY DEF CallLeft
  <2> HIDE DEF s
  <2>8. /\ Len(s) = 7 /\ s[1] = <<"load">> /\ s[2] = <<"store", 1>> /\ s[3] = <<"create", 1>>
        /\ s[4] = <<"load">> /\ s[5] = <<"store", -2>> /\ s[6] = <<"print">> /\ s[7] = <<"return">>
    BY <2>1, <2>2, <2>3, <2>4, <2>6 DEF Ends4
  <2>9. /\ 7 - 7 + 1 = 1 /\ 7 - 6 + 1 = 2 /\ 7 - 5 + 1 = 3 /\ 7 - 4 + 1 = 4 /\ 7 - 3 + 1 = 5
        /\ 7 - 2 + 1 = 6 /\ 7 - 1 + 1 = 7
    OBVIOUS
  <2>10. QED BY <2>6, <2>7, <2>8, <2>9, ZenonT(60) DEF s
<1>5. /\ Script(1) \in Seq(C) /\ Len(Script(1)) = 4 /\ CallLeft(1, 4) = <<"load">>
      /\ CallLeft(1, 3) = <<"store", 2>> /\ CallLeft(1, 2) = <<"print">>
      /\ CallLeft(1, 1) = <<"return">>
  <2> DEFINE p1 == T!Add(2)
             p2 == <<T!Op("print")>>
  <2>1. /\ p1 \in Seq(C) /\ Len(p1) = 2 /\ p1[1] = <<"load">> /\ p1[2] = <<"store", 2>>
    BY <1>3 DEF T!Add
  <2>2. /\ p2 \in Seq(C) /\ Len(p2) = 1 /\ p2[1] = <<"print">>
    BY <1>3 DEF T!Op
  <2>3. Script(1) = (p1 \o p2) \o <<T!Op("return")>>
    BY <1>1 DEF Script, T!Program, T!fork
  <2> HIDE DEF p1, p2
  <2> DEFINE s == Script(1)
  <2>4. s \in Seq(C) /\ Ends2(s, p1, p2)
    BY <1>3, <2>1, <2>2, <2>3, TwoParts
  <2>5. \A n : CallLeft(1, n) = s[Len(s) - n + 1]
    BY DEF CallLeft
  <2> HIDE DEF s
  <2>6. /\ Len(s) = 4 /\ s[1] = <<"load">> /\ s[2] = <<"store", 2>> /\ s[3] = <<"print">>
        /\ s[4] = <<"return">>
    BY <2>1, <2>2, <2>4 DEF Ends2
  <2>7. /\ 4 - 4 + 1 = 1 /\ 4 - 3 + 1 = 2 /\ 4 - 2 + 1 = 3 /\ 4 - 1 + 1 = 4
    OBVIOUS
  <2>8. QED BY <2>4, <2>5, <2>6, <2>7, Zenon DEF s
<1>6. \A t \in T!Tasks \ {0, 1} : Script(t) = <<>>
  BY <1>1 DEF Script, T!Program, T!fork
<1>7. QED BY <1>4, <1>5, <1>6 DEF C

LEMMA WaitScripts ==
    ASSUME prog = "wait"
    PROVE  /\ Script(0) \in Seq(Allowed(prog)) /\ Len(Script(0)) = 6
           /\ CallLeft(0, 6) = <<"create", 1>> /\ CallLeft(0, 5) = <<"create", 2>>
           /\ CallLeft(0, 4) = <<"wait">> /\ CallLeft(0, 3) = <<"wait">>
           /\ CallLeft(0, 2) = <<"sleep">> /\ CallLeft(0, 1) = <<"return">>
           /\ Script(1) \in Seq(Allowed(prog)) /\ Len(Script(1)) = 1
           /\ CallLeft(1, 1) = <<"return">> /\ Script(2) \in Seq(Allowed(prog))
           /\ Len(Script(2)) = 1 /\ CallLeft(2, 1) = <<"return">>
           /\ \A t \in T!Tasks \ {0, 1, 2} : Script(t) = <<>>
<1> DEFINE C == Allowed(prog)
<1>1. T!Programs[prog] = T!wait
  BY ProgramOf
<1>2. 1 \in T!Kids /\ 1 \in DOMAIN T!Programs[prog].body /\ 2 \in T!Kids /\ 2 \in DOMAIN T!Programs[prog].body
  BY <1>1, ProgramConstants DEF T!Kids, T!Program, T!wait
<1>3. /\ T!Create(1) \in C /\ T!Create(2) \in C /\ T!Op("wait") \in C /\ T!Op("sleep") \in C
      /\ T!Op("return") \in C
  BY <1>2, CallTypes DEF Names
<1> HIDE DEF C
<1>4. /\ Script(0) \in Seq(C) /\ Len(Script(0)) = 6 /\ CallLeft(0, 6) = <<"create", 1>>
      /\ CallLeft(0, 5) = <<"create", 2>> /\ CallLeft(0, 4) = <<"wait">>
      /\ CallLeft(0, 3) = <<"wait">> /\ CallLeft(0, 2) = <<"sleep">>
      /\ CallLeft(0, 1) = <<"return">>
  <2> DEFINE p1 == <<T!Create(1), T!Create(2), T!Op("wait"), T!Op("wait"), T!Op("sleep")>>
  <2>1. /\ p1 \in Seq(C) /\ Len(p1) = 5 /\ p1[1] = <<"create", 1>> /\ p1[2] = <<"create", 2>>
        /\ p1[3] = <<"wait">> /\ p1[4] = <<"wait">> /\ p1[5] = <<"sleep">>
    BY <1>3 DEF T!Create, T!Op
  <2>2. Script(0) = p1 \o <<T!Op("return")>>
    BY <1>1 DEF Script, T!Program, T!wait
  <2> HIDE DEF p1
  <2> DEFINE s == Script(0)
  <2>3. s \in Seq(C) /\ Ends1(s, p1)
    BY <1>3, <2>1, <2>2, OnePart
  <2>4. \A n : CallLeft(0, n) = s[Len(s) - n + 1]
    BY DEF CallLeft
  <2> HIDE DEF s
  <2>5. /\ Len(s) = 6 /\ s[1] = <<"create", 1>> /\ s[2] = <<"create", 2>> /\ s[3] = <<"wait">>
        /\ s[4] = <<"wait">> /\ s[5] = <<"sleep">> /\ s[6] = <<"return">>
    BY <2>1, <2>3 DEF Ends1
  <2>6. /\ 6 - 6 + 1 = 1 /\ 6 - 5 + 1 = 2 /\ 6 - 4 + 1 = 3 /\ 6 - 3 + 1 = 4 /\ 6 - 2 + 1 = 5
        /\ 6 - 1 + 1 = 6
    OBVIOUS
  <2>7. QED BY <2>3, <2>4, <2>5, <2>6, ZenonT(60) DEF s
<1>5. /\ Script(1) \in Seq(C) /\ Len(Script(1)) = 1 /\ CallLeft(1, 1) = <<"return">>
  <2> DEFINE p1 == <<>>
  <2>1. /\ p1 \in Seq(C) /\ Len(p1) = 0
    OBVIOUS
  <2>2. Script(1) = p1 \o <<T!Op("return")>>
    BY <1>1 DEF Script, T!Program, T!wait
  <2> HIDE DEF p1
  <2> DEFINE s == Script(1)
  <2>3. s \in Seq(C) /\ Ends1(s, p1)
    BY <1>3, <2>1, <2>2, OnePart
  <2>4. \A n : CallLeft(1, n) = s[Len(s) - n + 1]
    BY DEF CallLeft
  <2> HIDE DEF s
  <2>5. /\ Len(s) = 1 /\ s[1] = <<"return">>
    BY <2>1, <2>3 DEF Ends1
  <2>6. /\ 1 - 1 + 1 = 1
    OBVIOUS
  <2>7. QED BY <2>3, <2>4, <2>5, <2>6, Zenon DEF s
<1>6. /\ Script(2) \in Seq(C) /\ Len(Script(2)) = 1 /\ CallLeft(2, 1) = <<"return">>
  <2> DEFINE p1 == <<>>
  <2>1. /\ p1 \in Seq(C) /\ Len(p1) = 0
    OBVIOUS
  <2>2. Script(2) = p1 \o <<T!Op("return")>>
    BY <1>1 DEF Script, T!Program, T!wait
  <2> HIDE DEF p1
  <2> DEFINE s == Script(2)
  <2>3. s \in Seq(C) /\ Ends1(s, p1)
    BY <1>3, <2>1, <2>2, OnePart
  <2>4. \A n : CallLeft(2, n) = s[Len(s) - n + 1]
    BY DEF CallLeft
  <2> HIDE DEF s
  <2>5. /\ Len(s) = 1 /\ s[1] = <<"return">>
    BY <2>1, <2>3 DEF Ends1
  <2>6. /\ 1 - 1 + 1 = 1
    OBVIOUS
  <2>7. QED BY <2>3, <2>4, <2>5, <2>6, Zenon DEF s
<1>7. \A t \in T!Tasks \ {0, 1, 2} : Script(t) = <<>>
  BY <1>1 DEF Script, T!Program, T!wait
<1>8. QED BY <1>1, <1>4, <1>5, <1>6, <1>7 DEF C

LEMMA WaitpidScripts ==
    ASSUME prog = "waitpid"
    PROVE  /\ Script(0) \in Seq(Allowed(prog)) /\ Len(Script(0)) = 3
           /\ CallLeft(0, 3) = <<"create", 1>> /\ CallLeft(0, 2) = <<"wait">>
           /\ CallLeft(0, 1) = <<"return">> /\ Script(1) \in Seq(Allowed(prog))
           /\ Len(Script(1)) = 2 /\ CallLeft(1, 2) = <<"sleep">>
           /\ CallLeft(1, 1) = <<"return">> /\ \A t \in T!Tasks \ {0, 1} : Script(t) = <<>>
<1> DEFINE C == Allowed(prog)
<1>1. T!Programs[prog] = T!waitpid
  BY ProgramOf
<1>2. 1 \in T!Kids /\ 1 \in DOMAIN T!Programs[prog].body
  BY <1>1, ProgramConstants DEF T!Kids, T!Program, T!waitpid
<1>3. /\ T!Create(1) \in C /\ T!Op("wait") \in C /\ T!Op("sleep") \in C /\ T!Op("return") \in C
  BY <1>2, CallTypes DEF Names
<1> HIDE DEF C
<1>4. /\ Script(0) \in Seq(C) /\ Len(Script(0)) = 3 /\ CallLeft(0, 3) = <<"create", 1>>
      /\ CallLeft(0, 2) = <<"wait">> /\ CallLeft(0, 1) = <<"return">>
  <2> DEFINE p1 == <<T!Create(1), T!Op("wait")>>
  <2>1. /\ p1 \in Seq(C) /\ Len(p1) = 2 /\ p1[1] = <<"create", 1>> /\ p1[2] = <<"wait">>
    BY <1>3 DEF T!Create, T!Op
  <2>2. Script(0) = p1 \o <<T!Op("return")>>
    BY <1>1 DEF Script, T!Program, T!waitpid
  <2> HIDE DEF p1
  <2> DEFINE s == Script(0)
  <2>3. s \in Seq(C) /\ Ends1(s, p1)
    BY <1>3, <2>1, <2>2, OnePart
  <2>4. \A n : CallLeft(0, n) = s[Len(s) - n + 1]
    BY DEF CallLeft
  <2> HIDE DEF s
  <2>5. /\ Len(s) = 3 /\ s[1] = <<"create", 1>> /\ s[2] = <<"wait">> /\ s[3] = <<"return">>
    BY <2>1, <2>3 DEF Ends1
  <2>6. /\ 3 - 3 + 1 = 1 /\ 3 - 2 + 1 = 2 /\ 3 - 1 + 1 = 3
    OBVIOUS
  <2>7. QED BY <2>3, <2>4, <2>5, <2>6, Zenon DEF s
<1>5. /\ Script(1) \in Seq(C) /\ Len(Script(1)) = 2 /\ CallLeft(1, 2) = <<"sleep">>
      /\ CallLeft(1, 1) = <<"return">>
  <2> DEFINE p1 == <<T!Op("sleep")>>
  <2>1. /\ p1 \in Seq(C) /\ Len(p1) = 1 /\ p1[1] = <<"sleep">>
    BY <1>3 DEF T!Op
  <2>2. Script(1) = p1 \o <<T!Op("return")>>
    BY <1>1 DEF Script, T!Program, T!waitpid
  <2> HIDE DEF p1
  <2> DEFINE s == Script(1)
  <2>3. s \in Seq(C) /\ Ends1(s, p1)
    BY <1>3, <2>1, <2>2, OnePart
  <2>4. \A n : CallLeft(1, n) = s[Len(s) - n + 1]
    BY DEF CallLeft
  <2> HIDE DEF s
  <2>5. /\ Len(s) = 2 /\ s[1] = <<"sleep">> /\ s[2] = <<"return">>
    BY <2>1, <2>3 DEF Ends1
  <2>6. /\ 2 - 2 + 1 = 1 /\ 2 - 1 + 1 = 2
    OBVIOUS
  <2>7. QED BY <2>3, <2>4, <2>5, <2>6, Zenon DEF s
<1>6. \A t \in T!Tasks \ {0, 1} : Script(t) = <<>>
  BY <1>1 DEF Script, T!Program, T!waitpid
<1>7. QED BY <1>4, <1>5, <1>6 DEF C

LEMMA ZombieScripts ==
    ASSUME prog = "remove_zombie"
    PROVE  /\ Script(0) \in Seq(Allowed(prog)) /\ Len(Script(0)) = 9
           /\ CallLeft(0, 9) = <<"sigchld">> /\ CallLeft(0, 8) = <<"create", 1>>
           /\ CallLeft(0, 7) = <<"create", 2>> /\ CallLeft(0, 6) = <<"sleep">>
           /\ CallLeft(0, 5) = <<"sleep">> /\ CallLeft(0, 4) = <<"sleep">>
           /\ CallLeft(0, 3) = <<"sleep">> /\ CallLeft(0, 2) = <<"sleep">>
           /\ CallLeft(0, 1) = <<"return">> /\ Script(1) \in Seq(Allowed(prog))
           /\ Len(Script(1)) = 2 /\ CallLeft(1, 2) = <<"sleep">>
           /\ CallLeft(1, 1) = <<"return">> /\ Script(2) \in Seq(Allowed(prog))
           /\ Len(Script(2)) = 2 /\ CallLeft(2, 2) = <<"sleep">>
           /\ CallLeft(2, 1) = <<"return">> /\ \A t \in T!Tasks \ {0, 1, 2} : Script(t) = <<>>
<1> DEFINE C == Allowed(prog)
<1>1. T!Programs[prog] = T!remove_zombie
  BY ProgramOf
<1>2. 1 \in T!Kids /\ 1 \in DOMAIN T!Programs[prog].body /\ 2 \in T!Kids /\ 2 \in DOMAIN T!Programs[prog].body
  BY <1>1, ProgramConstants DEF T!Kids, T!Program, T!remove_zombie
<1>3. /\ T!Op("sigchld") \in C /\ T!Create(1) \in C /\ T!Create(2) \in C /\ T!Op("sleep") \in C
      /\ T!Op("return") \in C
  BY <1>2, CallTypes DEF Names
<1> HIDE DEF C
<1>4. /\ Script(0) \in Seq(C) /\ Len(Script(0)) = 9 /\ CallLeft(0, 9) = <<"sigchld">>
      /\ CallLeft(0, 8) = <<"create", 1>> /\ CallLeft(0, 7) = <<"create", 2>>
      /\ CallLeft(0, 6) = <<"sleep">> /\ CallLeft(0, 5) = <<"sleep">>
      /\ CallLeft(0, 4) = <<"sleep">> /\ CallLeft(0, 3) = <<"sleep">>
      /\ CallLeft(0, 2) = <<"sleep">> /\ CallLeft(0, 1) = <<"return">>
  <2> DEFINE p1 == <<T!Op("sigchld"), T!Create(1), T!Create(2)>>
             p2 == T!Repeat(5, <<T!Op("sleep")>>)
  <2>1. /\ p1 \in Seq(C) /\ Len(p1) = 3 /\ p1[1] = <<"sigchld">> /\ p1[2] = <<"create", 1>>
        /\ p1[3] = <<"create", 2>>
    BY <1>3 DEF T!Create, T!Op
  <2>2. /\ p2 \in Seq(C) /\ Len(p2) = 5 /\ p2[1] = <<"sleep">> /\ p2[2] = <<"sleep">>
        /\ p2[3] = <<"sleep">> /\ p2[4] = <<"sleep">> /\ p2[5] = <<"sleep">>
    BY <1>3, FiveSleeps DEF T!Op
  <2>3. Script(0) = (p1 \o p2) \o <<T!Op("return")>>
    BY <1>1 DEF Script, T!Program, T!remove_zombie
  <2> HIDE DEF p1, p2
  <2> DEFINE s == Script(0)
  <2>4. s \in Seq(C) /\ Ends2(s, p1, p2)
    BY <1>3, <2>1, <2>2, <2>3, TwoParts
  <2>5. \A n : CallLeft(0, n) = s[Len(s) - n + 1]
    BY DEF CallLeft
  <2> HIDE DEF s
  <2>6. /\ Len(s) = 9 /\ s[1] = <<"sigchld">> /\ s[2] = <<"create", 1>> /\ s[3] = <<"create", 2>>
        /\ s[4] = <<"sleep">> /\ s[5] = <<"sleep">> /\ s[6] = <<"sleep">> /\ s[7] = <<"sleep">>
        /\ s[8] = <<"sleep">> /\ s[9] = <<"return">>
    BY <2>1, <2>2, <2>4 DEF Ends2
  <2>7. /\ 9 - 9 + 1 = 1 /\ 9 - 8 + 1 = 2 /\ 9 - 7 + 1 = 3 /\ 9 - 6 + 1 = 4 /\ 9 - 5 + 1 = 5
        /\ 9 - 4 + 1 = 6 /\ 9 - 3 + 1 = 7 /\ 9 - 2 + 1 = 8 /\ 9 - 1 + 1 = 9
    OBVIOUS
  <2>8. /\ CallLeft(0, 9) = <<"sigchld">> /\ CallLeft(0, 8) = <<"create", 1>>
        /\ CallLeft(0, 7) = <<"create", 2>> /\ CallLeft(0, 6) = <<"sleep">>
        /\ CallLeft(0, 5) = <<"sleep">>
    BY <2>5, <2>6, <2>7, ZenonT(60)
  <2>9. CallLeft(0, 4) = s[6] /\ CallLeft(0, 3) = s[7] /\ CallLeft(0, 2) = s[8] /\ CallLeft(0, 1) = s[9]
    <3>1. Len(s) = 9
      BY <2>6
    <3>2. QED BY <2>5, <2>7, <3>1, Zenon
  <2>10. QED BY <2>4, <2>6, <2>8, <2>9 DEF s
<1>5. /\ Script(1) \in Seq(C) /\ Len(Script(1)) = 2 /\ CallLeft(1, 2) = <<"sleep">>
      /\ CallLeft(1, 1) = <<"return">>
  <2> DEFINE p1 == <<T!Op("sleep")>>
  <2>1. /\ p1 \in Seq(C) /\ Len(p1) = 1 /\ p1[1] = <<"sleep">>
    BY <1>3 DEF T!Op
  <2>2. Script(1) = p1 \o <<T!Op("return")>>
    BY <1>1 DEF Script, T!Program, T!remove_zombie
  <2> HIDE DEF p1
  <2> DEFINE s == Script(1)
  <2>3. s \in Seq(C) /\ Ends1(s, p1)
    BY <1>3, <2>1, <2>2, OnePart
  <2>4. \A n : CallLeft(1, n) = s[Len(s) - n + 1]
    BY DEF CallLeft
  <2> HIDE DEF s
  <2>5. /\ Len(s) = 2 /\ s[1] = <<"sleep">> /\ s[2] = <<"return">>
    BY <2>1, <2>3 DEF Ends1
  <2>6. /\ 2 - 2 + 1 = 1 /\ 2 - 1 + 1 = 2
    OBVIOUS
  <2>7. QED BY <2>3, <2>4, <2>5, <2>6, Zenon DEF s
<1>6. /\ Script(2) \in Seq(C) /\ Len(Script(2)) = 2 /\ CallLeft(2, 2) = <<"sleep">>
      /\ CallLeft(2, 1) = <<"return">>
  <2> DEFINE p1 == <<T!Op("sleep")>>
  <2>1. /\ p1 \in Seq(C) /\ Len(p1) = 1 /\ p1[1] = <<"sleep">>
    BY <1>3 DEF T!Op
  <2>2. Script(2) = p1 \o <<T!Op("return")>>
    BY <1>1 DEF Script, T!Program, T!remove_zombie
  <2> HIDE DEF p1
  <2> DEFINE s == Script(2)
  <2>3. s \in Seq(C) /\ Ends1(s, p1)
    BY <1>3, <2>1, <2>2, OnePart
  <2>4. \A n : CallLeft(2, n) = s[Len(s) - n + 1]
    BY DEF CallLeft
  <2> HIDE DEF s
  <2>5. /\ Len(s) = 2 /\ s[1] = <<"sleep">> /\ s[2] = <<"return">>
    BY <2>1, <2>3 DEF Ends1
  <2>6. /\ 2 - 2 + 1 = 1 /\ 2 - 1 + 1 = 2
    OBVIOUS
  <2>7. QED BY <2>3, <2>4, <2>5, <2>6, Zenon DEF s
<1>7. \A t \in T!Tasks \ {0, 1, 2} : Script(t) = <<>>
  BY <1>1 DEF Script, T!Program, T!remove_zombie
<1>8. QED BY <1>1, <1>4, <1>5, <1>6, <1>7 DEF C

LEMMA Pipe1Scripts ==
    ASSUME prog = "pipe1"
    PROVE  /\ Script(0) \in Seq(Allowed(prog)) /\ Len(Script(0)) = 3
           /\ CallLeft(0, 3) = <<"create", 1>> /\ CallLeft(0, 2) = <<"recv", 1>>
           /\ CallLeft(0, 1) = <<"return">> /\ Script(1) \in Seq(Allowed(prog))
           /\ Len(Script(1)) = 2 /\ CallLeft(1, 2) = <<"send", 1, "str1">>
           /\ CallLeft(1, 1) = <<"return">> /\ \A t \in T!Tasks \ {0, 1} : Script(t) = <<>>
<1> DEFINE C == Allowed(prog)
<1>1. T!Programs[prog] = T!pipe1
  BY ProgramOf
<1>2. 1 \in T!Kids /\ 1 \in DOMAIN T!Programs[prog].body
  BY <1>1, ProgramConstants DEF T!Kids, T!Program, T!pipe1
<1>3. /\ T!Create(1) \in C /\ T!Recv(1) \in C /\ T!Send(1, "str1") \in C /\ T!Op("return") \in C
  BY <1>2, CallTypes DEF Names
<1> HIDE DEF C
<1>4. /\ Script(0) \in Seq(C) /\ Len(Script(0)) = 3 /\ CallLeft(0, 3) = <<"create", 1>>
      /\ CallLeft(0, 2) = <<"recv", 1>> /\ CallLeft(0, 1) = <<"return">>
  <2> DEFINE p1 == <<T!Create(1), T!Recv(1)>>
  <2>1. /\ p1 \in Seq(C) /\ Len(p1) = 2 /\ p1[1] = <<"create", 1>> /\ p1[2] = <<"recv", 1>>
    BY <1>3 DEF T!Create, T!Recv
  <2>2. Script(0) = p1 \o <<T!Op("return")>>
    BY <1>1 DEF Script, T!Program, T!pipe1
  <2> HIDE DEF p1
  <2> DEFINE s == Script(0)
  <2>3. s \in Seq(C) /\ Ends1(s, p1)
    BY <1>3, <2>1, <2>2, OnePart
  <2>4. \A n : CallLeft(0, n) = s[Len(s) - n + 1]
    BY DEF CallLeft
  <2> HIDE DEF s
  <2>5. /\ Len(s) = 3 /\ s[1] = <<"create", 1>> /\ s[2] = <<"recv", 1>> /\ s[3] = <<"return">>
    BY <2>1, <2>3 DEF Ends1
  <2>6. /\ 3 - 3 + 1 = 1 /\ 3 - 2 + 1 = 2 /\ 3 - 1 + 1 = 3
    OBVIOUS
  <2>7. QED BY <2>3, <2>4, <2>5, <2>6, Zenon DEF s
<1>5. /\ Script(1) \in Seq(C) /\ Len(Script(1)) = 2 /\ CallLeft(1, 2) = <<"send", 1, "str1">>
      /\ CallLeft(1, 1) = <<"return">>
  <2> DEFINE p1 == <<T!Send(1, "str1")>>
  <2>1. /\ p1 \in Seq(C) /\ Len(p1) = 1 /\ p1[1] = <<"send", 1, "str1">>
    BY <1>3 DEF T!Send
  <2>2. Script(1) = p1 \o <<T!Op("return")>>
    BY <1>1 DEF Script, T!Program, T!pipe1
  <2> HIDE DEF p1
  <2> DEFINE s == Script(1)
  <2>3. s \in Seq(C) /\ Ends1(s, p1)
    BY <1>3, <2>1, <2>2, OnePart
  <2>4. \A n : CallLeft(1, n) = s[Len(s) - n + 1]
    BY DEF CallLeft
  <2> HIDE DEF s
  <2>5. /\ Len(s) = 2 /\ s[1] = <<"send", 1, "str1">> /\ s[2] = <<"return">>
    BY <2>1, <2>3 DEF Ends1
  <2>6. /\ 2 - 2 + 1 = 1 /\ 2 - 1 + 1 = 2
    OBVIOUS
  <2>7. QED BY <2>3, <2>4, <2>5, <2>6, Zenon DEF s
<1>6. \A t \in T!Tasks \ {0, 1} : Script(t) = <<>>
  BY <1>1 DEF Script, T!Program, T!pipe1
<1>7. QED BY <1>4, <1>5, <1>6 DEF C

LEMMA Pipe2Scripts ==
    ASSUME prog = "pipe2"
    PROVE  /\ Script(0) \in Seq(Allowed(prog)) /\ Len(Script(0)) = 5
           /\ CallLeft(0, 5) = <<"create", 1>> /\ CallLeft(0, 4) = <<"recv", 1>>
           /\ CallLeft(0, 3) = <<"send", 1, "str2">> /\ CallLeft(0, 2) = <<"sleep">>
           /\ CallLeft(0, 1) = <<"return">> /\ Script(1) \in Seq(Allowed(prog))
           /\ Len(Script(1)) = 4 /\ CallLeft(1, 4) = <<"send", 1, "str1">>
           /\ CallLeft(1, 3) = <<"sleep">> /\ CallLeft(1, 2) = <<"recv", 1>>
           /\ CallLeft(1, 1) = <<"return">> /\ \A t \in T!Tasks \ {0, 1} : Script(t) = <<>>
<1> DEFINE C == Allowed(prog)
<1>1. T!Programs[prog] = T!pipe2
  BY ProgramOf
<1>2. 1 \in T!Kids /\ 1 \in DOMAIN T!Programs[prog].body
  BY <1>1, ProgramConstants DEF T!Kids, T!Program, T!pipe2
<1>3. /\ T!Create(1) \in C /\ T!Recv(1) \in C /\ T!Send(1, "str2") \in C /\ T!Op("sleep") \in C
      /\ T!Send(1, "str1") \in C /\ T!Op("return") \in C
  BY <1>2, CallTypes DEF Names
<1> HIDE DEF C
<1>4. /\ Script(0) \in Seq(C) /\ Len(Script(0)) = 5 /\ CallLeft(0, 5) = <<"create", 1>>
      /\ CallLeft(0, 4) = <<"recv", 1>> /\ CallLeft(0, 3) = <<"send", 1, "str2">>
      /\ CallLeft(0, 2) = <<"sleep">> /\ CallLeft(0, 1) = <<"return">>
  <2> DEFINE p1 == <<T!Create(1), T!Recv(1), T!Send(1, "str2"), T!Op("sleep")>>
  <2>1. /\ p1 \in Seq(C) /\ Len(p1) = 4 /\ p1[1] = <<"create", 1>> /\ p1[2] = <<"recv", 1>>
        /\ p1[3] = <<"send", 1, "str2">> /\ p1[4] = <<"sleep">>
    BY <1>3 DEF T!Create, T!Op, T!Recv, T!Send
  <2>2. Script(0) = p1 \o <<T!Op("return")>>
    BY <1>1 DEF Script, T!Program, T!pipe2
  <2> HIDE DEF p1
  <2> DEFINE s == Script(0)
  <2>3. s \in Seq(C) /\ Ends1(s, p1)
    BY <1>3, <2>1, <2>2, OnePart
  <2>4. \A n : CallLeft(0, n) = s[Len(s) - n + 1]
    BY DEF CallLeft
  <2> HIDE DEF s
  <2>5. /\ Len(s) = 5 /\ s[1] = <<"create", 1>> /\ s[2] = <<"recv", 1>>
        /\ s[3] = <<"send", 1, "str2">> /\ s[4] = <<"sleep">> /\ s[5] = <<"return">>
    BY <2>1, <2>3 DEF Ends1
  <2>6. /\ 5 - 5 + 1 = 1 /\ 5 - 4 + 1 = 2 /\ 5 - 3 + 1 = 3 /\ 5 - 2 + 1 = 4 /\ 5 - 1 + 1 = 5
    OBVIOUS
  <2>7. QED BY <2>3, <2>4, <2>5, <2>6, Zenon DEF s
<1>5. /\ Script(1) \in Seq(C) /\ Len(Script(1)) = 4 /\ CallLeft(1, 4) = <<"send", 1, "str1">>
      /\ CallLeft(1, 3) = <<"sleep">> /\ CallLeft(1, 2) = <<"recv", 1>>
      /\ CallLeft(1, 1) = <<"return">>
  <2> DEFINE p1 == <<T!Send(1, "str1"), T!Op("sleep"), T!Recv(1)>>
  <2>1. /\ p1 \in Seq(C) /\ Len(p1) = 3 /\ p1[1] = <<"send", 1, "str1">> /\ p1[2] = <<"sleep">>
        /\ p1[3] = <<"recv", 1>>
    BY <1>3 DEF T!Op, T!Recv, T!Send
  <2>2. Script(1) = p1 \o <<T!Op("return")>>
    BY <1>1 DEF Script, T!Program, T!pipe2
  <2> HIDE DEF p1
  <2> DEFINE s == Script(1)
  <2>3. s \in Seq(C) /\ Ends1(s, p1)
    BY <1>3, <2>1, <2>2, OnePart
  <2>4. \A n : CallLeft(1, n) = s[Len(s) - n + 1]
    BY DEF CallLeft
  <2> HIDE DEF s
  <2>5. /\ Len(s) = 4 /\ s[1] = <<"send", 1, "str1">> /\ s[2] = <<"sleep">> /\ s[3] = <<"recv", 1>>
        /\ s[4] = <<"return">>
    BY <2>1, <2>3 DEF Ends1
  <2>6. /\ 4 - 4 + 1 = 1 /\ 4 - 3 + 1 = 2 /\ 4 - 2 + 1 = 3 /\ 4 - 1 + 1 = 4
    OBVIOUS
  <2>7. QED BY <2>3, <2>4, <2>5, <2>6, Zenon DEF s
<1>6. \A t \in T!Tasks \ {0, 1} : Script(t) = <<>>
  BY <1>1 DEF Script, T!Program, T!pipe2
<1>7. QED BY <1>4, <1>5, <1>6 DEF C

LEMMA Pipe3Scripts ==
    ASSUME prog = "pipe3"
    PROVE  /\ Script(0) \in Seq(Allowed(prog)) /\ Len(Script(0)) = 4
           /\ CallLeft(0, 4) = <<"create", 1>> /\ CallLeft(0, 3) = <<"recv", 1>>
           /\ CallLeft(0, 2) = <<"send", 2, "str2">> /\ CallLeft(0, 1) = <<"return">>
           /\ Script(1) \in Seq(Allowed(prog)) /\ Len(Script(1)) = 3
           /\ CallLeft(1, 3) = <<"send", 1, "str1">> /\ CallLeft(1, 2) = <<"recv", 2>>
           /\ CallLeft(1, 1) = <<"return">> /\ \A t \in T!Tasks \ {0, 1} : Script(t) = <<>>
<1> DEFINE C == Allowed(prog)
<1>1. T!Programs[prog] = T!pipe3
  BY ProgramOf
<1>2. 1 \in T!Kids /\ 1 \in DOMAIN T!Programs[prog].body
  BY <1>1, ProgramConstants DEF T!Kids, T!Program, T!pipe3
<1>3. /\ T!Create(1) \in C /\ T!Recv(1) \in C /\ T!Send(2, "str2") \in C
      /\ T!Send(1, "str1") \in C /\ T!Recv(2) \in C /\ T!Op("return") \in C
  BY <1>2, CallTypes DEF Names
<1> HIDE DEF C
<1>4. /\ Script(0) \in Seq(C) /\ Len(Script(0)) = 4 /\ CallLeft(0, 4) = <<"create", 1>>
      /\ CallLeft(0, 3) = <<"recv", 1>> /\ CallLeft(0, 2) = <<"send", 2, "str2">>
      /\ CallLeft(0, 1) = <<"return">>
  <2> DEFINE p1 == <<T!Create(1), T!Recv(1), T!Send(2, "str2")>>
  <2>1. /\ p1 \in Seq(C) /\ Len(p1) = 3 /\ p1[1] = <<"create", 1>> /\ p1[2] = <<"recv", 1>>
        /\ p1[3] = <<"send", 2, "str2">>
    BY <1>3 DEF T!Create, T!Recv, T!Send
  <2>2. Script(0) = p1 \o <<T!Op("return")>>
    BY <1>1 DEF Script, T!Program, T!pipe3
  <2> HIDE DEF p1
  <2> DEFINE s == Script(0)
  <2>3. s \in Seq(C) /\ Ends1(s, p1)
    BY <1>3, <2>1, <2>2, OnePart
  <2>4. \A n : CallLeft(0, n) = s[Len(s) - n + 1]
    BY DEF CallLeft
  <2> HIDE DEF s
  <2>5. /\ Len(s) = 4 /\ s[1] = <<"create", 1>> /\ s[2] = <<"recv", 1>>
        /\ s[3] = <<"send", 2, "str2">> /\ s[4] = <<"return">>
    BY <2>1, <2>3 DEF Ends1
  <2>6. /\ 4 - 4 + 1 = 1 /\ 4 - 3 + 1 = 2 /\ 4 - 2 + 1 = 3 /\ 4 - 1 + 1 = 4
    OBVIOUS
  <2>7. QED BY <2>3, <2>4, <2>5, <2>6, Zenon DEF s
<1>5. /\ Script(1) \in Seq(C) /\ Len(Script(1)) = 3 /\ CallLeft(1, 3) = <<"send", 1, "str1">>
      /\ CallLeft(1, 2) = <<"recv", 2>> /\ CallLeft(1, 1) = <<"return">>
  <2> DEFINE p1 == <<T!Send(1, "str1"), T!Recv(2)>>
  <2>1. /\ p1 \in Seq(C) /\ Len(p1) = 2 /\ p1[1] = <<"send", 1, "str1">>
        /\ p1[2] = <<"recv", 2>>
    BY <1>3 DEF T!Recv, T!Send
  <2>2. Script(1) = p1 \o <<T!Op("return")>>
    BY <1>1 DEF Script, T!Program, T!pipe3
  <2> HIDE DEF p1
  <2> DEFINE s == Script(1)
  <2>3. s \in Seq(C) /\ Ends1(s, p1)
    BY <1>3, <2>1, <2>2, OnePart
  <2>4. \A n : CallLeft(1, n) = s[Len(s) - n + 1]
    BY DEF CallLeft
  <2> HIDE DEF s
  <2>5. /\ Len(s) = 3 /\ s[1] = <<"send", 1, "str1">> /\ s[2] = <<"recv", 2>> /\ s[3] = <<"return">>
    BY <2>1, <2>3 DEF Ends1
  <2>6. /\ 3 - 3 + 1 = 1 /\ 3 - 2 + 1 = 2 /\ 3 - 1 + 1 = 3
    OBVIOUS
  <2>7. QED BY <2>3, <2>4, <2>5, <2>6, Zenon DEF s
<1>6. \A t \in T!Tasks \ {0, 1} : Script(t) = <<>>
  BY <1>1 DEF Script, T!Program, T!pipe3
<1>7. QED BY <1>4, <1>5, <1>6 DEF C

LEMMA GiveScripts ==
    ASSUME prog = "give_and_take"
    PROVE  /\ Script(0) \in Seq(Allowed(prog)) /\ Len(Script(0)) = 5
           /\ CallLeft(0, 5) = <<"create", 1>> /\ CallLeft(0, 4) = <<"recv", 1>>
           /\ CallLeft(0, 3) = <<"send", 2, "str2">> /\ CallLeft(0, 2) = <<"recv", 1>>
           /\ CallLeft(0, 1) = <<"return">> /\ Script(1) \in Seq(Allowed(prog))
           /\ Len(Script(1)) = 4 /\ CallLeft(1, 4) = <<"send", 1, "str1">>
           /\ CallLeft(1, 3) = <<"recv", 2>> /\ CallLeft(1, 2) = <<"send", 1, "str3">>
           /\ CallLeft(1, 1) = <<"return">> /\ \A t \in T!Tasks \ {0, 1} : Script(t) = <<>>
<1> DEFINE C == Allowed(prog)
<1>1. T!Programs[prog] = T!give_and_take
  BY ProgramOf
<1>2. 1 \in T!Kids /\ 1 \in DOMAIN T!Programs[prog].body
  BY <1>1, ProgramConstants DEF T!Kids, T!Program, T!give_and_take
<1>3. /\ T!Create(1) \in C /\ T!Recv(1) \in C /\ T!Send(2, "str2") \in C
      /\ T!Send(1, "str1") \in C /\ T!Recv(2) \in C /\ T!Send(1, "str3") \in C
      /\ T!Op("return") \in C
  BY <1>2, CallTypes DEF Names
<1> HIDE DEF C
<1>4. /\ Script(0) \in Seq(C) /\ Len(Script(0)) = 5 /\ CallLeft(0, 5) = <<"create", 1>>
      /\ CallLeft(0, 4) = <<"recv", 1>> /\ CallLeft(0, 3) = <<"send", 2, "str2">>
      /\ CallLeft(0, 2) = <<"recv", 1>> /\ CallLeft(0, 1) = <<"return">>
  <2> DEFINE p1 == <<T!Create(1), T!Recv(1), T!Send(2, "str2"), T!Recv(1)>>
  <2>1. /\ p1 \in Seq(C) /\ Len(p1) = 4 /\ p1[1] = <<"create", 1>> /\ p1[2] = <<"recv", 1>>
        /\ p1[3] = <<"send", 2, "str2">> /\ p1[4] = <<"recv", 1>>
    BY <1>3 DEF T!Create, T!Recv, T!Send
  <2>2. Script(0) = p1 \o <<T!Op("return")>>
    BY <1>1 DEF Script, T!Program, T!give_and_take
  <2> HIDE DEF p1
  <2> DEFINE s == Script(0)
  <2>3. s \in Seq(C) /\ Ends1(s, p1)
    BY <1>3, <2>1, <2>2, OnePart
  <2>4. \A n : CallLeft(0, n) = s[Len(s) - n + 1]
    BY DEF CallLeft
  <2> HIDE DEF s
  <2>5. /\ Len(s) = 5 /\ s[1] = <<"create", 1>> /\ s[2] = <<"recv", 1>>
        /\ s[3] = <<"send", 2, "str2">> /\ s[4] = <<"recv", 1>> /\ s[5] = <<"return">>
    BY <2>1, <2>3 DEF Ends1
  <2>6. /\ 5 - 5 + 1 = 1 /\ 5 - 4 + 1 = 2 /\ 5 - 3 + 1 = 3 /\ 5 - 2 + 1 = 4 /\ 5 - 1 + 1 = 5
    OBVIOUS
  <2>7. QED BY <2>3, <2>4, <2>5, <2>6, Zenon DEF s
<1>5. /\ Script(1) \in Seq(C) /\ Len(Script(1)) = 4 /\ CallLeft(1, 4) = <<"send", 1, "str1">>
      /\ CallLeft(1, 3) = <<"recv", 2>> /\ CallLeft(1, 2) = <<"send", 1, "str3">>
      /\ CallLeft(1, 1) = <<"return">>
  <2> DEFINE p1 == <<T!Send(1, "str1"), T!Recv(2), T!Send(1, "str3")>>
  <2>1. /\ p1 \in Seq(C) /\ Len(p1) = 3 /\ p1[1] = <<"send", 1, "str1">>
        /\ p1[2] = <<"recv", 2>> /\ p1[3] = <<"send", 1, "str3">>
    BY <1>3 DEF T!Recv, T!Send
  <2>2. Script(1) = p1 \o <<T!Op("return")>>
    BY <1>1 DEF Script, T!Program, T!give_and_take
  <2> HIDE DEF p1
  <2> DEFINE s == Script(1)
  <2>3. s \in Seq(C) /\ Ends1(s, p1)
    BY <1>3, <2>1, <2>2, OnePart
  <2>4. \A n : CallLeft(1, n) = s[Len(s) - n + 1]
    BY DEF CallLeft
  <2> HIDE DEF s
  <2>5. /\ Len(s) = 4 /\ s[1] = <<"send", 1, "str1">> /\ s[2] = <<"recv", 2>>
        /\ s[3] = <<"send", 1, "str3">> /\ s[4] = <<"return">>
    BY <2>1, <2>3 DEF Ends1
  <2>6. /\ 4 - 4 + 1 = 1 /\ 4 - 3 + 1 = 2 /\ 4 - 2 + 1 = 3 /\ 4 - 1 + 1 = 4
    OBVIOUS
  <2>7. QED BY <2>3, <2>4, <2>5, <2>6, Zenon DEF s
<1>6. \A t \in T!Tasks \ {0, 1} : Script(t) = <<>>
  BY <1>1 DEF Script, T!Program, T!give_and_take
<1>7. QED BY <1>4, <1>5, <1>6 DEF C

LEMMA Thread2Scripts ==
    ASSUME prog = "thread2"
    PROVE  /\ Script(0) \in Seq(Allowed(prog)) /\ Len(Script(0)) = 4
           /\ CallLeft(0, 4) = <<"create", 1>> /\ CallLeft(0, 3) = <<"join", 1>>
           /\ CallLeft(0, 2) = <<"look">> /\ CallLeft(0, 1) = <<"return">>
           /\ Script(1) \in Seq(Allowed(prog)) /\ Len(Script(1)) = 3
           /\ CallLeft(1, 3) = <<"set", "message">> /\ CallLeft(1, 2) = <<"sleep">>
           /\ CallLeft(1, 1) = <<"return">> /\ \A t \in T!Tasks \ {0, 1} : Script(t) = <<>>
<1> DEFINE C == Allowed(prog)
<1>1. T!Programs[prog] = T!thread2
  BY ProgramOf
<1>2. 1 \in T!Kids /\ 1 \in DOMAIN T!Programs[prog].body
  BY <1>1, ProgramConstants DEF T!Kids, T!Program, T!thread2
<1>3. /\ T!Create(1) \in C /\ T!Join(1) \in C /\ T!Op("look") \in C /\ T!Set("message") \in C
      /\ T!Op("sleep") \in C /\ T!Op("return") \in C
  BY <1>2, CallTypes DEF Names
<1> HIDE DEF C
<1>4. /\ Script(0) \in Seq(C) /\ Len(Script(0)) = 4 /\ CallLeft(0, 4) = <<"create", 1>>
      /\ CallLeft(0, 3) = <<"join", 1>> /\ CallLeft(0, 2) = <<"look">>
      /\ CallLeft(0, 1) = <<"return">>
  <2> DEFINE p1 == <<T!Create(1), T!Join(1), T!Op("look")>>
  <2>1. /\ p1 \in Seq(C) /\ Len(p1) = 3 /\ p1[1] = <<"create", 1>> /\ p1[2] = <<"join", 1>>
        /\ p1[3] = <<"look">>
    BY <1>3 DEF T!Create, T!Join, T!Op
  <2>2. Script(0) = p1 \o <<T!Op("return")>>
    BY <1>1 DEF Script, T!Program, T!thread2
  <2> HIDE DEF p1
  <2> DEFINE s == Script(0)
  <2>3. s \in Seq(C) /\ Ends1(s, p1)
    BY <1>3, <2>1, <2>2, OnePart
  <2>4. \A n : CallLeft(0, n) = s[Len(s) - n + 1]
    BY DEF CallLeft
  <2> HIDE DEF s
  <2>5. /\ Len(s) = 4 /\ s[1] = <<"create", 1>> /\ s[2] = <<"join", 1>> /\ s[3] = <<"look">>
        /\ s[4] = <<"return">>
    BY <2>1, <2>3 DEF Ends1
  <2>6. /\ 4 - 4 + 1 = 1 /\ 4 - 3 + 1 = 2 /\ 4 - 2 + 1 = 3 /\ 4 - 1 + 1 = 4
    OBVIOUS
  <2>7. QED BY <2>3, <2>4, <2>5, <2>6, Zenon DEF s
<1>5. /\ Script(1) \in Seq(C) /\ Len(Script(1)) = 3 /\ CallLeft(1, 3) = <<"set", "message">>
      /\ CallLeft(1, 2) = <<"sleep">> /\ CallLeft(1, 1) = <<"return">>
  <2> DEFINE p1 == <<T!Set("message"), T!Op("sleep")>>
  <2>1. /\ p1 \in Seq(C) /\ Len(p1) = 2 /\ p1[1] = <<"set", "message">> /\ p1[2] = <<"sleep">>
    BY <1>3 DEF T!Op, T!Set
  <2>2. Script(1) = p1 \o <<T!Op("return")>>
    BY <1>1 DEF Script, T!Program, T!thread2
  <2> HIDE DEF p1
  <2> DEFINE s == Script(1)
  <2>3. s \in Seq(C) /\ Ends1(s, p1)
    BY <1>3, <2>1, <2>2, OnePart
  <2>4. \A n : CallLeft(1, n) = s[Len(s) - n + 1]
    BY DEF CallLeft
  <2> HIDE DEF s
  <2>5. /\ Len(s) = 3 /\ s[1] = <<"set", "message">> /\ s[2] = <<"sleep">> /\ s[3] = <<"return">>
    BY <2>1, <2>3 DEF Ends1
  <2>6. /\ 3 - 3 + 1 = 1 /\ 3 - 2 + 1 = 2 /\ 3 - 1 + 1 = 3
    OBVIOUS
  <2>7. QED BY <2>3, <2>4, <2>5, <2>6, Zenon DEF s
<1>6. \A t \in T!Tasks \ {0, 1} : Script(t) = <<>>
  BY <1>1 DEF Script, T!Program, T!thread2
<1>7. QED BY <1>4, <1>5, <1>6 DEF C

LEMMA Thread3Scripts ==
    ASSUME prog = "thread3"
    PROVE  /\ Script(0) \in Seq(Allowed(prog)) /\ Len(Script(0)) = 6
           /\ CallLeft(0, 6) = <<"create", 1>> /\ CallLeft(0, 5) = <<"create", 2>>
           /\ CallLeft(0, 4) = <<"join", 1>> /\ CallLeft(0, 3) = <<"join", 2>>
           /\ CallLeft(0, 2) = <<"print">> /\ CallLeft(0, 1) = <<"return">>
           /\ Script(1) \in Seq(Allowed(prog)) /\ Len(Script(1)) = 5
           /\ CallLeft(1, 5) = <<"load">> /\ CallLeft(1, 4) = <<"store", 1>>
           /\ CallLeft(1, 3) = <<"load">> /\ CallLeft(1, 2) = <<"store", 2>>
           /\ CallLeft(1, 1) = <<"return">> /\ Script(2) \in Seq(Allowed(prog))
           /\ Len(Script(2)) = 5 /\ CallLeft(2, 5) = <<"load">>
           /\ CallLeft(2, 4) = <<"store", 3>> /\ CallLeft(2, 3) = <<"load">>
           /\ CallLeft(2, 2) = <<"store", 4>> /\ CallLeft(2, 1) = <<"return">>
           /\ \A t \in T!Tasks \ {0, 1, 2} : Script(t) = <<>>
<1> DEFINE C == Allowed(prog)
<1>1. T!Programs[prog] = T!thread3
  BY ProgramOf
<1>2. 1 \in T!Kids /\ 1 \in DOMAIN T!Programs[prog].body /\ 2 \in T!Kids /\ 2 \in DOMAIN T!Programs[prog].body
  BY <1>1, ProgramConstants DEF T!Kids, T!Program, T!thread3
<1>3. /\ T!Create(1) \in C /\ T!Create(2) \in C /\ T!Join(1) \in C /\ T!Join(2) \in C
      /\ T!Op("print") \in C /\ <<"load">> \in C /\ <<"store", 1>> \in C /\ <<"store", 2>> \in C
      /\ <<"store", 3>> \in C /\ <<"store", 4>> \in C /\ T!Op("return") \in C
  BY <1>2, CallTypes DEF Names
<1> HIDE DEF C
<1>4. /\ Script(0) \in Seq(C) /\ Len(Script(0)) = 6 /\ CallLeft(0, 6) = <<"create", 1>>
      /\ CallLeft(0, 5) = <<"create", 2>> /\ CallLeft(0, 4) = <<"join", 1>>
      /\ CallLeft(0, 3) = <<"join", 2>> /\ CallLeft(0, 2) = <<"print">>
      /\ CallLeft(0, 1) = <<"return">>
  <2> DEFINE p1 == <<T!Create(1), T!Create(2), T!Join(1), T!Join(2), T!Op("print")>>
  <2>1. /\ p1 \in Seq(C) /\ Len(p1) = 5 /\ p1[1] = <<"create", 1>> /\ p1[2] = <<"create", 2>>
        /\ p1[3] = <<"join", 1>> /\ p1[4] = <<"join", 2>> /\ p1[5] = <<"print">>
    BY <1>3 DEF T!Create, T!Join, T!Op
  <2>2. Script(0) = p1 \o <<T!Op("return")>>
    BY <1>1 DEF Script, T!Program, T!thread3
  <2> HIDE DEF p1
  <2> DEFINE s == Script(0)
  <2>3. s \in Seq(C) /\ Ends1(s, p1)
    BY <1>3, <2>1, <2>2, OnePart
  <2>4. \A n : CallLeft(0, n) = s[Len(s) - n + 1]
    BY DEF CallLeft
  <2> HIDE DEF s
  <2>5. /\ Len(s) = 6 /\ s[1] = <<"create", 1>> /\ s[2] = <<"create", 2>> /\ s[3] = <<"join", 1>>
        /\ s[4] = <<"join", 2>> /\ s[5] = <<"print">> /\ s[6] = <<"return">>
    BY <2>1, <2>3 DEF Ends1
  <2>6. /\ 6 - 6 + 1 = 1 /\ 6 - 5 + 1 = 2 /\ 6 - 4 + 1 = 3 /\ 6 - 3 + 1 = 4 /\ 6 - 2 + 1 = 5
        /\ 6 - 1 + 1 = 6
    OBVIOUS
  <2>7. QED BY <2>3, <2>4, <2>5, <2>6, ZenonT(60) DEF s
<1>5. /\ Script(1) \in Seq(C) /\ Len(Script(1)) = 5 /\ CallLeft(1, 5) = <<"load">>
      /\ CallLeft(1, 4) = <<"store", 1>> /\ CallLeft(1, 3) = <<"load">>
      /\ CallLeft(1, 2) = <<"store", 2>> /\ CallLeft(1, 1) = <<"return">>
  <2> DEFINE p1 == T!Add(1)
             p2 == T!Add(2)
  <2>1. /\ p1 \in Seq(C) /\ Len(p1) = 2 /\ p1[1] = <<"load">> /\ p1[2] = <<"store", 1>>
    BY <1>3 DEF T!Add
  <2>2. /\ p2 \in Seq(C) /\ Len(p2) = 2 /\ p2[1] = <<"load">> /\ p2[2] = <<"store", 2>>
    BY <1>3 DEF T!Add
  <2>3. Script(1) = (p1 \o p2) \o <<T!Op("return")>>
    BY <1>1 DEF Script, T!Program, T!thread3
  <2> HIDE DEF p1, p2
  <2> DEFINE s == Script(1)
  <2>4. s \in Seq(C) /\ Ends2(s, p1, p2)
    BY <1>3, <2>1, <2>2, <2>3, TwoParts
  <2>5. \A n : CallLeft(1, n) = s[Len(s) - n + 1]
    BY DEF CallLeft
  <2> HIDE DEF s
  <2>6. /\ Len(s) = 5 /\ s[1] = <<"load">> /\ s[2] = <<"store", 1>> /\ s[3] = <<"load">>
        /\ s[4] = <<"store", 2>> /\ s[5] = <<"return">>
    BY <2>1, <2>2, <2>4 DEF Ends2
  <2>7. /\ 5 - 5 + 1 = 1 /\ 5 - 4 + 1 = 2 /\ 5 - 3 + 1 = 3 /\ 5 - 2 + 1 = 4 /\ 5 - 1 + 1 = 5
    OBVIOUS
  <2>8. QED BY <2>4, <2>5, <2>6, <2>7, ZenonT(60) DEF s
<1>6. /\ Script(2) \in Seq(C) /\ Len(Script(2)) = 5 /\ CallLeft(2, 5) = <<"load">>
      /\ CallLeft(2, 4) = <<"store", 3>> /\ CallLeft(2, 3) = <<"load">>
      /\ CallLeft(2, 2) = <<"store", 4>> /\ CallLeft(2, 1) = <<"return">>
  <2> DEFINE p1 == T!Add(3)
             p2 == T!Add(4)
  <2>1. /\ p1 \in Seq(C) /\ Len(p1) = 2 /\ p1[1] = <<"load">> /\ p1[2] = <<"store", 3>>
    BY <1>3 DEF T!Add
  <2>2. /\ p2 \in Seq(C) /\ Len(p2) = 2 /\ p2[1] = <<"load">> /\ p2[2] = <<"store", 4>>
    BY <1>3 DEF T!Add
  <2>3. Script(2) = (p1 \o p2) \o <<T!Op("return")>>
    BY <1>1 DEF Script, T!Program, T!thread3
  <2> HIDE DEF p1, p2
  <2> DEFINE s == Script(2)
  <2>4. s \in Seq(C) /\ Ends2(s, p1, p2)
    BY <1>3, <2>1, <2>2, <2>3, TwoParts
  <2>5. \A n : CallLeft(2, n) = s[Len(s) - n + 1]
    BY DEF CallLeft
  <2> HIDE DEF s
  <2>6. /\ Len(s) = 5 /\ s[1] = <<"load">> /\ s[2] = <<"store", 3>> /\ s[3] = <<"load">>
        /\ s[4] = <<"store", 4>> /\ s[5] = <<"return">>
    BY <2>1, <2>2, <2>4 DEF Ends2
  <2>7. /\ 5 - 5 + 1 = 1 /\ 5 - 4 + 1 = 2 /\ 5 - 3 + 1 = 3 /\ 5 - 2 + 1 = 4 /\ 5 - 1 + 1 = 5
    OBVIOUS
  <2>8. QED BY <2>4, <2>5, <2>6, <2>7, ZenonT(60) DEF s
<1>7. \A t \in T!Tasks \ {0, 1, 2} : Script(t) = <<>>
  BY <1>1 DEF Script, T!Program, T!thread3
<1>8. QED BY <1>1, <1>4, <1>5, <1>6, <1>7 DEF C

LEMMA EventScripts ==
    ASSUME prog = "SyncEvent"
    PROVE  /\ Script(0) \in Seq(Allowed(prog)) /\ Len(Script(0)) = 8
           /\ CallLeft(0, 8) = <<"create", 1>> /\ CallLeft(0, 7) = <<"create", 2>>
           /\ CallLeft(0, 6) = <<"set", "typed">> /\ CallLeft(0, 5) = <<"setevent">>
           /\ CallLeft(0, 4) = <<"join", 1>> /\ CallLeft(0, 3) = <<"join", 2>>
           /\ CallLeft(0, 2) = <<"destroy">> /\ CallLeft(0, 1) = <<"return">>
           /\ Script(1) \in Seq(Allowed(prog)) /\ Len(Script(1)) = 3
           /\ CallLeft(1, 3) = <<"waitevent">> /\ CallLeft(1, 2) = <<"look">>
           /\ CallLeft(1, 1) = <<"return">> /\ Script(2) \in Seq(Allowed(prog))
           /\ Len(Script(2)) = 3 /\ CallLeft(2, 3) = <<"waitevent">>
           /\ CallLeft(2, 2) = <<"look">> /\ CallLeft(2, 1) = <<"return">>
           /\ \A t \in T!Tasks \ {0, 1, 2} : Script(t) = <<>>
<1> DEFINE C == Allowed(prog)
<1>1. T!Programs[prog] = T!SyncEvent
  BY ProgramOf
<1>2. 1 \in T!Kids /\ 1 \in DOMAIN T!Programs[prog].body /\ 2 \in T!Kids /\ 2 \in DOMAIN T!Programs[prog].body
  BY <1>1, ProgramConstants DEF T!Kids, T!Program, T!SyncEvent, T!TwoReaders
<1>3. /\ T!Create(1) \in C /\ T!Create(2) \in C /\ T!Set("typed") \in C
      /\ T!Op("setevent") \in C /\ T!Join(1) \in C /\ T!Join(2) \in C /\ T!Op("destroy") \in C
      /\ T!Op("waitevent") \in C /\ T!Op("look") \in C /\ T!Op("return") \in C
  BY <1>2, CallTypes DEF Names, Readers
<1> HIDE DEF C
<1>4. /\ Script(0) \in Seq(C) /\ Len(Script(0)) = 8 /\ CallLeft(0, 8) = <<"create", 1>>
      /\ CallLeft(0, 7) = <<"create", 2>> /\ CallLeft(0, 6) = <<"set", "typed">>
      /\ CallLeft(0, 5) = <<"setevent">> /\ CallLeft(0, 4) = <<"join", 1>>
      /\ CallLeft(0, 3) = <<"join", 2>> /\ CallLeft(0, 2) = <<"destroy">>
      /\ CallLeft(0, 1) = <<"return">>
  <2> DEFINE p1 == <<T!Create(1), T!Create(2), T!Set("typed")>>
             p2 == <<T!Op("setevent")>>
             p3 == <<T!Join(1), T!Join(2), T!Op("destroy")>>
  <2>1. /\ p1 \in Seq(C) /\ Len(p1) = 3 /\ p1[1] = <<"create", 1>> /\ p1[2] = <<"create", 2>>
        /\ p1[3] = <<"set", "typed">>
    BY <1>3 DEF T!Create, T!Set
  <2>2. /\ p2 \in Seq(C) /\ Len(p2) = 1 /\ p2[1] = <<"setevent">>
    BY <1>3 DEF T!Op
  <2>3. /\ p3 \in Seq(C) /\ Len(p3) = 3 /\ p3[1] = <<"join", 1>> /\ p3[2] = <<"join", 2>>
        /\ p3[3] = <<"destroy">>
    BY <1>3 DEF T!Join, T!Op
  <2>4. Script(0) = ((p1 \o p2) \o p3) \o <<T!Op("return")>>
    BY <1>1 DEF Script, T!Program, T!SyncEvent, T!TwoReaders
  <2> HIDE DEF p1, p2, p3
  <2> DEFINE s == Script(0)
  <2>5. s \in Seq(C) /\ Ends3(s, p1, p2, p3)
    BY <1>3, <2>1, <2>2, <2>3, <2>4, ThreeParts
  <2>6. \A n : CallLeft(0, n) = s[Len(s) - n + 1]
    BY DEF CallLeft
  <2> HIDE DEF s
  <2>7. /\ Len(s) = 8 /\ s[1] = <<"create", 1>> /\ s[2] = <<"create", 2>>
        /\ s[3] = <<"set", "typed">> /\ s[4] = <<"setevent">> /\ s[5] = <<"join", 1>>
        /\ s[6] = <<"join", 2>> /\ s[7] = <<"destroy">> /\ s[8] = <<"return">>
    BY <2>1, <2>2, <2>3, <2>5 DEF Ends3
  <2>8. /\ 8 - 8 + 1 = 1 /\ 8 - 7 + 1 = 2 /\ 8 - 6 + 1 = 3 /\ 8 - 5 + 1 = 4 /\ 8 - 4 + 1 = 5
        /\ 8 - 3 + 1 = 6 /\ 8 - 2 + 1 = 7 /\ 8 - 1 + 1 = 8
    OBVIOUS
  <2>9. QED BY <2>5, <2>6, <2>7, <2>8, ZenonT(60) DEF s
<1>5. /\ Script(1) \in Seq(C) /\ Len(Script(1)) = 3 /\ CallLeft(1, 3) = <<"waitevent">>
      /\ CallLeft(1, 2) = <<"look">> /\ CallLeft(1, 1) = <<"return">>
  <2> DEFINE p1 == <<T!Op("waitevent")>>
             p2 == <<T!Op("look")>>
             p3 == <<>>
  <2>1. /\ p1 \in Seq(C) /\ Len(p1) = 1 /\ p1[1] = <<"waitevent">>
    BY <1>3 DEF T!Op
  <2>2. /\ p2 \in Seq(C) /\ Len(p2) = 1 /\ p2[1] = <<"look">>
    BY <1>3 DEF T!Op
  <2>3. /\ p3 \in Seq(C) /\ Len(p3) = 0
    OBVIOUS
  <2>4. Script(1) = ((p1 \o p2) \o p3) \o <<T!Op("return")>>
    BY <1>1 DEF Script, T!Program, T!SyncEvent, T!TwoReaders
  <2> HIDE DEF p1, p2, p3
  <2> DEFINE s == Script(1)
  <2>5. s \in Seq(C) /\ Ends3(s, p1, p2, p3)
    BY <1>3, <2>1, <2>2, <2>3, <2>4, ThreeParts
  <2>6. \A n : CallLeft(1, n) = s[Len(s) - n + 1]
    BY DEF CallLeft
  <2> HIDE DEF s
  <2>7. /\ Len(s) = 3 /\ s[1] = <<"waitevent">> /\ s[2] = <<"look">> /\ s[3] = <<"return">>
    BY <2>1, <2>2, <2>3, <2>5 DEF Ends3
  <2>8. /\ 3 - 3 + 1 = 1 /\ 3 - 2 + 1 = 2 /\ 3 - 1 + 1 = 3
    OBVIOUS
  <2>9. QED BY <2>5, <2>6, <2>7, <2>8, Zenon DEF s
<1>6. /\ Script(2) \in Seq(C) /\ Len(Script(2)) = 3 /\ CallLeft(2, 3) = <<"waitevent">>
      /\ CallLeft(2, 2) = <<"look">> /\ CallLeft(2, 1) = <<"return">>
  <2> DEFINE p1 == <<T!Op("waitevent")>>
             p2 == <<T!Op("look")>>
             p3 == <<>>
  <2>1. /\ p1 \in Seq(C) /\ Len(p1) = 1 /\ p1[1] = <<"waitevent">>
    BY <1>3 DEF T!Op
  <2>2. /\ p2 \in Seq(C) /\ Len(p2) = 1 /\ p2[1] = <<"look">>
    BY <1>3 DEF T!Op
  <2>3. /\ p3 \in Seq(C) /\ Len(p3) = 0
    OBVIOUS
  <2>4. Script(2) = ((p1 \o p2) \o p3) \o <<T!Op("return")>>
    BY <1>1 DEF Script, T!Program, T!SyncEvent, T!TwoReaders
  <2> HIDE DEF p1, p2, p3
  <2> DEFINE s == Script(2)
  <2>5. s \in Seq(C) /\ Ends3(s, p1, p2, p3)
    BY <1>3, <2>1, <2>2, <2>3, <2>4, ThreeParts
  <2>6. \A n : CallLeft(2, n) = s[Len(s) - n + 1]
    BY DEF CallLeft
  <2> HIDE DEF s
  <2>7. /\ Len(s) = 3 /\ s[1] = <<"waitevent">> /\ s[2] = <<"look">> /\ s[3] = <<"return">>
    BY <2>1, <2>2, <2>3, <2>5 DEF Ends3
  <2>8. /\ 3 - 3 + 1 = 1 /\ 3 - 2 + 1 = 2 /\ 3 - 1 + 1 = 3
    OBVIOUS
  <2>9. QED BY <2>5, <2>6, <2>7, <2>8, Zenon DEF s
<1>7. \A t \in T!Tasks \ {0, 1, 2} : Script(t) = <<>>
  BY <1>1 DEF Script, T!Program, T!SyncEvent, T!TwoReaders
<1>8. QED BY <1>1, <1>4, <1>5, <1>6, <1>7 DEF C

LEMMA SemaScripts ==
    ASSUME prog = "SyncEvent_Sema"
    PROVE  /\ Script(0) \in Seq(Allowed(prog)) /\ Len(Script(0)) = 8
           /\ CallLeft(0, 8) = <<"create", 1>> /\ CallLeft(0, 7) = <<"create", 2>>
           /\ CallLeft(0, 6) = <<"set", "typed">> /\ CallLeft(0, 5) = <<"post", 2>>
           /\ CallLeft(0, 4) = <<"join", 1>> /\ CallLeft(0, 3) = <<"join", 2>>
           /\ CallLeft(0, 2) = <<"destroy">> /\ CallLeft(0, 1) = <<"return">>
           /\ Script(1) \in Seq(Allowed(prog)) /\ Len(Script(1)) = 4
           /\ CallLeft(1, 4) = <<"take">> /\ CallLeft(1, 3) = <<"look">>
           /\ CallLeft(1, 2) = <<"post", 1>> /\ CallLeft(1, 1) = <<"return">>
           /\ Script(2) \in Seq(Allowed(prog)) /\ Len(Script(2)) = 4
           /\ CallLeft(2, 4) = <<"take">> /\ CallLeft(2, 3) = <<"look">>
           /\ CallLeft(2, 2) = <<"post", 1>> /\ CallLeft(2, 1) = <<"return">>
           /\ \A t \in T!Tasks \ {0, 1, 2} : Script(t) = <<>>
<1> DEFINE C == Allowed(prog)
<1>1. T!Programs[prog] = T!SyncEvent_Sema
  BY ProgramOf
<1>2. 1 \in T!Kids /\ 1 \in DOMAIN T!Programs[prog].body /\ 2 \in T!Kids /\ 2 \in DOMAIN T!Programs[prog].body
  BY <1>1, ProgramConstants DEF T!Kids, T!Program, T!SyncEvent_Sema, T!TwoReaders
<1>3. /\ T!Create(1) \in C /\ T!Create(2) \in C /\ T!Set("typed") \in C /\ T!Post(2) \in C
      /\ T!Join(1) \in C /\ T!Join(2) \in C /\ T!Op("destroy") \in C /\ T!Op("take") \in C
      /\ T!Op("look") \in C /\ T!Post(1) \in C /\ T!Op("return") \in C
  BY <1>2, CallTypes DEF Names, Readers
<1> HIDE DEF C
<1>4. /\ Script(0) \in Seq(C) /\ Len(Script(0)) = 8 /\ CallLeft(0, 8) = <<"create", 1>>
      /\ CallLeft(0, 7) = <<"create", 2>> /\ CallLeft(0, 6) = <<"set", "typed">>
      /\ CallLeft(0, 5) = <<"post", 2>> /\ CallLeft(0, 4) = <<"join", 1>>
      /\ CallLeft(0, 3) = <<"join", 2>> /\ CallLeft(0, 2) = <<"destroy">>
      /\ CallLeft(0, 1) = <<"return">>
  <2> DEFINE p1 == <<T!Create(1), T!Create(2), T!Set("typed")>>
             p2 == <<T!Post(2)>>
             p3 == <<T!Join(1), T!Join(2), T!Op("destroy")>>
  <2>1. /\ p1 \in Seq(C) /\ Len(p1) = 3 /\ p1[1] = <<"create", 1>> /\ p1[2] = <<"create", 2>>
        /\ p1[3] = <<"set", "typed">>
    BY <1>3 DEF T!Create, T!Set
  <2>2. /\ p2 \in Seq(C) /\ Len(p2) = 1 /\ p2[1] = <<"post", 2>>
    BY <1>3 DEF T!Post
  <2>3. /\ p3 \in Seq(C) /\ Len(p3) = 3 /\ p3[1] = <<"join", 1>> /\ p3[2] = <<"join", 2>>
        /\ p3[3] = <<"destroy">>
    BY <1>3 DEF T!Join, T!Op
  <2>4. Script(0) = ((p1 \o p2) \o p3) \o <<T!Op("return")>>
    BY <1>1 DEF Script, T!Program, T!SyncEvent_Sema, T!TwoReaders
  <2> HIDE DEF p1, p2, p3
  <2> DEFINE s == Script(0)
  <2>5. s \in Seq(C) /\ Ends3(s, p1, p2, p3)
    BY <1>3, <2>1, <2>2, <2>3, <2>4, ThreeParts
  <2>6. \A n : CallLeft(0, n) = s[Len(s) - n + 1]
    BY DEF CallLeft
  <2> HIDE DEF s
  <2>7. /\ Len(s) = 8 /\ s[1] = <<"create", 1>> /\ s[2] = <<"create", 2>>
        /\ s[3] = <<"set", "typed">> /\ s[4] = <<"post", 2>> /\ s[5] = <<"join", 1>>
        /\ s[6] = <<"join", 2>> /\ s[7] = <<"destroy">> /\ s[8] = <<"return">>
    BY <2>1, <2>2, <2>3, <2>5 DEF Ends3
  <2>8. /\ 8 - 8 + 1 = 1 /\ 8 - 7 + 1 = 2 /\ 8 - 6 + 1 = 3 /\ 8 - 5 + 1 = 4 /\ 8 - 4 + 1 = 5
        /\ 8 - 3 + 1 = 6 /\ 8 - 2 + 1 = 7 /\ 8 - 1 + 1 = 8
    OBVIOUS
  <2>9. QED BY <2>5, <2>6, <2>7, <2>8, ZenonT(60) DEF s
<1>5. /\ Script(1) \in Seq(C) /\ Len(Script(1)) = 4 /\ CallLeft(1, 4) = <<"take">>
      /\ CallLeft(1, 3) = <<"look">> /\ CallLeft(1, 2) = <<"post", 1>>
      /\ CallLeft(1, 1) = <<"return">>
  <2> DEFINE p1 == <<T!Op("take")>>
             p2 == <<T!Op("look")>>
             p3 == <<T!Post(1)>>
  <2>1. /\ p1 \in Seq(C) /\ Len(p1) = 1 /\ p1[1] = <<"take">>
    BY <1>3 DEF T!Op
  <2>2. /\ p2 \in Seq(C) /\ Len(p2) = 1 /\ p2[1] = <<"look">>
    BY <1>3 DEF T!Op
  <2>3. /\ p3 \in Seq(C) /\ Len(p3) = 1 /\ p3[1] = <<"post", 1>>
    BY <1>3 DEF T!Post
  <2>4. Script(1) = ((p1 \o p2) \o p3) \o <<T!Op("return")>>
    BY <1>1 DEF Script, T!Program, T!SyncEvent_Sema, T!TwoReaders
  <2> HIDE DEF p1, p2, p3
  <2> DEFINE s == Script(1)
  <2>5. s \in Seq(C) /\ Ends3(s, p1, p2, p3)
    BY <1>3, <2>1, <2>2, <2>3, <2>4, ThreeParts
  <2>6. \A n : CallLeft(1, n) = s[Len(s) - n + 1]
    BY DEF CallLeft
  <2> HIDE DEF s
  <2>7. /\ Len(s) = 4 /\ s[1] = <<"take">> /\ s[2] = <<"look">> /\ s[3] = <<"post", 1>>
        /\ s[4] = <<"return">>
    BY <2>1, <2>2, <2>3, <2>5 DEF Ends3
  <2>8. /\ 4 - 4 + 1 = 1 /\ 4 - 3 + 1 = 2 /\ 4 - 2 + 1 = 3 /\ 4 - 1 + 1 = 4
    OBVIOUS
  <2>9. QED BY <2>5, <2>6, <2>7, <2>8, Zenon DEF s
<1>6. /\ Script(2) \in Seq(C) /\ Len(Script(2)) = 4 /\ CallLeft(2, 4) = <<"take">>
      /\ CallLeft(2, 3) = <<"look">> /\ CallLeft(2, 2) = <<"post", 1>>
      /\ CallLeft(2, 1) = <<"return">>
  <2> DEFINE p1 == <<T!Op("take")>>
             p2 == <<T!Op("look")>>
             p3 == <<T!Post(1)>>
  <2>1. /\ p1 \in Seq(C) /\ Len(p1) = 1 /\ p1[1] = <<"take">>
    BY <1>3 DEF T!Op
  <2>2. /\ p2 \in Seq(C) /\ Len(p2) = 1 /\ p2[1] = <<"look">>
    BY <1>3 DEF T!Op
  <2>3. /\ p3 \in Seq(C) /\ Len(p3) = 1 /\ p3[1] = <<"post", 1>>
    BY <1>3 DEF T!Post
  <2>4. Script(2) = ((p1 \o p2) \o p3) \o <<T!Op("return")>>
    BY <1>1 DEF Script, T!Program, T!SyncEvent_Sema, T!TwoReaders
  <2> HIDE DEF p1, p2, p3
  <2> DEFINE s == Script(2)
  <2>5. s \in Seq(C) /\ Ends3(s, p1, p2, p3)
    BY <1>3, <2>1, <2>2, <2>3, <2>4, ThreeParts
  <2>6. \A n : CallLeft(2, n) = s[Len(s) - n + 1]
    BY DEF CallLeft
  <2> HIDE DEF s
  <2>7. /\ Len(s) = 4 /\ s[1] = <<"take">> /\ s[2] = <<"look">> /\ s[3] = <<"post", 1>>
        /\ s[4] = <<"return">>
    BY <2>1, <2>2, <2>3, <2>5 DEF Ends3
  <2>8. /\ 4 - 4 + 1 = 1 /\ 4 - 3 + 1 = 2 /\ 4 - 2 + 1 = 3 /\ 4 - 1 + 1 = 4
    OBVIOUS
  <2>9. QED BY <2>5, <2>6, <2>7, <2>8, Zenon DEF s
<1>7. \A t \in T!Tasks \ {0, 1, 2} : Script(t) = <<>>
  BY <1>1 DEF Script, T!Program, T!SyncEvent_Sema, T!TwoReaders
<1>8. QED BY <1>1, <1>4, <1>5, <1>6, <1>7 DEF C

\* Every other program, too, makes only the calls it may.
LEMMA OtherPrograms ==
    /\ T!Programs["none"] = [main |-> <<>>, body |-> <<>>]
    /\ T!Programs["zombie"] = T!zombie /\ T!Programs["copy_fd"] = T!copy_fd
    /\ T!Programs["sigaction"] = T!sigaction /\ T!Programs["signal"] = T!sigaction
    /\ T!Programs["SIGINT"] = T!SIGINT /\ T!Programs["thread1"] = T!thread1
    /\ T!Programs["thread1_win"] = T!thread1 /\ T!Programs["thread2_win"] = T!thread2_win
    /\ T!Programs["thread4"] = T!thread4 /\ T!Programs["thread3_win"] = T!thread4
    /\ T!Programs["mutex"] = T!mutex /\ T!Programs["SyncMutex"] = T!SyncMutex
    /\ T!Programs["SyncCS"] = T!SyncMutex
BY DEF T!Programs, T!signal, T!thread1_win, T!thread3_win, T!SyncCS

LEMMA ScriptOf ==
    ASSUME NEW m, NEW b, NEW C, m \in Seq(C), \A k \in DOMAIN b : b[k] \in Seq(C), T!Op("return") \in C,
           T!Programs[prog] = T!Program(m, b)
    PROVE  \A t \in T!Tasks : Script(t) \in Seq(C)
<1>1. T!Programs[prog].main = m \o <<T!Op("return")>> /\ T!Programs[prog].body = b
  BY DEF T!Program
<1>2. \A s \in Seq(C) : s \o <<T!Op("return")>> \in Seq(C)
  BY OneMore
<1>3. <<>> \in Seq(C)
  OBVIOUS
<1>4. QED BY <1>1, <1>2, <1>3 DEF Script

LEMMA OneChild ==
    ASSUME NEW m, NEW b, T!Programs[prog] = T!Program(m, <<b>>)
    PROVE  T!Create(1) \in Allowed(prog)
<1>1. T!Programs[prog].body = <<b>>
  BY DEF T!Program
<1>2. 1 \in DOMAIN T!Programs[prog].body /\ 1 \in T!Kids
  BY <1>1, ProgramConstants DEF T!Kids
<1>3. QED BY <1>2, CallTypes

LEMMA SilentScripts ==
    ASSUME prog \in {"none", "zombie", "copy_fd", "sigaction", "signal", "SIGINT", "thread1", "thread1_win",
                     "thread2_win"}
    PROVE  \A t \in T!Tasks : Script(t) \in Seq(Allowed(prog))
<1> DEFINE C == Allowed(prog)
           sleeps == <<T!Op("sleep")>>
<1>1. T!Op("return") \in C /\ T!Op("sleep") \in C /\ T!Op("print") \in C /\ T!Join(1) \in C
  BY CallTypes DEF Names
<1>2. /\ prog = "SIGINT" => T!Op("forever") \in C
      /\ prog \in {"sigaction", "signal"} => T!Op("alarm") \in C
  BY CallTypes
<1>3. ASSUME NEW b, NEW x \in {T!Op("sleep"), T!Op("print"), T!Join(1)}, b \in Seq(C),
             T!Programs[prog] = T!Program(<<T!Create(1), x>>, <<b>>)
      PROVE  \A t \in T!Tasks : Script(t) \in Seq(C)
  <2>1. T!Create(1) \in C /\ x \in C
    BY <1>1, <1>3, OneChild
  <2> HIDE DEF C
  <2>2. <<T!Create(1), x>> \in Seq(C)
    BY <2>1
  <2>3. DOMAIN <<b>> = {1} /\ <<b>>[1] = b
    OBVIOUS
  <2>4. \A k \in DOMAIN <<b>> : <<b>>[k] \in Seq(C)
    BY <1>3, <2>3
  <2>5. QED BY <1>1, <1>3, <2>2, <2>4, ScriptOf
<1> HIDE DEF C
<1>4. <<>> \in Seq(C) /\ sleeps \in Seq(C) /\ <<T!Op("print")>> \in Seq(C)
  BY <1>1
<1> HIDE DEF sleeps
<1>5. T!Repeat(2, sleeps) \in Seq(C) /\ T!Repeat(3, sleeps) \in Seq(C)
  BY <1>4, RepeatTask
<1>6. CASE prog = "none"
  <2>1. T!Programs[prog].main = <<>> /\ T!Programs[prog].body = <<>> /\ DOMAIN T!Programs[prog].body = {}
    BY <1>6, OtherPrograms
  <2>2. \A t \in T!Tasks : Script(t) = <<>>
    BY <2>1 DEF Script
  <2>3. QED BY <1>4, <2>2 DEF C
<1>7. CASE prog \in {"zombie", "copy_fd", "thread1", "thread1_win", "thread2_win"}
  <2>1. PICK b \in Seq(C), x \in {T!Op("sleep"), T!Op("print"), T!Join(1)} : T!Programs[prog] = T!Program(<<T!Create(1), x>>, <<b>>)
    <3>1. prog = "zombie" => T!Programs[prog] = T!Program(<<T!Create(1), T!Op("sleep")>>, <<<<>>>>)
      BY OtherPrograms DEF T!zombie
    <3>2. prog = "copy_fd" => T!Programs[prog] = T!Program(<<T!Create(1), T!Op("print")>>, << <<T!Op("print")>> >>)
      BY OtherPrograms DEF T!copy_fd
    <3>3. prog \in {"thread1", "thread1_win"} => T!Programs[prog] = T!Program(<<T!Create(1), T!Op("sleep")>>, <<T!Repeat(2, sleeps)>>)
      BY OtherPrograms DEF T!thread1, sleeps
    <3>4. prog = "thread2_win" => T!Programs[prog] = T!Program(<<T!Create(1), T!Join(1)>>, <<sleeps>>)
      BY OtherPrograms DEF T!thread2_win, sleeps
    <3>5. QED BY <1>4, <1>5, <1>7, <3>1, <3>2, <3>3, <3>4
  <2>2. QED BY <1>3, <2>1 DEF C
<1>8. CASE prog = "SIGINT"
  <2>1. T!Programs[prog] = T!Program(<<T!Op("forever")>>, <<>>)
    BY <1>8, OtherPrograms DEF T!SIGINT
  <2>2. <<T!Op("forever")>> \in Seq(C) /\ DOMAIN <<>> = {}
    BY <1>2, <1>8
  <2>3. \A k \in DOMAIN <<>> : <<>>[k] \in Seq(C)
    BY <2>2
  <2>4. QED BY <1>1, <2>1, <2>2, <2>3, ScriptOf DEF C
<1>9. CASE prog \in {"sigaction", "signal"}
  <2> DEFINE p == <<T!Op("alarm")>>
             q == T!Repeat(3, sleeps)
  <2>1. T!Programs[prog] = T!Program(p \o q, <<>>)
    BY <1>9, OtherPrograms DEF T!sigaction, sleeps
  <2>2. p \in Seq(C) /\ q \in Seq(C) /\ DOMAIN <<>> = {}
    BY <1>2, <1>5, <1>9
  <2> HIDE DEF p, q
  <2>3. p \o q \in Seq(C) /\ \A k \in DOMAIN <<>> : <<>>[k] \in Seq(C)
    BY <2>2
  <2>4. QED BY <1>1, <2>1, <2>3, ScriptOf DEF C
<1>10. QED BY <1>6, <1>7, <1>8, <1>9 DEF C

-----------------------------------------------------------------------------
(* Tasks: the programs that count.                                         *)

LEMMA FirstCall ==
    ASSUME NEW C, NEW p \in Seq(C), NEW s \in Seq(C), p # <<>>
    PROVE  p \o s \in Seq(C) /\ p \o s # <<>> /\ Head(p \o s) = Head(p) /\ Tail(p \o s) = Tail(p) \o s
OBVIOUS

LEMMA FewCalls ==
    \A a, b, c : /\ <<a>> # <<>> /\ Head(<<a>>) = a /\ Tail(<<a>>) = <<>>
                 /\ <<a, b>> # <<>> /\ Head(<<a, b>>) = a /\ Tail(<<a, b>>) = <<b>>
                 /\ <<a, b, c>> # <<>> /\ Head(<<a, b, c>>) = a /\ Tail(<<a, b, c>>) = <<b, c>>
OBVIOUS

\* The calls of the threads that count.
CounterCalls == {Load, T!Op("lock"), T!Op("unlock"), T!Op("return"), <<"store", 1>>, <<"store", -1>>}

LEMMA CounterTypes ==
    /\ \A p : CounterCalls \subseteq Allowed(p)
    /\ \A k \in Int : Put(k) \in CounterCalls /\ Sign(k) \in {1, -1}
    /\ \A k \in Int : T!Add(Sign(k)) = <<Load, Put(k)>>
    /\ T!Op("lock") = <<"lock">> /\ T!Op("unlock") = <<"unlock">> /\ T!Op("return") = <<"return">>
<1>1. ASSUME NEW p PROVE CounterCalls \subseteq Allowed(p)
  <2>1. "lock" \in Names /\ "unlock" \in Names /\ "return" \in Names
    BY DEF Names
  <2>2. /\ T!Op("lock") \in Allowed(p) /\ T!Op("unlock") \in Allowed(p) /\ T!Op("return") \in Allowed(p)
        /\ <<"store", 1>> \in Allowed(p) /\ <<"store", -1>> \in Allowed(p) /\ <<"load">> \in Allowed(p)
    BY <2>1, CallTypes
  <2>3. QED BY <2>2 DEF CounterCalls, Load
<1>2. \A k \in Int : Sign(k) \in {1, -1}
  BY DEF Sign
<1>3. \A k \in Int : Put(k) \in CounterCalls
  BY <1>2 DEF Put, CounterCalls
<1>4. \A k \in Int : T!Add(Sign(k)) = <<Load, Put(k)>>
  BY DEF T!Add, Load, Put
<1>5. QED BY <1>1, <1>2, <1>3, <1>4 DEF T!Op

\* With n additions left a thread is at the first of them, or at what comes after.
LEMMA AddsOnce ==
    ASSUME NEW k \in Int, NEW n \in Nat, NEW rest \in Seq(CounterCalls)
    PROVE  /\ AddsLeft(n, k, rest) \in Seq(CounterCalls)
           /\ AddsLeft(0, k, rest) = rest
           /\ AddsLeft(n + 1, k, rest) = <<Load, Put(k)>> \o AddsLeft(n, k, rest)
<1> DEFINE body == <<Load, Put(k)>>
           R(m) == T!Repeat(m, body)
<1>1. body \in Seq(CounterCalls) /\ T!Add(Sign(k)) = body
  BY CounterTypes DEF CounterCalls
<1> HIDE DEF body
<1>2. R(0) = <<>> /\ R(n) \in Seq(CounterCalls) /\ R(n + 1) = body \o R(n)
  BY <1>1, RepeatTask
<1>3. AddsLeft(n, k, rest) = R(n) \o rest /\ AddsLeft(n + 1, k, rest) = R(n + 1) \o rest
      /\ AddsLeft(0, k, rest) = R(0) \o rest
  BY <1>1 DEF AddsLeft
<1> HIDE DEF R
<1>4. \A p, q, s \in Seq(CounterCalls) : (p \o q) \o s = p \o (q \o s) /\ <<>> \o s = s /\ p \o s \in Seq(CounterCalls)
  OBVIOUS
<1>5. R(0) \o rest = rest /\ R(n) \o rest \in Seq(CounterCalls) /\ R(n + 1) \o rest = body \o (R(n) \o rest)
  <2>1. R(0) \o rest = rest
    BY <1>2, <1>4
  <2>2. R(n) \o rest \in Seq(CounterCalls)
    BY <1>2, <1>4
  <2>3. (body \o R(n)) \o rest = body \o (R(n) \o rest)
    BY <1>1, <1>2, <1>4, ZenonT(60)
  <2>4. QED BY <1>2, <2>1, <2>2, <2>3
<1>6. QED BY <1>3, <1>5 DEF body

\* The same for the threads that lock each addition.
LEMMA EachOnce ==
    ASSUME NEW k \in Int, NEW n \in Nat
    PROVE  /\ EachLeft(n, k) \in Seq(CounterCalls)
           /\ EachLeft(0, k) = Ending
           /\ EachLeft(n + 1, k) = <<T!Op("lock")>> \o (<<Load, Put(k), T!Op("unlock")>> \o EachLeft(n, k))
<1> DEFINE lk   == <<T!Op("lock")>>
           ad   == <<Load, Put(k)>>
           ul   == <<T!Op("unlock")>>
           body == (lk \o ad) \o ul
           R(m) == T!Repeat(m, body)
<1>1. /\ lk \in Seq(CounterCalls) /\ ad \in Seq(CounterCalls) /\ ul \in Seq(CounterCalls) /\ Ending \in Seq(CounterCalls)
      /\ T!Locked(T!Add(Sign(k))) = body
  <2>1. T!Add(Sign(k)) = ad
    BY CounterTypes
  <2>2. T!Locked(ad) = body
    BY DEF T!Locked
  <2>3. Load \in CounterCalls /\ Put(k) \in CounterCalls /\ T!Op("lock") \in CounterCalls
        /\ T!Op("unlock") \in CounterCalls /\ T!Op("return") \in CounterCalls
    BY CounterTypes DEF CounterCalls
  <2>4. QED BY <2>1, <2>2, <2>3 DEF Ending
<1>2. ad \o ul = <<Load, Put(k), T!Op("unlock")>>
  <2> DEFINE s == ad \o ul
  <2>1. s \in Seq(CounterCalls) /\ Len(s) = Len(ad) + 1 /\ (\A l \in 1..Len(ad) : s[l] = ad[l]) /\ s[Len(ad) + 1] = T!Op("unlock")
    <3>1. T!Op("unlock") \in CounterCalls
      BY DEF CounterCalls
    <3>2. QED BY <1>1, <3>1, OneMore
  <2>2. Len(ad) = 2 /\ ad[1] = Load /\ ad[2] = Put(k)
    OBVIOUS
  <2> HIDE DEF s, ad
  <2>3. Len(s) = 3 /\ s[1] = Load /\ s[2] = Put(k) /\ s[3] = T!Op("unlock")
    BY <2>1, <2>2
  <2>4. \A C : \A u \in Seq(C) : Len(u) = 3 => u = <<u[1], u[2], u[3]>>
    OBVIOUS
  <2>5. s = <<Load, Put(k), T!Op("unlock")>>
    BY <2>1, <2>3, <2>4
  <2>6. QED BY <2>5 DEF s
<1> HIDE DEF lk, ad, ul
<1>3. body \in Seq(CounterCalls) /\ body = lk \o (ad \o ul)
  BY <1>1, SMTT(30)
<1> HIDE DEF body
<1>4. R(0) = <<>> /\ R(n) \in Seq(CounterCalls) /\ R(n + 1) = body \o R(n)
  BY <1>3, RepeatTask
<1>5. EachLeft(n, k) = R(n) \o Ending /\ EachLeft(n + 1, k) = R(n + 1) \o Ending /\ EachLeft(0, k) = R(0) \o Ending
  BY <1>1 DEF EachLeft
<1> HIDE DEF R
<1>6. \A p, q, s \in Seq(CounterCalls) : (p \o q) \o s = p \o (q \o s) /\ p \o q \in Seq(CounterCalls)
                                         /\ <<>> \o s = s
  OBVIOUS
<1>7. R(0) \o Ending = Ending /\ R(n) \o Ending \in Seq(CounterCalls)
  BY <1>1, <1>4, <1>6, Zenon
<1>8. R(n + 1) \o Ending = lk \o ((ad \o ul) \o (R(n) \o Ending))
  <2>1. R(n + 1) \o Ending = body \o (R(n) \o Ending)
    <3>1. (body \o R(n)) \o Ending = body \o (R(n) \o Ending)
      <4>1. body \in Seq(CounterCalls) /\ R(n) \in Seq(CounterCalls) /\ Ending \in Seq(CounterCalls)
        BY <1>1, <1>3, <1>4
      <4>2. QED BY <4>1
    <3>2. QED BY <1>4, <3>1
  <2>2. ad \o ul \in Seq(CounterCalls)
    BY <1>1, <1>6, Zenon
  <2>3. (lk \o (ad \o ul)) \o (R(n) \o Ending) = lk \o ((ad \o ul) \o (R(n) \o Ending))
    <3>1. lk \in Seq(CounterCalls) /\ R(n) \o Ending \in Seq(CounterCalls)
      BY <1>1, <1>7
    <3>2. QED BY <1>6, <2>2, <3>1, ZenonT(60)
  <2>4. QED BY <1>3, <2>1, <2>3
<1>9. QED BY <1>2, <1>5, <1>7, <1>8 DEF lk

LEMMA CounterKids == T!Kids = 1..NUM_THREAD /\ NUM_THREAD \in Nat /\ NUM_THREAD >= 2 /\ T!Tasks = 0..NUM_THREAD /\ Loops \in Nat
<1>1. NUM_THREAD \in Nat \ {0} /\ NUM_THREAD % 2 = 0 /\ Loops \in Nat
  BY ProgramConstants
<1>2. NUM_THREAD # 1
  BY <1>1
<1>3. NUM_THREAD >= 2
  BY <1>1, <1>2
<1>4. T!Kids = 1..NUM_THREAD
  BY <1>1, <1>3 DEF T!Kids
<1>5. QED BY <1>1, <1>3, <1>4 DEF T!Tasks, T!main

\* main creates the threads, joins them, destroys the lock and prints the counter.
LEMMA CounterMain ==
    ASSUME prog \in CountingPrograms, NEW inc, NEW des, T!Programs[prog] = T!Counting(inc, des)
    PROVE  /\ Script(0) \in Seq(Allowed(prog)) /\ Len(Script(0)) = 2 * NUM_THREAD + 3
           /\ \A k \in 1..NUM_THREAD : /\ Script(0)[k] = <<"create", k>>
                                       /\ Script(0)[NUM_THREAD + k] = <<"join", k>>
           /\ Script(0)[2 * NUM_THREAD + 1] = <<"destroy">>
           /\ Script(0)[2 * NUM_THREAD + 2] = <<"print">>
           /\ Script(0)[2 * NUM_THREAD + 3] = <<"return">>
<1> DEFINE C == Allowed(prog)
           N == NUM_THREAD
           cr == [k \in 1..N |-> T!Create(k)]
           jn == [k \in 1..N |-> T!Join(k)]
           dp == <<T!Op("destroy"), T!Op("print")>>
           c == cr \o jn
           d == c \o dp
           s == d \o <<T!Op("return")>>
<1>1. Script(0) = s /\ DOMAIN T!Programs[prog].body = 1..N
  <2>1. T!Counting(inc, des).main = s /\ DOMAIN T!Counting(inc, des).body = 1..N
    BY DEF T!Counting, T!Program
  <2>2. Script(0) = T!Programs[prog].main
    BY DEF Script
  <2>3. QED BY <2>1, <2>2
<1>2. N \in Nat /\ T!Kids = 1..N
  BY CounterKids
<1>3. T!Op("destroy") \in C /\ T!Op("print") \in C /\ T!Op("return") \in C
      /\ \A k \in 1..N : T!Create(k) \in C /\ T!Join(k) \in C
  <2>1. "print" \in Names /\ "return" \in Names
    BY DEF Names
  <2>2. \A k \in 1..N : k \in Int
    BY <1>2
  <2>3. QED BY <1>1, <1>2, <2>1, <2>2, CallTypes
<1> HIDE DEF C, N
<1>4. cr \in Seq(C) /\ Len(cr) = N /\ jn \in Seq(C) /\ Len(jn) = N
      /\ \A k \in 1..N : cr[k] = T!Create(k) /\ jn[k] = T!Join(k)
  BY <1>2, <1>3
<1>5. dp \in Seq(C) /\ Len(dp) = 2 /\ dp[1] = T!Op("destroy") /\ dp[2] = T!Op("print")
  BY <1>3
<1> HIDE DEF cr, jn, dp
<1>6. /\ c \in Seq(C) /\ Len(c) = Len(cr) + Len(jn)
      /\ \A n \in 1..Len(cr) + Len(jn) : c[n] = IF n <= Len(cr) THEN cr[n] ELSE jn[n - Len(cr)]
  BY <1>4, JoinParts
<1> HIDE DEF c
<1>7. /\ d \in Seq(C) /\ Len(d) = Len(c) + Len(dp)
      /\ \A n \in 1..Len(c) + Len(dp) : d[n] = IF n <= Len(c) THEN c[n] ELSE dp[n - Len(c)]
  <2>1. c \in Seq(C) /\ dp \in Seq(C)
    BY <1>5, <1>6
  <2>2. QED BY <2>1, JoinParts
<1> HIDE DEF d
<1>8. /\ s \in Seq(C) /\ Len(s) = Len(d) + 1 /\ s[Len(d) + 1] = T!Op("return")
      /\ \A n \in 1..Len(d) : s[n] = d[n]
  <2>1. d \in Seq(C) /\ T!Op("return") \in C
    BY <1>3, <1>7
  <2>2. QED BY <2>1, OneMore, ZenonT(60)
<1> HIDE DEF s
<1>9. Len(c) = 2 * N /\ Len(d) = 2 * N + 2 /\ Len(s) = 2 * N + 3
  BY <1>2, <1>4, <1>5, <1>6, <1>7, <1>8
<1>10. ASSUME NEW k \in 1..N PROVE s[k] = T!Create(k) /\ s[N + k] = T!Join(k)
  <2>1. c[k] = cr[k] /\ c[N + k] = jn[k]
    <3>1. k \in 1..Len(cr) + Len(jn) /\ k <= Len(cr) /\ N + k \in 1..Len(cr) + Len(jn) /\ ~(N + k <= Len(cr))
          /\ (N + k) - Len(cr) = k
      BY <1>2, <1>4
    <3>2. QED BY <1>6, <3>1
  <2>2. d[k] = c[k] /\ d[N + k] = c[N + k]
    <3>1. k \in 1..Len(c) + Len(dp) /\ k <= Len(c) /\ N + k \in 1..Len(c) + Len(dp) /\ N + k <= Len(c)
      BY <1>2, <1>5, <1>9
    <3>2. QED BY <1>7, <3>1
  <2>3. s[k] = d[k] /\ s[N + k] = d[N + k]
    <3>1. k \in 1..Len(d) /\ N + k \in 1..Len(d)
      BY <1>2, <1>9
    <3>2. QED BY <1>8, <3>1
  <2>4. QED BY <1>4, <2>1, <2>2, <2>3
<1>11. s[2 * N + 1] = T!Op("destroy") /\ s[2 * N + 2] = T!Op("print") /\ s[2 * N + 3] = T!Op("return")
  <2>1. d[2 * N + 1] = dp[1] /\ d[2 * N + 2] = dp[2]
    <3>1. 2 * N + 1 \in 1..Len(c) + Len(dp) /\ 2 * N + 2 \in 1..Len(c) + Len(dp) /\ ~(2 * N + 1 <= Len(c))
          /\ ~(2 * N + 2 <= Len(c)) /\ (2 * N + 1) - Len(c) = 1 /\ (2 * N + 2) - Len(c) = 2
      BY <1>2, <1>5, <1>9
    <3>2. QED BY <1>7, <3>1
  <2>2. s[2 * N + 1] = d[2 * N + 1] /\ s[2 * N + 2] = d[2 * N + 2] /\ s[2 * N + 3] = T!Op("return")
    <3>1. 2 * N + 1 \in 1..Len(d) /\ 2 * N + 2 \in 1..Len(d) /\ Len(d) + 1 = 2 * N + 3
      BY <1>2, <1>9
    <3>2. QED BY <1>8, <3>1
  <2>3. QED BY <1>5, <2>1, <2>2
<1>12. QED BY <1>1, <1>8, <1>9, <1>10, <1>11 DEF C, N, T!Create, T!Join, T!Op

\* How a thread begins.
Begins(k) == IF Free THEN AddsLeft(Loops, k, Ending)
             ELSE IF Each(k) THEN EachLeft(Loops, k)
             ELSE <<T!Op("lock")>> \o AddsLeft(Loops, k, Frees)

LEMMA CounterParts ==
    ASSUME NEW k \in Int
    PROVE  /\ Ending \in Seq(CounterCalls) /\ Frees \in Seq(CounterCalls)
           /\ T!Repeat(Loops, T!Add(Sign(k))) \in Seq(CounterCalls)
           /\ T!Locked(T!Repeat(Loops, T!Add(Sign(k)))) \in Seq(CounterCalls)
           /\ T!Repeat(Loops, T!Locked(T!Add(Sign(k)))) \in Seq(CounterCalls)
           /\ T!Repeat(Loops, T!Add(Sign(k))) \o Ending = AddsLeft(Loops, k, Ending)
           /\ T!Repeat(Loops, T!Locked(T!Add(Sign(k)))) \o Ending = EachLeft(Loops, k)
           /\ T!Locked(T!Repeat(Loops, T!Add(Sign(k)))) \o Ending = <<T!Op("lock")>> \o AddsLeft(Loops, k, Frees)
<1> DEFINE add == T!Add(Sign(k))
           lk  == <<T!Op("lock")>>
           ul  == <<T!Op("unlock")>>
           all == T!Repeat(Loops, add)
           each == T!Repeat(Loops, T!Locked(add))
<1>1. Loops \in Nat
  BY CounterKids
<1>2. /\ T!Op("lock") \in CounterCalls /\ T!Op("unlock") \in CounterCalls /\ T!Op("return") \in CounterCalls
      /\ Load \in CounterCalls /\ Put(k) \in CounterCalls /\ add = <<Load, Put(k)>>
  BY CounterTypes DEF CounterCalls
<1>3. add \in Seq(CounterCalls) /\ lk \in Seq(CounterCalls) /\ ul \in Seq(CounterCalls)
      /\ Ending \in Seq(CounterCalls) /\ Frees \in Seq(CounterCalls)
  BY <1>2 DEF Ending, Frees
<1>4. ul \o Ending = Frees
  BY Short DEF Ending, Frees
<1>5. T!Locked(add) = (lk \o add) \o ul /\ T!Locked(all) = (lk \o all) \o ul
  BY DEF T!Locked
<1> HIDE DEF add, lk, ul
<1>6. \A p, q, s \in Seq(CounterCalls) : p \o q \in Seq(CounterCalls)
  OBVIOUS
<1>7. T!Locked(add) \in Seq(CounterCalls)
  BY <1>3, <1>5, <1>6
<1>8. all \in Seq(CounterCalls) /\ each \in Seq(CounterCalls)
  BY <1>1, <1>3, <1>7, RepeatTask
<1>9. all \o Ending = AddsLeft(Loops, k, Ending) /\ each \o Ending = EachLeft(Loops, k) /\ all \o Frees = AddsLeft(Loops, k, Frees)
  BY DEF AddsLeft, EachLeft, add
<1> HIDE DEF all, each
<1>10. ((lk \o all) \o ul) \o Ending = lk \o (all \o (ul \o Ending))
  <2>1. lk \in Seq(CounterCalls) /\ all \in Seq(CounterCalls) /\ ul \in Seq(CounterCalls) /\ Ending \in Seq(CounterCalls)
    BY <1>3, <1>8
  <2>2. ((lk \o all) \o ul) \o Ending = (lk \o all) \o (ul \o Ending)
    BY <2>1
  <2>3. ul \o Ending \in Seq(CounterCalls)
    BY <2>1
  <2>4. (lk \o all) \o (ul \o Ending) = lk \o (all \o (ul \o Ending))
    BY <2>1, <2>3, SMTT(30)
  <2>5. QED BY <2>2, <2>4
<1>11. T!Locked(all) \in Seq(CounterCalls) /\ T!Locked(all) \o Ending = lk \o AddsLeft(Loops, k, Frees)
  <2>1. T!Locked(all) \in Seq(CounterCalls)
    BY <1>3, <1>5, <1>6, <1>8
  <2>2. QED BY <1>4, <1>5, <1>9, <1>10, <2>1
<1>12. QED BY <1>3, <1>8, <1>9, <1>11 DEF all, each, add, lk

\* The threads: even ones add, odd ones subtract.
LEMMA CounterProgram ==
    ASSUME prog \in CountingPrograms
    PROVE  \E inc, des :
              /\ T!Programs[prog] = T!Counting(inc, des)
              /\ \A k \in T!Kids : LET b == IF k % 2 = 0 THEN inc ELSE des
                                   IN  b \in Seq(CounterCalls) /\ b \o Ending = Begins(k)
<1> DEFINE adds(k) == T!Repeat(Loops, T!Add(Sign(k)))
           each(k) == T!Repeat(Loops, T!Locked(T!Add(Sign(k))))
<1>1. T!Increments = adds(2) /\ T!Decrements = adds(1) /\ \A k \in T!Kids : Sign(k) = IF k % 2 = 0 THEN Sign(2) ELSE Sign(1)
  BY DEF T!Increments, T!Decrements, Sign
<1>2. T!Repeat(Loops, T!Locked(T!Add(-1))) = each(1)
  BY DEF Sign
<1>3. \A k \in T!Kids : k \in Int
  BY CounterKids
<1>4. \A k \in T!Kids : /\ adds(k) \in Seq(CounterCalls) /\ adds(k) \o Ending = AddsLeft(Loops, k, Ending)
                        /\ each(k) \in Seq(CounterCalls) /\ each(k) \o Ending = EachLeft(Loops, k)
                        /\ T!Locked(adds(k)) \in Seq(CounterCalls)
                        /\ T!Locked(adds(k)) \o Ending = <<T!Op("lock")>> \o AddsLeft(Loops, k, Frees)
  BY <1>3, CounterParts
<1>5. \A k \in T!Kids : /\ adds(k) = IF k % 2 = 0 THEN adds(2) ELSE adds(1)
                        /\ each(k) = IF k % 2 = 0 THEN each(2) ELSE each(1)
                        /\ T!Locked(adds(k)) = IF k % 2 = 0 THEN T!Locked(adds(2)) ELSE T!Locked(adds(1))
  BY <1>1
<1> HIDE DEF adds, each
<1>6. CASE prog \in {"thread4", "thread3_win"}
  <2>1. T!Programs[prog] = T!Counting(adds(2), adds(1))
    BY <1>1, <1>6, OtherPrograms DEF T!thread4
  <2>2. \A k \in T!Kids : Begins(k) = AddsLeft(Loops, k, Ending)
    BY <1>6 DEF Begins, Free
  <2>3. \A k \in T!Kids : LET b == IF k % 2 = 0 THEN adds(2) ELSE adds(1)
                          IN  b \in Seq(CounterCalls) /\ b \o Ending = Begins(k)
    BY <1>4, <1>5, <2>2
  <2>4. QED BY <2>1, <2>3
<1>7. CASE prog = "mutex"
  <2>1. T!Programs[prog] = T!Counting(T!Locked(adds(2)), each(1))
    BY <1>1, <1>2, <1>7, OtherPrograms DEF T!mutex
  <2>2. \A k \in T!Kids : k % 2 = 0 \/ k % 2 = 1
    BY <1>3
  <2>3. \A k \in T!Kids : Begins(k) = IF k % 2 = 0 THEN <<T!Op("lock")>> \o AddsLeft(Loops, k, Frees) ELSE EachLeft(Loops, k)
    BY <1>7, <2>2 DEF Begins, Free, Each
  <2>4. \A k \in T!Kids : LET b == IF k % 2 = 0 THEN T!Locked(adds(2)) ELSE each(1)
                          IN  b \in Seq(CounterCalls) /\ b \o Ending = Begins(k)
    BY <1>4, <1>5, <2>3
  <2>5. QED BY <2>1, <2>4
<1>8. CASE prog \in {"SyncMutex", "SyncCS"}
  <2>1. T!Programs[prog] = T!Counting(T!Locked(adds(2)), T!Locked(adds(1)))
    BY <1>1, <1>8, OtherPrograms DEF T!SyncMutex
  <2>2. \A k \in T!Kids : Begins(k) = <<T!Op("lock")>> \o AddsLeft(Loops, k, Frees)
    BY <1>8 DEF Begins, Free, Each
  <2>3. \A k \in T!Kids : LET b == IF k % 2 = 0 THEN T!Locked(adds(2)) ELSE T!Locked(adds(1))
                          IN  b \in Seq(CounterCalls) /\ b \o Ending = Begins(k)
    BY <1>4, <1>5, <2>2
  <2>4. QED BY <2>1, <2>3
<1>9. QED BY <1>6, <1>7, <1>8 DEF CountingPrograms

LEMMA CounterScripts ==
    ASSUME prog \in CountingPrograms
    PROVE  /\ \A t \in T!Tasks : Script(t) \in Seq(Allowed(prog))
           /\ \A k \in T!Kids : Script(k) = Begins(k)
           /\ Len(Script(0)) = 2 * NUM_THREAD + 3
           /\ \A n \in NUM_THREAD + 4..2 * NUM_THREAD + 3 : CallLeft(0, n) = <<"create", 2 * NUM_THREAD + 4 - n>>
           /\ \A n \in 4..NUM_THREAD + 3 : CallLeft(0, n) = <<"join", NUM_THREAD + 4 - n>>
           /\ CallLeft(0, 3) = <<"destroy">> /\ CallLeft(0, 2) = <<"print">> /\ CallLeft(0, 1) = <<"return">>
<1>1. PICK inc, des : /\ T!Programs[prog] = T!Counting(inc, des)
                      /\ \A k \in T!Kids : LET b == IF k % 2 = 0 THEN inc ELSE des
                                           IN  b \in Seq(CounterCalls) /\ b \o Ending = Begins(k)
  BY CounterProgram
<1>2. T!Kids = 1..NUM_THREAD /\ NUM_THREAD \in Nat /\ T!Tasks = 0..NUM_THREAD /\ 0 \notin T!Kids
  BY CounterKids
<1>3. \A k \in T!Kids : Script(k) = Begins(k) /\ Script(k) \in Seq(CounterCalls)
  <2> SUFFICES ASSUME NEW k \in T!Kids PROVE Script(k) = Begins(k) /\ Script(k) \in Seq(CounterCalls)
    OBVIOUS
  <2> DEFINE b == IF k % 2 = 0 THEN inc ELSE des
  <2>1. b \in Seq(CounterCalls) /\ b \o Ending = Begins(k)
    BY <1>1
  <2>2. k \in DOMAIN T!Programs[prog].body /\ T!Programs[prog].body[k] = b
    BY <1>1, <1>2 DEF T!Counting, T!Program
  <2>3. k # 0
    BY <1>2
  <2> HIDE DEF b
  <2>4. Script(k) = b \o Ending
    BY <2>2, <2>3 DEF Script, Ending
  <2>5. b \o Ending \in Seq(CounterCalls)
    <3>1. Ending \in Seq(CounterCalls)
      BY <1>2, CounterParts
    <3>2. b \in Seq(CounterCalls)
      BY <2>1
    <3>3. QED BY <3>1, <3>2
  <2>6. QED BY <2>1, <2>4, <2>5
<1>4. \A s \in Seq(CounterCalls) : s \in Seq(Allowed(prog))
  BY CounterTypes
<1> DEFINE N == NUM_THREAD
<1>5. /\ Script(0) \in Seq(Allowed(prog)) /\ Len(Script(0)) = 2 * N + 3
      /\ \A k \in 1..N : Script(0)[k] = <<"create", k>> /\ Script(0)[N + k] = <<"join", k>>
      /\ Script(0)[2 * N + 1] = <<"destroy">> /\ Script(0)[2 * N + 2] = <<"print">> /\ Script(0)[2 * N + 3] = <<"return">>
  BY <1>1, CounterMain
<1>6. \A t \in T!Tasks : Script(t) \in Seq(Allowed(prog))
  <2>1. \A t \in T!Tasks : t = 0 \/ t \in T!Kids
    BY DEF T!Tasks, T!main
  <2>2. QED BY <1>3, <1>4, <1>5, <2>1
<1>7. N \in Nat
  BY <1>2
<1> HIDE DEF N
<1>8. \A n : CallLeft(0, n) = Script(0)[(2 * N + 3) - n + 1]
  BY <1>5 DEF CallLeft
<1>9. ASSUME NEW n \in N + 4..2 * N + 3 PROVE CallLeft(0, n) = <<"create", 2 * N + 4 - n>>
  <2>1. 2 * N + 4 - n \in 1..N /\ (2 * N + 3) - n + 1 = 2 * N + 4 - n
    BY <1>7
  <2>2. QED BY <1>5, <1>8, <2>1
<1>10. ASSUME NEW n \in 4..N + 3 PROVE CallLeft(0, n) = <<"join", N + 4 - n>>
  <2>1. N + 4 - n \in 1..N /\ (2 * N + 3) - n + 1 = N + (N + 4 - n)
    BY <1>7
  <2>2. QED BY <1>5, <1>8, <2>1
<1>11. CallLeft(0, 3) = <<"destroy">> /\ CallLeft(0, 2) = <<"print">> /\ CallLeft(0, 1) = <<"return">>
  <2>1. (2 * N + 3) - 3 + 1 = 2 * N + 1 /\ (2 * N + 3) - 2 + 1 = 2 * N + 2 /\ (2 * N + 3) - 1 + 1 = 2 * N + 3
    BY <1>7
  <2>2. QED BY <1>5, <1>8, <2>1
<1>12. QED BY <1>3, <1>5, <1>6, <1>9, <1>10, <1>11 DEF N

\* Every script makes only the calls that its program may make.
LEMMA ScriptTypes ==
    ASSUME prog \in DOMAIN T!Programs
    PROVE  \A t \in T!Tasks : Script(t) \in Seq(Allowed(prog))
<1>1. <<>> \in Seq(Allowed(prog))
  OBVIOUS
<1>2. CASE prog = "fork"
  <2>1. Script(0) \in Seq(Allowed(prog)) /\ Script(1) \in Seq(Allowed(prog)) /\ \A t \in T!Tasks \ {0, 1} : Script(t) = <<>>
    BY <1>2, ForkScripts
  <2>2. QED BY <1>1, <2>1
<1>3. CASE prog = "wait"
  <2>1. Script(0) \in Seq(Allowed(prog)) /\ Script(1) \in Seq(Allowed(prog)) /\ Script(2) \in Seq(Allowed(prog)) /\ \A t \in T!Tasks \ {0, 1, 2} : Script(t) = <<>>
    BY <1>3, WaitScripts
  <2>2. QED BY <1>1, <2>1
<1>4. CASE prog = "waitpid"
  <2>1. Script(0) \in Seq(Allowed(prog)) /\ Script(1) \in Seq(Allowed(prog)) /\ \A t \in T!Tasks \ {0, 1} : Script(t) = <<>>
    BY <1>4, WaitpidScripts
  <2>2. QED BY <1>1, <2>1
<1>5. CASE prog = "remove_zombie"
  <2>1. Script(0) \in Seq(Allowed(prog)) /\ Script(1) \in Seq(Allowed(prog)) /\ Script(2) \in Seq(Allowed(prog)) /\ \A t \in T!Tasks \ {0, 1, 2} : Script(t) = <<>>
    BY <1>5, ZombieScripts
  <2>2. QED BY <1>1, <2>1
<1>6. CASE prog = "pipe1"
  <2>1. Script(0) \in Seq(Allowed(prog)) /\ Script(1) \in Seq(Allowed(prog)) /\ \A t \in T!Tasks \ {0, 1} : Script(t) = <<>>
    BY <1>6, Pipe1Scripts
  <2>2. QED BY <1>1, <2>1
<1>7. CASE prog = "pipe2"
  <2>1. Script(0) \in Seq(Allowed(prog)) /\ Script(1) \in Seq(Allowed(prog)) /\ \A t \in T!Tasks \ {0, 1} : Script(t) = <<>>
    BY <1>7, Pipe2Scripts
  <2>2. QED BY <1>1, <2>1
<1>8. CASE prog = "pipe3"
  <2>1. Script(0) \in Seq(Allowed(prog)) /\ Script(1) \in Seq(Allowed(prog)) /\ \A t \in T!Tasks \ {0, 1} : Script(t) = <<>>
    BY <1>8, Pipe3Scripts
  <2>2. QED BY <1>1, <2>1
<1>9. CASE prog = "give_and_take"
  <2>1. Script(0) \in Seq(Allowed(prog)) /\ Script(1) \in Seq(Allowed(prog)) /\ \A t \in T!Tasks \ {0, 1} : Script(t) = <<>>
    BY <1>9, GiveScripts
  <2>2. QED BY <1>1, <2>1
<1>10. CASE prog = "thread2"
  <2>1. Script(0) \in Seq(Allowed(prog)) /\ Script(1) \in Seq(Allowed(prog)) /\ \A t \in T!Tasks \ {0, 1} : Script(t) = <<>>
    BY <1>10, Thread2Scripts
  <2>2. QED BY <1>1, <2>1
<1>11. CASE prog = "thread3"
  <2>1. Script(0) \in Seq(Allowed(prog)) /\ Script(1) \in Seq(Allowed(prog)) /\ Script(2) \in Seq(Allowed(prog)) /\ \A t \in T!Tasks \ {0, 1, 2} : Script(t) = <<>>
    BY <1>11, Thread3Scripts
  <2>2. QED BY <1>1, <2>1
<1>12. CASE prog = "SyncEvent"
  <2>1. Script(0) \in Seq(Allowed(prog)) /\ Script(1) \in Seq(Allowed(prog)) /\ Script(2) \in Seq(Allowed(prog)) /\ \A t \in T!Tasks \ {0, 1, 2} : Script(t) = <<>>
    BY <1>12, EventScripts
  <2>2. QED BY <1>1, <2>1
<1>13. CASE prog = "SyncEvent_Sema"
  <2>1. Script(0) \in Seq(Allowed(prog)) /\ Script(1) \in Seq(Allowed(prog)) /\ Script(2) \in Seq(Allowed(prog)) /\ \A t \in T!Tasks \ {0, 1, 2} : Script(t) = <<>>
    BY <1>13, SemaScripts
  <2>2. QED BY <1>1, <2>1
<1>14. CASE prog \in CountingPrograms
  BY <1>14, CounterScripts
<1>15. CASE prog \in {"none", "zombie", "copy_fd", "sigaction", "signal", "SIGINT", "thread1", "thread1_win",
                     "thread2_win"}
  BY <1>15, SilentScripts
<1>16. DOMAIN T!Programs \subseteq
        Followed \cup CountingPrograms
        \cup {"none", "zombie", "copy_fd", "sigaction", "signal", "SIGINT", "thread1", "thread1_win", "thread2_win"}
  BY DEF T!Programs, Followed, Readers, CountingPrograms
<1>17. QED BY <1>2, <1>3, <1>4, <1>5, <1>6, <1>7, <1>8, <1>9, <1>10, <1>11, <1>12, <1>13, <1>14, <1>15, <1>16 DEF Followed, Readers
-----------------------------------------------------------------------------
(* Tasks: one step of a task.                                              *)

Acts(t) == T!Process(t) \/ T!Thread(t)

\* The call that t is at says which action it takes.
LEMMA ByName ==
    ASSUME NEW t, Acts(t)
    PROVE  /\ T!Now(t)[1] = "create" => T!Creates(t)
           /\ T!Now(t)[1] = "return" => T!Returns(t)
           /\ T!Now(t)[1] = "wait" => T!Waits(t)
           /\ T!Now(t)[1] = "sigchld" => T!Handles(t)
           /\ T!Now(t)[1] = "alarm" => T!Alarms(t)
           /\ T!Now(t)[1] = "sleep" => T!Sleeps(t)
           /\ T!Now(t)[1] = "send" => T!Sends(t)
           /\ T!Now(t)[1] = "recv" => T!Recvs(t)
           /\ T!Now(t)[1] = "join" => T!Joins(t)
           /\ T!Now(t)[1] = "load" => T!Loads(t)
           /\ T!Now(t)[1] = "store" => T!Stores(t)
           /\ T!Now(t)[1] = "print" => T!Prints(t)
           /\ T!Now(t)[1] = "set" => T!Sets(t)
           /\ T!Now(t)[1] = "look" => T!Looks(t)
           /\ T!Now(t)[1] = "lock" => T!Locks(t)
           /\ T!Now(t)[1] = "unlock" => T!Unlocks(t)
           /\ T!Now(t)[1] = "take" => T!Takes(t)
           /\ T!Now(t)[1] = "post" => T!Posts(t)
           /\ T!Now(t)[1] = "setevent" => T!SetsEvent(t)
           /\ T!Now(t)[1] = "waitevent" => T!WaitsEvent(t)
           /\ T!Now(t)[1] = "destroy" => T!Destroys(t)
<1>1. /\ T!Creates(t) => T!Now(t)[1] = "create"
      /\ T!Returns(t) => T!Now(t)[1] = "return"
  BY DEF T!Creates, T!Returns
<1>2. /\ T!Waits(t) => T!Now(t)[1] = "wait"
      /\ T!Handles(t) => T!Now(t)[1] = "sigchld"
      /\ T!Alarms(t) => T!Now(t)[1] = "alarm"
      /\ T!Sleeps(t) => T!Now(t)[1] = "sleep"
      /\ T!Sends(t) => T!Now(t)[1] = "send"
      /\ T!Recvs(t) => T!Now(t)[1] = "recv"
      /\ T!Joins(t) => T!Now(t)[1] = "join"
      /\ T!Loads(t) => T!Now(t)[1] = "load"
      /\ T!Stores(t) => T!Now(t)[1] = "store"
      /\ T!Prints(t) => T!Now(t)[1] = "print"
      /\ T!Sets(t) => T!Now(t)[1] = "set"
  BY DEF T!Waits, T!Handles, T!Alarms, T!Sleeps, T!Sends, T!Recvs, T!Joins, T!Loads, T!Stores,
         T!Prints, T!Sets, T!Does
<1>3. /\ T!Looks(t) => T!Now(t)[1] = "look"
      /\ T!Locks(t) => T!Now(t)[1] = "lock"
      /\ T!Unlocks(t) => T!Now(t)[1] = "unlock"
      /\ T!Takes(t) => T!Now(t)[1] = "take"
      /\ T!Posts(t) => T!Now(t)[1] = "post"
      /\ T!SetsEvent(t) => T!Now(t)[1] = "setevent"
      /\ T!WaitsEvent(t) => T!Now(t)[1] = "waitevent"
      /\ T!Destroys(t) => T!Now(t)[1] = "destroy"
  BY DEF T!Looks, T!Locks, T!Unlocks, T!Takes, T!Posts, T!SetsEvent, T!WaitsEvent, T!Destroys, T!Does
<1>4. QED BY <1>1, <1>2, <1>3 DEF Acts, T!Process, T!Thread

\* Where a task is in its script.
LEMMA NowIs ==
    ASSUME TaskShape, NEW t \in T!Tasks
    PROVE  /\ Todo(t) \in Nat /\ (Todo(t) = 0 <=> ops[t] = <<>>)
           /\ Todo(t) = 0 => T!Now(t) = <<"end">>
           /\ Todo(t) > 0 => T!Now(t) = ops[t][1]
           /\ AtScript(t) /\ Todo(t) > 0 => T!Now(t) = CallLeft(t, Todo(t))
<1>1. ops[t] \in Seq(Allowed(prog))
  BY DEF TaskShape
<1>2. \A C : \A s \in Seq(C) : Len(s) \in Nat /\ (Len(s) = 0 <=> s = <<>>) /\ (Len(s) > 0 => Head(s) = s[1])
  OBVIOUS
<1>3. Todo(t) \in Nat /\ (Todo(t) = 0 <=> ops[t] = <<>>) /\ (Todo(t) > 0 => Head(ops[t]) = ops[t][1])
  BY <1>1, <1>2 DEF Todo
<1>4. (Todo(t) = 0 => T!Now(t) = <<"end">>) /\ (Todo(t) > 0 => T!Now(t) = ops[t][1])
  BY <1>3 DEF T!Now
<1>5. AtScript(t) /\ Todo(t) > 0 => ops[t][1] = Script(t)[Len(Script(t)) - Todo(t) + 1]
  BY <1>3 DEF AtScript
<1>6. QED BY <1>3, <1>4, <1>5 DEF CallLeft

\* A call that is done leaves the script and nothing else.
LEMMA OneCall ==
    ASSUME TaskShape, NEW t \in T!Tasks, prog' = prog, ops[t] # <<>>,
           ops' = [ops EXCEPT ![t] = Tail(@)]
    PROVE  /\ ops' \in [T!Tasks -> Seq(Allowed(prog))]
           /\ Todo(t)' = Todo(t) - 1 /\ \A u \in T!Tasks \ {t} : Todo(u)' = Todo(u)
           /\ \A u : Script(u)' = Script(u)
           /\ \A u \in T!Tasks : AtScript(u) /\ Len(Script(u)) \in Nat => AtScript(u)'
<1>1. ops \in [T!Tasks -> Seq(Allowed(prog))]
  BY DEF TaskShape
<1>2. \A C : \A s \in Seq(C) : s # <<>> => /\ Tail(s) \in Seq(C) /\ Len(Tail(s)) = Len(s) - 1 /\ Len(s) \in Nat
                                           /\ \A n \in 1..Len(s) - 1 : Tail(s)[n] = s[n + 1]
  OBVIOUS
<1>3. /\ Tail(ops[t]) \in Seq(Allowed(prog)) /\ Len(Tail(ops[t])) = Len(ops[t]) - 1 /\ Len(ops[t]) \in Nat
      /\ \A n \in 1..Len(ops[t]) - 1 : Tail(ops[t])[n] = ops[t][n + 1]
  BY <1>1, <1>2
<1>4. ops'[t] = Tail(ops[t]) /\ \A u \in T!Tasks \ {t} : ops'[u] = ops[u]
  BY <1>1
<1>5. ops' \in [T!Tasks -> Seq(Allowed(prog))]
  BY <1>1, <1>3
<1>6. Todo(t)' = Todo(t) - 1 /\ \A u \in T!Tasks \ {t} : Todo(u)' = Todo(u)
  BY <1>3, <1>4 DEF Todo
<1>7. \A u : Script(u)' = Script(u)
  BY Zenon DEF Script
<1>8. ASSUME AtScript(t), Len(Script(t)) \in Nat PROVE AtScript(t)'
  <2> DEFINE m == Len(Script(t))
             k == Len(ops[t])
  <2>1. k <= m /\ \A n \in 1..k : ops[t][n] = Script(t)[m - k + n]
    BY <1>8 DEF AtScript, Todo
  <2>2. m \in Nat /\ k \in Nat /\ \A n \in 1..k - 1 : ops'[t][n] = ops[t][n + 1]
    BY <1>3, <1>4, <1>8
  <2> HIDE DEF m, k
  <2>3. ASSUME NEW n \in 1..k - 1 PROVE ops'[t][n] = Script(t)[m - (k - 1) + n]
    <3>1. n + 1 \in 1..k /\ m - k + (n + 1) = m - (k - 1) + n
      BY <2>2
    <3>2. QED BY <2>1, <2>2, <3>1
  <2>4. k - 1 <= m /\ Todo(t)' = k - 1
    BY <1>6, <2>1, <2>2 DEF Todo, k
  <2>5. QED BY <1>7, <2>3, <2>4 DEF AtScript, m
<1>9. ASSUME NEW u \in T!Tasks, u # t, AtScript(u) PROVE AtScript(u)'
  BY <1>4, <1>6, <1>7, <1>9 DEF AtScript
<1>10. QED BY <1>5, <1>6, <1>7, <1>8, <1>9
\* Create: the other begins its script.
LEMMA CreateCall ==
    ASSUME TaskShape, NEW t \in T!Tasks, T!Creates(t), ops[t] # <<>>,
           \A u \in T!Tasks : Script(u) \in Seq(Allowed(prog)),
           NEW k, k = T!Now(t)[2]
    PROVE  /\ k \in T!Kids /\ k \in DOMAIN T!Programs[prog].body
           /\ ops'[k] = Script(k)
           /\ t # k => Todo(t)' = Todo(t) - 1 /\ ops'[t] = Tail(ops[t])
           /\ \A u \in T!Tasks \ {t, k} : ops'[u] = ops[u] /\ Todo(u)' = Todo(u)
           /\ Todo(k)' = Len(Script(k))
           /\ ops' \in [T!Tasks -> Seq(Allowed(prog))]
           /\ \A u : Script(u)' = Script(u)
           /\ t # k => \A u \in T!Tasks : AtScript(u) => AtScript(u)'
<1> DEFINE C == Allowed(prog)
<1>1. ops \in [T!Tasks -> Seq(C)] /\ Todo(t) \in Nat /\ Todo(t) > 0 /\ T!Now(t) = ops[t][1]
  <2>1. Todo(t) \in Nat /\ (Todo(t) = 0 <=> ops[t] = <<>>) /\ (Todo(t) > 0 => T!Now(t) = ops[t][1])
    BY NowIs
  <2>2. QED BY <2>1 DEF TaskShape
<1>2. \A D0 : \A s \in Seq(D0) : Len(s) > 0 => s[1] \in D0
  OBVIOUS
<1>3. T!Now(t) \in C
  <2>1. ops[t] \in Seq(C) /\ Len(ops[t]) > 0
    BY <1>1 DEF Todo
  <2>2. QED BY <1>1, <1>2, <2>1
<1>4. k \in T!Kids /\ k \in DOMAIN T!Programs[prog].body
  BY <1>3 DEF Allowed, T!Creates
<1>5. k \in T!Tasks /\ k # 0
  BY <1>4, ProgramConstants DEF T!Tasks, T!Kids
<1>6. Script(k) = T!Programs[prog].body[k] \o <<T!Op("return")>>
  BY <1>4, <1>5 DEF Script
<1>7. /\ ops' = [ops EXCEPT ![t] = Tail(@), ![k] = Script(k)] /\ prog' = prog
  BY <1>6 DEF T!Creates
<1> HIDE DEF C
<1>8. ops'[k] = Script(k) /\ (t # k => ops'[t] = Tail(ops[t])) /\ \A u \in T!Tasks \ {t, k} : ops'[u] = ops[u]
  BY <1>1, <1>5, <1>7
<1>9. /\ Todo(k)' = Len(Script(k)) /\ (t # k => Todo(t)' = Todo(t) - 1)
      /\ \A u \in T!Tasks \ {t, k} : Todo(u)' = Todo(u)
  <2>1. \A D0 : \A s \in Seq(D0) : Len(s) > 0 => Len(Tail(s)) = Len(s) - 1 /\ Tail(s) \in Seq(D0)
    OBVIOUS
  <2>2. Len(Tail(ops[t])) = Len(ops[t]) - 1 /\ Tail(ops[t]) \in Seq(C)
    BY <1>1, <2>1 DEF Todo
  <2>3. Todo(k)' = Len(Script(k))
    BY <1>8 DEF Todo
  <2>4. t # k => Todo(t)' = Todo(t) - 1
    BY <1>8, <2>2 DEF Todo
  <2>5. ASSUME NEW u \in T!Tasks \ {t, k} PROVE Todo(u)' = Todo(u)
    BY <1>8, <2>5 DEF Todo
  <2>6. QED BY <2>3, <2>4, <2>5
<1>10. ops' \in [T!Tasks -> Seq(C)]
  <2>1. \A D0 : \A s \in Seq(D0) : Len(s) > 0 => Tail(s) \in Seq(D0)
    OBVIOUS
  <2>2. Tail(ops[t]) \in Seq(C)
    BY <1>1, <2>1 DEF Todo
  <2>3. Script(k) \in Seq(C)
    BY <1>5 DEF C
  <2>4. QED BY <1>1, <1>7, <2>2, <2>3
<1>11. \A u : Script(u)' = Script(u)
  BY <1>7, Zenon DEF Script
<1>12. ASSUME t # k, NEW u \in T!Tasks, AtScript(u) PROVE AtScript(u)'
  <2>1. CASE u = k
    <3>1. Len(Script(k)) \in Nat /\ Todo(k)' = Len(Script(k)) /\ ops'[k] = Script(k) /\ Script(k)' = Script(k)
      <4>1. \A D0 : \A s \in Seq(D0) : Len(s) \in Nat
        OBVIOUS
      <4>2. Script(k) \in Seq(C)
        BY <1>5 DEF C
      <4>3. QED BY <1>8, <1>9, <1>11, <4>1, <4>2
    <3>2. \A n \in 1..Len(Script(k)) : Script(k)[n] = Script(k)[Len(Script(k)) - Len(Script(k)) + n]
      BY <3>1
    <3>3. Todo(k)' <= Len(Script(k)) /\ \A n \in 1..Todo(k)' : ops'[k][n] = Script(k)[Len(Script(k)) - Todo(k)' + n]
      BY <3>1, <3>2
    <3>4. AtScript(k)'
      BY <3>1, <3>3 DEF AtScript
    <3>5. QED BY <2>1, <3>4
  <2>2. CASE u = t
    <3> DEFINE s == Script(t)
               o == ops[t]
    <3>1. Len(s) \in Nat /\ Len(o) \in Nat /\ Len(o) > 0
      <4>1. \A D0 : \A x \in Seq(D0) : Len(x) \in Nat
        OBVIOUS
      <4>2. QED BY <1>1, <4>1 DEF Todo
    <3>2. Len(o) <= Len(s) /\ \A n \in 1..Len(o) : o[n] = s[Len(s) - Len(o) + n]
      BY <1>12, <2>2 DEF AtScript, Todo
    <3>3. \A n \in 1..Len(o) - 1 : Tail(o)[n] = o[n + 1]
      <4>1. \A D0 : \A x \in Seq(D0) : \A n \in 1..Len(x) - 1 : Tail(x)[n] = x[n + 1]
        OBVIOUS
      <4>2. QED BY <1>1, <4>1
    <3> HIDE DEF s, o
    <3>4. ASSUME NEW n \in 1..Len(o) - 1 PROVE Tail(o)[n] = s[Len(s) - (Len(o) - 1) + n]
      <4>1. n + 1 \in 1..Len(o) /\ Len(s) - Len(o) + (n + 1) = Len(s) - (Len(o) - 1) + n
        BY <3>1
      <4>2. QED BY <3>2, <3>3, <4>1
    <3>5. Todo(t)' = Len(o) - 1 /\ ops'[t] = Tail(o) /\ s' = s
      BY <1>8, <1>9, <1>11, <1>12 DEF o, Todo, s
    <3>6. Len(o) - 1 <= Len(s)
      BY <3>1, <3>2
    <3>7. QED BY <2>2, <3>4, <3>5, <3>6 DEF AtScript, s
  <2>3. CASE u # k /\ u # t
    BY <1>8, <1>9, <1>11, <1>12, <2>3 DEF AtScript
  <2>4. QED BY <2>1, <2>2, <2>3
<1>13. QED BY <1>4, <1>8, <1>9, <1>10, <1>11, <1>12 DEF C

\* Return: with main its threads end.
LEMMA ReturnCall ==
    ASSUME TaskShape, NEW t \in T!Tasks, T!Returns(t),
           \A u \in T!Tasks : Script(u) \in Seq(Allowed(prog))
    PROVE  /\ ops' \in [T!Tasks -> Seq(Allowed(prog))]
           /\ \A u : Script(u)' = Script(u)
           /\ Todo(t)' = 0
           /\ \A u \in T!Tasks \ {t} :
                 IF t = 0 /\ prog \notin T!Forks THEN Todo(u)' = 0 /\ ops'[u] = <<>>
                 ELSE Todo(u)' = Todo(u) /\ ops'[u] = ops[u]
           /\ \A u \in T!Tasks : AtScript(u) => AtScript(u)'
<1>1. /\ ops' = [u \in T!Tasks |-> IF u = t \/ (t = 0 /\ prog \notin T!Forks) THEN <<>> ELSE ops[u]]
      /\ prog' = prog
  BY DEF T!Returns, T!main
<1>2. ops \in [T!Tasks -> Seq(Allowed(prog))]
  BY DEF TaskShape
<1>3. <<>> \in Seq(Allowed(prog)) /\ Len(<<>>) = 0
  OBVIOUS
<1>4. ops' \in [T!Tasks -> Seq(Allowed(prog))]
  BY <1>1, <1>2, <1>3
<1>5. \A u : Script(u)' = Script(u)
  BY <1>1, Zenon DEF Script
<1>6. \A u \in T!Tasks : ops'[u] = <<>> \/ ops'[u] = ops[u]
  BY <1>1
<1>7. /\ Todo(t)' = 0
      /\ \A u \in T!Tasks \ {t} :
                 IF t = 0 /\ prog \notin T!Forks THEN Todo(u)' = 0 /\ ops'[u] = <<>>
                 ELSE Todo(u)' = Todo(u) /\ ops'[u] = ops[u]
  BY <1>1, <1>3 DEF Todo
<1>8. ASSUME NEW u \in T!Tasks, AtScript(u) PROVE AtScript(u)'
  <2>1. CASE ops'[u] = ops[u]
    BY <1>5, <1>8, <2>1 DEF AtScript, Todo
  <2>2. CASE ops'[u] = <<>>
    <3>1. Todo(u)' = 0
      BY <1>3, <2>2 DEF Todo
    <3>2. Len(Script(u)) \in Nat
      <4>1. \A C : \A s \in Seq(C) : Len(s) \in Nat
        OBVIOUS
      <4>2. QED BY <4>1
    <3>3. \A n \in 1..0 : ops'[u][n] = Script(u)[Len(Script(u)) - 0 + n]
      OBVIOUS
    <3>4. QED BY <1>5, <3>1, <3>2, <3>3 DEF AtScript
  <2>3. QED BY <1>6, <2>1, <2>2
<1>9. QED BY <1>4, <1>5, <1>7, <1>8
\* What a call may change besides its own task's script.
Frame(t) ==
    /\ prog' = prog
    /\ DOMAIN mem' = DOMAIN mem /\ DOMAIN reg' = DOMAIN reg /\ DOMAIN output' = DOMAIN output
    /\ DOMAIN pipe' = DOMAIN pipe /\ DOMAIN signals' = DOMAIN signals
    /\ \/ T!Creates(t) \/ T!Returns(t)
       \/ ops' = [ops EXCEPT ![t] = Tail(@)]
    /\ signals' = signals \/ T!Handles(t) \/ T!Returns(t)
    /\ armed' = armed \/ T!Alarms(t)
    /\ gone' = gone \/ T!Destroys(t)

LEMMA CallFrame ==
    ASSUME NEW t, Acts(t), DOMAIN signals = {"handled", "pending", "merged"} PROVE Frame(t)
<1>1. CASE T!Creates(t)
  BY <1>1 DEF Frame, T!Creates, T!sync, T!kernel
<1>2. CASE T!Returns(t)
  BY <1>2 DEF Frame, T!Returns, T!sync
<1>3. CASE T!Waits(t) \/ T!Handles(t) \/ T!Alarms(t)
  BY <1>3 DEF Frame, T!Waits, T!Collects, T!Handles, T!Alarms, T!Does, T!Shows, T!sync
<1>4. CASE T!Sleeps(t) \/ T!Joins(t) \/ T!WaitsEvent(t)
  BY <1>4 DEF Frame, T!Sleeps, T!Joins, T!WaitsEvent, T!Does, T!sync, T!kernel
<1>5. CASE T!Sends(t) \/ T!Recvs(t)
  BY <1>5 DEF Frame, T!Sends, T!Recvs, T!Does, T!sync
<1>6. CASE T!Loads(t) \/ T!Stores(t) \/ T!Prints(t) \/ T!Sets(t) \/ T!Looks(t)
  BY <1>6 DEF Frame, T!Loads, T!Stores, T!Prints, T!Sets, T!Looks, T!Does, T!Shows, T!sync, T!kernel
<1>7. CASE T!Locks(t) \/ T!Unlocks(t) \/ T!Takes(t) \/ T!Posts(t)
  BY <1>7 DEF Frame, T!Locks, T!Unlocks, T!Takes, T!Posts, T!Does, T!kernel
<1>8. CASE T!SetsEvent(t) \/ T!Destroys(t)
  BY <1>8 DEF Frame, T!SetsEvent, T!Destroys, T!Does, T!kernel
<1>9. QED BY <1>1, <1>2, <1>3, <1>4, <1>5, <1>6, <1>7, <1>8 DEF Acts, T!Process, T!Thread

LEMMA NextCases ==
    ASSUME T!Next
    PROVE  \/ \E t \in T!Tasks : ops[t] # <<>> /\ Acts(t)
           \/ T!read_childproc \/ T!timeout \/ T!keycontrol \/ T!end_program
BY DEF T!Next, T!Progress, Acts

LEMMA NowAllowed ==
    ASSUME TaskShape, NEW t \in T!Tasks, ops[t] # <<>>
    PROVE  T!Now(t) \in Allowed(prog)
<1>1. ops[t] \in Seq(Allowed(prog))
  BY DEF TaskShape
<1>2. \A C : \A s \in Seq(C) : s # <<>> => Head(s) \in C
  OBVIOUS
<1>3. QED BY <1>1, <1>2 DEF T!Now

LEMMA ShapeStep ==
    ASSUME TaskShape, T!Next, \A u \in T!Tasks : Script(u) \in Seq(Allowed(prog))
    PROVE  TaskShape'
<1>1. ASSUME NEW t \in T!Tasks, ops[t] # <<>>, Acts(t) PROVE TaskShape'
  <2>1. Frame(t)
    BY <1>1, CallFrame DEF TaskShape
  <2>2. T!Now(t) \in Allowed(prog)
    BY <1>1, NowAllowed
  <2>3. ops' \in [T!Tasks -> Seq(Allowed(prog))]
    <3>1. CASE T!Creates(t)
      BY <1>1, <3>1, CreateCall
    <3>2. CASE T!Returns(t)
      BY <1>1, <3>2, ReturnCall
    <3>3. CASE ops' = [ops EXCEPT ![t] = Tail(@)]
      BY <1>1, <2>1, <3>3, OneCall DEF Frame
    <3>4. QED BY <2>1, <3>1, <3>2, <3>3 DEF Frame
  <2>4. prog' = prog /\ Allowed(prog)' = Allowed(prog)
    BY <2>1 DEF Frame, Allowed
  <2>5. prog # "remove_zombie" => ~signals'.handled /\ ~signals'.pending
    <3>1. T!Handles(t) => prog = "remove_zombie"
      BY <2>2 DEF Allowed, T!Handles, T!Does
    <3>2. T!Returns(t) => signals' = signals \/ signals.handled
      BY DEF T!Returns
    <3>3. QED BY <2>1, <3>1, <3>2 DEF Frame, TaskShape
  <2>6. prog \notin {"sigaction", "signal"} => ~armed'
    <3>1. T!Alarms(t) => prog \in {"sigaction", "signal"}
      BY <2>2 DEF Allowed, T!Alarms, T!Does
    <3>2. QED BY <2>1, <3>1 DEF Frame, TaskShape
  <2>7. prog \notin CountingPrograms \cup Readers => ~gone'
    <3>1. T!Destroys(t) => prog \in CountingPrograms \cup Readers
      BY <2>2 DEF Allowed, T!Destroys, T!Does
    <3>2. QED BY <2>1, <3>1 DEF Frame, TaskShape
  <2>8. QED BY <2>1, <2>3, <2>4, <2>5, <2>6, <2>7 DEF Frame, TaskShape
<1>2. CASE T!read_childproc
  <2>1. /\ prog' = prog /\ ops' = ops /\ mem' = mem /\ reg' = reg /\ pipe' = pipe /\ armed' = armed /\ gone' = gone
        /\ signals' = [signals EXCEPT !.pending = FALSE]
        /\ DOMAIN output' = DOMAIN output
    BY <1>2 DEF T!read_childproc, T!Collects, T!Shows, T!sync
  <2>2. Allowed(prog)' = Allowed(prog)
    BY <2>1 DEF Allowed
  <2>3. QED BY <2>1, <2>2 DEF TaskShape
<1>3. CASE T!timeout \/ T!keycontrol
  <2>1. /\ prog' = prog /\ ops' = [ops EXCEPT ![0] = Tail(@)] /\ mem' = mem /\ reg' = reg /\ pipe' = pipe /\ armed' = armed
        /\ gone' = gone /\ signals' = signals /\ DOMAIN output' = DOMAIN output /\ T!Now(0)[1] = "sleep"
    BY <1>3 DEF T!timeout, T!keycontrol, T!Does, T!Shows, T!sync, T!kernel, T!main
  <2>2. Allowed(prog)' = Allowed(prog)
    BY <2>1 DEF Allowed
  <2>3. 0 \in T!Tasks
    BY DEF T!Tasks, T!main
  <2>4. ops[0] # <<>>
    <3>1. ops[0] = <<>> => T!Now(0) = <<"end">>
      BY DEF T!Now
    <3>2. <<"end">>[1] = "end"
      OBVIOUS
    <3>3. QED BY <2>1, <3>1, <3>2
  <2>5. ops' \in [T!Tasks -> Seq(Allowed(prog))]
    BY <2>1, <2>3, <2>4, OneCall
  <2>6. QED BY <2>1, <2>2, <2>5 DEF TaskShape
<1>4. CASE T!end_program
  <2>1. /\ prog' = prog /\ ops' = [ops EXCEPT ![0] = <<>>] /\ mem' = mem /\ reg' = reg /\ pipe' = pipe /\ armed' = armed
        /\ gone' = gone /\ signals' = signals /\ output' = output
    BY <1>4 DEF T!end_program, T!sync, T!kernel, T!main
  <2>2. Allowed(prog)' = Allowed(prog)
    BY <2>1 DEF Allowed
  <2>3. <<>> \in Seq(Allowed(prog))
    OBVIOUS
  <2>4. ops' \in [T!Tasks -> Seq(Allowed(prog))]
    BY <2>1, <2>3 DEF TaskShape
  <2>5. QED BY <2>1, <2>2, <2>4 DEF TaskShape
<1>5. QED BY <1>1, <1>2, <1>3, <1>4, NextCases
\* What a call does to the scripts of a program of a fixed length.
LEMMA CallDone ==
    ASSUME TaskShape, ScriptInv, \A u \in T!Tasks : Script(u) \in Seq(Allowed(prog)),
           NEW t \in T!Tasks, ops[t] # <<>>, Acts(t), t # 0 => T!Now(t)[1] # "create"
    PROVE  /\ ScriptInv' /\ prog' = prog
           /\ Todo(t) \in 1..Len(Script(t)) /\ \A u \in T!Tasks : Todo(u) \in 0..Len(Script(u))
           /\ T!Now(t) = CallLeft(t, Todo(t))
           /\ T!Now(t)[1] \notin {"create", "return"} =>
                 Todo(t)' = Todo(t) - 1 /\ \A u \in T!Tasks \ {t} : Todo(u)' = Todo(u)
           /\ \A k : T!Now(t)[1] = "create" /\ T!Now(t)[2] = k =>
                 /\ Todo(t)' = Todo(t) - 1 /\ Todo(k)' = Len(Script(k))
                 /\ \A u \in T!Tasks \ {t, k} : Todo(u)' = Todo(u)
           /\ T!Now(t)[1] = "return" =>
                 /\ Todo(t)' = 0
                 /\ t # 0 \/ prog \in T!Forks => \A u \in T!Tasks \ {t} : Todo(u)' = Todo(u)
                 /\ t = 0 /\ prog \notin T!Forks => \A u \in T!Tasks : Todo(u)' = 0
<1>1. \A u \in T!Tasks : Todo(u) \in 0..Len(Script(u)) /\ Len(Script(u)) \in Nat
  <2>1. \A C : \A s \in Seq(C) : Len(s) \in Nat
    OBVIOUS
  <2>2. \A u \in T!Tasks : Len(Script(u)) \in Nat /\ Todo(u) \in Nat /\ Todo(u) <= Len(Script(u))
    BY <2>1, NowIs DEF ScriptInv, AtScript
  <2>3. QED BY <2>2
<1>2. Todo(t) \in 1..Len(Script(t)) /\ T!Now(t) = CallLeft(t, Todo(t))
  <2>1. Todo(t) # 0 /\ AtScript(t)
    BY NowIs DEF ScriptInv
  <2>2. Todo(t) > 0
    BY <1>1, <2>1
  <2>3. QED BY <1>1, <2>1, <2>2, NowIs
<1>3. Frame(t)
  BY CallFrame DEF TaskShape
<1>4. CASE T!Now(t)[1] \notin {"create", "return"}
  <2>1. ops' = [ops EXCEPT ![t] = Tail(@)] /\ prog' = prog
    BY <1>3, <1>4 DEF Frame, T!Creates, T!Returns
  <2>2. /\ Todo(t)' = Todo(t) - 1 /\ \A u \in T!Tasks \ {t} : Todo(u)' = Todo(u)
        /\ \A u \in T!Tasks : AtScript(u)'
    BY <1>1, <2>1, OneCall DEF ScriptInv
  <2>3. T!Tasks' = T!Tasks
    OBVIOUS
  <2>4. QED BY <1>1, <1>2, <1>4, <2>1, <2>2, SMTT(30) DEF ScriptInv
<1>5. CASE T!Now(t)[1] = "create"
  <2>1. T!Creates(t) /\ prog' = prog
    BY <1>3, <1>5, ByName DEF Frame
  <2>2. ASSUME NEW k, T!Now(t)[2] = k
        PROVE  /\ Todo(t)' = Todo(t) - 1 /\ Todo(k)' = Len(Script(k))
               /\ \A u \in T!Tasks \ {t, k} : Todo(u)' = Todo(u)
               /\ \A u \in T!Tasks : AtScript(u)'
    <3>1. k \in T!Kids /\ k # t
      <4>1. k \in T!Kids
        BY <2>1, <2>2, CreateCall
      <4>2. t = 0 /\ 0 \notin T!Kids
        BY <1>5, ProgramConstants DEF T!Kids
      <4>3. QED BY <4>1, <4>2
    <3>2. QED BY <2>1, <2>2, <3>1, CreateCall DEF ScriptInv
  <2>3. \A u \in T!Tasks : AtScript(u)'
    BY <2>2
  <2>4. QED BY <1>1, <1>2, <1>5, <2>1, <2>2, <2>3 DEF ScriptInv
<1>6. CASE T!Now(t)[1] = "return"
  <2>1. T!Returns(t) /\ prog' = prog
    BY <1>3, <1>6, ByName DEF Frame
  <2>2. /\ Todo(t)' = 0
        /\ \A u \in T!Tasks \ {t} :
              IF t = 0 /\ prog \notin T!Forks THEN Todo(u)' = 0 ELSE Todo(u)' = Todo(u)
        /\ \A u \in T!Tasks : AtScript(u) => AtScript(u)'
    BY <2>1, ReturnCall
  <2>3. QED BY <1>1, <1>2, <1>6, <2>1, <2>2 DEF ScriptInv
<1>7. QED BY <1>4, <1>5, <1>6

\* Only one of them has a step that is not a task's call.
LEMMA FollowedCases ==
    ASSUME TaskShape, prog \in Followed \cup CountingPrograms, T!Next
    PROVE  \/ \E t \in T!Tasks : ops[t] # <<>> /\ Acts(t)
           \/ prog = "remove_zombie" /\ T!read_childproc
<1>1. ~T!timeout
  BY DEF T!timeout, TaskShape, Followed, Readers, CountingPrograms
<1>2. ~T!keycontrol
  BY DEF T!keycontrol, Followed, Readers, CountingPrograms
<1>3. ~T!end_program
  <2>1. SUFFICES ASSUME T!Now(0)[1] = "forever" PROVE FALSE
    BY DEF T!end_program, T!main
  <2>2. ops[0] # <<>>
    <3>1. ops[0] = <<>> => T!Now(0) = <<"end">>
      BY DEF T!Now
    <3>2. <<"end">>[1] = "end"
      OBVIOUS
    <3>3. QED BY <2>1, <3>1, <3>2
  <2>3. 0 \in T!Tasks
    BY DEF T!Tasks, T!main
  <2>4. QED BY <2>1, <2>2, <2>3, NowAllowed DEF Allowed, Followed, Readers, CountingPrograms
<1>4. T!read_childproc => prog = "remove_zombie"
  BY DEF T!read_childproc, TaskShape
<1>5. QED BY <1>1, <1>2, <1>3, <1>4, NextCases

LEMMA SomeTasks == 0 \in T!Tasks /\ 1 \in T!Tasks /\ 2 \in T!Tasks /\ T!Tasks \subseteq Nat
BY ProgramConstants DEF T!Tasks, T!Kids, T!main
\* A program whose tasks are main, with n0 calls to make, and the tasks 1 and 2 it starts, with n1 and
\* n2 calls to make, none of which starts a task.
Fixed(n0, n1, n2) ==
    /\ {0, 1, 2} \subseteq T!Tasks
    /\ Len(Script(0)) = n0 /\ Len(Script(1)) = n1 /\ Len(Script(2)) = n2
    /\ \A u \in T!Tasks \ {0, 1, 2} : Len(Script(u)) = 0
    /\ \A n \in 1..n1 : CallLeft(1, n)[1] # "create"
    /\ \A n \in 1..n2 : CallLeft(2, n)[1] # "create"

\* A step of t in such a program: which call t makes, and what it and the others have left to do.
Move(t, n0, n1, n2) ==
    /\ t \in {0, 1, 2}
    /\ t = 0 => Todo(0) \in 1..n0
    /\ t = 1 => Todo(1) \in 1..n1
    /\ t = 2 => Todo(2) \in 1..n2
    /\ T!Now(t) = CallLeft(t, Todo(t))
    /\ T!Now(t)[1] \notin {"create", "return"} =>
          /\ Todo(t)' = Todo(t) - 1
          /\ t # 0 => Todo(0)' = Todo(0)
          /\ t # 1 => Todo(1)' = Todo(1)
          /\ t # 2 => Todo(2)' = Todo(2)
    /\ T!Now(t)[1] = "return" =>
          /\ Todo(t)' = 0
          /\ t # 0 => Todo(0)' = Todo(0)
          /\ t # 1 => Todo(1)' = IF t = 0 /\ prog \notin T!Forks THEN 0 ELSE Todo(1)
          /\ t # 2 => Todo(2)' = IF t = 0 /\ prog \notin T!Forks THEN 0 ELSE Todo(2)
    /\ t = 0 /\ T!Now(t) = <<"create", 1>> => Todo(0)' = Todo(0) - 1 /\ Todo(1)' = n1 /\ Todo(2)' = Todo(2)
    /\ t = 0 /\ T!Now(t) = <<"create", 2>> => Todo(0)' = Todo(0) - 1 /\ Todo(2)' = n2 /\ Todo(1)' = Todo(1)

LEMMA TheirTurn ==
    ASSUME TaskShape, ScriptInv, NEW n0 \in Nat, NEW n1 \in Nat, NEW n2 \in Nat, Fixed(n0, n1, n2),
           NEW t \in T!Tasks, ops[t] # <<>>, Acts(t)
    PROVE  ScriptInv' /\ Move(t, n0, n1, n2) /\ Todo(0) \in 0..n0 /\ Todo(1) \in 0..n1 /\ Todo(2) \in 0..n2
<1>1. \A u \in T!Tasks : Script(u) \in Seq(Allowed(prog))
  BY ScriptTypes DEF TaskShape
<1>2. Todo(t) \in 1..Len(Script(t)) /\ T!Now(t) = CallLeft(t, Todo(t))
  <2>1. AtScript(t) /\ Todo(t) \in Nat /\ Todo(t) # 0
    BY NowIs DEF ScriptInv
  <2>2. Todo(t) > 0 /\ Todo(t) <= Len(Script(t))
    BY <2>1 DEF AtScript
  <2>3. Len(Script(t)) \in Nat
    BY DEF Fixed
  <2>4. QED BY <2>1, <2>2, <2>3, NowIs
<1>3. t \in {0, 1, 2}
  BY <1>2 DEF Fixed
<1>4. t # 0 => T!Now(t)[1] # "create"
  BY <1>2, <1>3 DEF Fixed
<1>5. /\ ScriptInv' /\ Todo(0) \in 0..n0 /\ Todo(1) \in 0..n1 /\ Todo(2) \in 0..n2
      /\ T!Now(t)[1] \notin {"create", "return"} =>
            Todo(t)' = Todo(t) - 1 /\ \A u \in T!Tasks \ {t} : Todo(u)' = Todo(u)
      /\ T!Now(t)[1] = "return" =>
            /\ Todo(t)' = 0
            /\ t # 0 \/ prog \in T!Forks => \A u \in T!Tasks \ {t} : Todo(u)' = Todo(u)
            /\ t = 0 /\ prog \notin T!Forks => \A u \in T!Tasks : Todo(u)' = 0
  BY <1>1, <1>4, CallDone DEF Fixed
<1>6. ASSUME NEW k \in {1, 2}, t = 0, T!Now(t) = <<"create", k>>
      PROVE  Todo(0)' = Todo(0) - 1 /\ Todo(k)' = Len(Script(k)) /\ \A u \in T!Tasks \ {0, k} : Todo(u)' = Todo(u)
  <2>1. T!Now(t)[1] = "create" /\ T!Now(t)[2] = k
    BY <1>6
  <2>2. QED BY <1>1, <1>4, <1>6, <2>1, CallDone
<1>7. {0, 1, 2} \subseteq T!Tasks /\ Len(Script(1)) = n1 /\ Len(Script(2)) = n2
  BY DEF Fixed
<1>8. t = 0 /\ T!Now(t) = <<"create", 1>> => Todo(0)' = Todo(0) - 1 /\ Todo(1)' = n1 /\ Todo(2)' = Todo(2)
  <2>1. 2 \in T!Tasks \ {0, 1}
    BY <1>7
  <2>2. QED BY <1>6, <1>7, <2>1
<1>9. t = 0 /\ T!Now(t) = <<"create", 2>> => Todo(0)' = Todo(0) - 1 /\ Todo(2)' = n2 /\ Todo(1)' = Todo(1)
  <2>1. 1 \in T!Tasks \ {0, 2}
    BY <1>7
  <2>2. QED BY <1>6, <1>7, <2>1
<1>10. t = 0 => Todo(0) \in 1..n0
  BY <1>2 DEF Fixed
<1>11. t = 1 => Todo(1) \in 1..n1
  BY <1>2 DEF Fixed
<1>12. t = 2 => Todo(2) \in 1..n2
  BY <1>2 DEF Fixed
<1>13. T!Now(t)[1] = "return" =>
          /\ Todo(t)' = 0
          /\ t # 0 => Todo(0)' = Todo(0)
          /\ t # 1 => Todo(1)' = IF t = 0 /\ prog \notin T!Forks THEN 0 ELSE Todo(1)
          /\ t # 2 => Todo(2)' = IF t = 0 /\ prog \notin T!Forks THEN 0 ELSE Todo(2)
  BY <1>5, <1>7
<1>14. T!Now(t)[1] \notin {"create", "return"} =>
          /\ Todo(t)' = Todo(t) - 1
          /\ t # 0 => Todo(0)' = Todo(0)
          /\ t # 1 => Todo(1)' = Todo(1)
          /\ t # 2 => Todo(2)' = Todo(2)
  BY <1>5, <1>7
<1>15. QED BY <1>2, <1>3, <1>5, <1>8, <1>9, <1>10, <1>11, <1>12, <1>13, <1>14 DEF Move

LEMMA ForkStep ==
    ASSUME TaskShape, ScriptInv, ForkInv, prog = "fork", T!Next
    PROVE  ScriptInv' /\ ForkInv'
<1>1. Fixed(7, 4, 0)
  <2>1. Len(<<>>) = 0 /\ {0, 1, 2} \subseteq T!Tasks
    BY SomeTasks
  <2>2. QED BY <2>1, ForkScripts DEF Fixed
<1>2. PICK t \in T!Tasks : ops[t] # <<>> /\ Acts(t)
  BY FollowedCases DEF Followed, Readers
<1>3. Move(t, 7, 4, 0)
  BY <1>1, <1>2, TheirTurn
<1>4. ScriptInv' /\ 0 \in T!Tasks /\ 1 \in T!Tasks /\ 2 \in T!Tasks /\ Todo(0) \in 0..7 /\ Todo(1) \in 0..4
  BY <1>1, <1>2, TheirTurn, SomeTasks
<1>5. CASE t = 0 /\ Todo(0) = 7
  <2>1. T!Now(0) = <<"load">>
    BY <1>3, <1>5, ForkScripts DEF Move
  <2>2. T!Loads(0) /\ Todo(0)' = 6 /\ Todo(1)' = Todo(1)
    BY <1>2, <1>3, <1>5, <2>1, ByName DEF Move
  <2>3. /\ reg'[0] = mem[0] /\ mem' = mem /\ reg'[1] = reg[1] /\ output' = output
    BY <1>4, <2>1, <2>2 DEF T!Loads, T!Does, T!Space, T!Forks, T!main, TaskShape
  <2>4. QED BY <1>4, <1>5, <2>2, <2>3 DEF ForkInv
<1>6. CASE t = 0 /\ Todo(0) = 6
  <2>1. T!Now(0) = <<"store", 1>>
    BY <1>3, <1>6, ForkScripts DEF Move
  <2>2. T!Stores(0) /\ Todo(0)' = 5 /\ Todo(1)' = Todo(1)
    BY <1>2, <1>3, <1>6, <2>1, ByName DEF Move
  <2>3. /\ mem'[0] = reg[0] + 1 /\ mem'[1] = mem[1] /\ reg' = reg /\ output' = output
    BY <1>4, <2>1, <2>2 DEF T!Stores, T!Does, T!Space, T!Forks, T!main, TaskShape
  <2>4. QED BY <1>4, <1>6, <2>2, <2>3 DEF ForkInv
<1>7. CASE t = 0 /\ Todo(0) = 5
  <2>1. T!Now(0) = <<"create", 1>>
    BY <1>3, <1>7, ForkScripts DEF Move
  <2>2. T!Creates(0) /\ Todo(0)' = 4 /\ Todo(1)' = 4
    BY <1>2, <1>3, <1>7, <2>1, ByName DEF Move
  <2>3. /\ mem'[1] = mem[0] /\ mem'[0] = mem[0] /\ reg' = reg /\ output' = output
    BY <1>4, <2>1, <2>2 DEF T!Creates, T!main, TaskShape
  <2>4. QED BY <1>4, <1>7, <2>2, <2>3 DEF ForkInv
<1>8. CASE t = 0 /\ Todo(0) = 4
  <2>1. T!Now(0) = <<"load">>
    BY <1>3, <1>8, ForkScripts DEF Move
  <2>2. T!Loads(0) /\ Todo(0)' = 3 /\ Todo(1)' = Todo(1)
    BY <1>2, <1>3, <1>8, <2>1, ByName DEF Move
  <2>3. /\ reg'[0] = mem[0] /\ mem' = mem /\ reg'[1] = reg[1] /\ output' = output
    BY <1>4, <2>1, <2>2 DEF T!Loads, T!Does, T!Space, T!Forks, T!main, TaskShape
  <2>4. QED BY <1>4, <1>8, <2>2, <2>3 DEF ForkInv
<1>9. CASE t = 0 /\ Todo(0) = 3
  <2>1. T!Now(0) = <<"store", -2>>
    BY <1>3, <1>9, ForkScripts DEF Move
  <2>2. T!Stores(0) /\ Todo(0)' = 2 /\ Todo(1)' = Todo(1)
    BY <1>2, <1>3, <1>9, <2>1, ByName DEF Move
  <2>3. /\ mem'[0] = reg[0] + (-2) /\ mem'[1] = mem[1] /\ reg' = reg /\ output' = output
    BY <1>4, <2>1, <2>2 DEF T!Stores, T!Does, T!Space, T!Forks, T!main, TaskShape
  <2>4. QED BY <1>4, <1>9, <2>2, <2>3 DEF ForkInv
<1>10. CASE t = 0 /\ Todo(0) = 2
  <2>1. T!Now(0) = <<"print">>
    BY <1>3, <1>10, ForkScripts DEF Move
  <2>2. T!Prints(0) /\ Todo(0)' = 1 /\ Todo(1)' = Todo(1)
    BY <1>2, <1>3, <1>10, <2>1, ByName DEF Move
  <2>3. /\ output'[0] = Append(output[0], mem[0]) /\ mem' = mem /\ reg' = reg
        /\ output'[1] = output[1]
    BY <1>4, <2>1, <2>2 DEF T!Prints, T!Does, T!Shows, T!Space, T!Forks, T!main, TaskShape
  <2>4. output[0] = <<>> => output'[0] = <<mem[0]>>
    BY <2>3, Short, Zenon
  <2>5. /\ mem' = mem /\ reg' = reg /\ output'[1] = output[1]
    BY <2>3
  <2>6. QED BY <1>4, <1>10, <2>2, <2>4, <2>5 DEF ForkInv
<1>11. CASE t = 0 /\ Todo(0) = 1
  <2>1. T!Now(0) = <<"return">>
    BY <1>3, <1>11, ForkScripts DEF Move
  <2>2. T!Returns(0) /\ Todo(0)' = 0 /\ Todo(1)' = Todo(1)
    BY <1>2, <1>3, <1>11, <2>1, ByName DEF Move, T!Forks
  <2>3. /\ mem' = mem /\ reg' = reg /\ output' = output
    BY <1>4, <2>1, <2>2 DEF T!Returns, TaskShape
  <2>4. QED BY <1>4, <1>11, <2>2, <2>3 DEF ForkInv
<1>12. CASE t = 1 /\ Todo(1) = 4
  <2>1. T!Now(1) = <<"load">>
    BY <1>3, <1>12, ForkScripts DEF Move
  <2>2. T!Loads(1) /\ Todo(0)' = Todo(0) /\ Todo(1)' = 3
    BY <1>2, <1>3, <1>12, <2>1, ByName DEF Move
  <2>3. /\ reg'[1] = mem[1] /\ mem' = mem /\ reg'[0] = reg[0] /\ output' = output
    BY <1>4, <2>1, <2>2 DEF T!Loads, T!Does, T!Space, T!Forks, T!main, TaskShape
  <2>4. QED BY <1>4, <1>12, <2>2, <2>3 DEF ForkInv
<1>13. CASE t = 1 /\ Todo(1) = 3
  <2>1. T!Now(1) = <<"store", 2>>
    BY <1>3, <1>13, ForkScripts DEF Move
  <2>2. T!Stores(1) /\ Todo(0)' = Todo(0) /\ Todo(1)' = 2
    BY <1>2, <1>3, <1>13, <2>1, ByName DEF Move
  <2>3. /\ mem'[1] = reg[1] + 2 /\ mem'[0] = mem[0] /\ reg' = reg /\ output' = output
    BY <1>4, <2>1, <2>2 DEF T!Stores, T!Does, T!Space, T!Forks, T!main, TaskShape
  <2>4. QED BY <1>4, <1>13, <2>2, <2>3 DEF ForkInv
<1>14. CASE t = 1 /\ Todo(1) = 2
  <2>1. T!Now(1) = <<"print">>
    BY <1>3, <1>14, ForkScripts DEF Move
  <2>2. T!Prints(1) /\ Todo(0)' = Todo(0) /\ Todo(1)' = 1
    BY <1>2, <1>3, <1>14, <2>1, ByName DEF Move
  <2>3. /\ output'[1] = Append(output[1], mem[1]) /\ mem' = mem /\ reg' = reg
        /\ output'[0] = output[0]
    BY <1>4, <2>1, <2>2 DEF T!Prints, T!Does, T!Shows, T!Space, T!Forks, T!main, TaskShape
  <2>4. output[1] = <<>> => output'[1] = <<mem[1]>>
    BY <2>3, Short, Zenon
  <2>5. /\ mem' = mem /\ reg' = reg /\ output'[0] = output[0]
    BY <2>3
  <2>6. QED BY <1>4, <1>14, <2>2, <2>4, <2>5 DEF ForkInv
<1>15. CASE t = 1 /\ Todo(1) = 1
  <2>1. T!Now(1) = <<"return">>
    BY <1>3, <1>15, ForkScripts DEF Move
  <2>2. T!Returns(1) /\ Todo(0)' = Todo(0) /\ Todo(1)' = 0
    BY <1>2, <1>3, <1>15, <2>1, ByName DEF Move
  <2>3. /\ mem' = mem /\ reg' = reg /\ output' = output
    BY <1>4, <2>1, <2>2 DEF T!Returns, TaskShape
  <2>4. QED BY <1>4, <1>15, <2>2, <2>3 DEF ForkInv
<1>16. QED BY <1>3, <1>5, <1>6, <1>7, <1>8, <1>9, <1>10, <1>11, <1>12, <1>13, <1>14, <1>15 DEF Move

\* What a task reads from a pipe is all that is in it.
LEMMA PipeRead ==
    ASSUME TaskShape, NEW t \in T!Tasks, NEW k \in {1, 2}, T!Now(t) = <<"recv", k>>, T!Recvs(t)
    PROVE  /\ pipe[k] # <<>> /\ pipe'[k] = <<>> /\ output'[t] = output[t] \o pipe[k]
           /\ \A u \in T!Tasks : u # t => output'[u] = output[u]
           /\ \A o \in {1, 2} : o # k => pipe'[o] = pipe[o]
<1>1. T!Now(t)[2] = k
  OBVIOUS
<1>2. pipe[T!Now(t)[2]] # <<>>
  BY DEF T!Recvs
<1>3. output' = [output EXCEPT ![t] = output[t] \o pipe[T!Now(t)[2]]]
  BY Zenon DEF T!Recvs
<1>4. pipe' = [pipe EXCEPT ![T!Now(t)[2]] = <<>>]
  BY DEF T!Recvs
<1>5. PICK text : text = output[t] \o pipe[T!Now(t)[2]]
  OBVIOUS
<1>6. output' = [output EXCEPT ![t] = text]
  BY <1>3, <1>5, Zenon
<1>7. output'[t] = text /\ \A u \in T!Tasks : u # t => output'[u] = output[u]
  BY <1>6 DEF TaskShape
<1>8. text = output[t] \o pipe[k]
  BY <1>1, <1>5, Zenon
<1>9. pipe' = [pipe EXCEPT ![k] = <<>>]
  BY <1>1, <1>4, Zenon
<1>10. DOMAIN pipe = 1..2 /\ pipe[k] # <<>>
  BY <1>1, <1>2 DEF TaskShape
<1>11. pipe'[k] = <<>> /\ \A o \in {1, 2} : o # k => pipe'[o] = pipe[o]
  BY <1>9, <1>10
<1>12. QED BY <1>7, <1>8, <1>10, <1>11, Zenon
LEMMA PipeReads ==
    ASSUME TaskShape, NEW t \in T!Tasks, T!Recvs(t)
    PROVE  /\ T!Now(t) = <<"recv", 1>> =>
                 /\ pipe[1] # <<>> /\ pipe'[1] = <<>> /\ pipe'[2] = pipe[2]
                 /\ output'[t] = output[t] \o pipe[1]
                 /\ \A u \in T!Tasks : u # t => output'[u] = output[u]
           /\ T!Now(t) = <<"recv", 2>> =>
                 /\ pipe[2] # <<>> /\ pipe'[2] = <<>> /\ pipe'[1] = pipe[1]
                 /\ output'[t] = output[t] \o pipe[2]
                 /\ \A u \in T!Tasks : u # t => output'[u] = output[u]
<1>1. 1 \in {1, 2} /\ 2 \in {1, 2} /\ 1 # 2
  OBVIOUS
<1>2. QED BY <1>1, PipeRead, Zenon


LEMMA Pipe1Step ==
    ASSUME TaskShape, ScriptInv, Pipe1Inv, prog = "pipe1", T!Next
    PROVE  ScriptInv' /\ Pipe1Inv'
<1>1. Fixed(3, 2, 0)
  <2>1. Len(<<>>) = 0 /\ {0, 1, 2} \subseteq T!Tasks
    BY SomeTasks
  <2>2. QED BY <2>1, Pipe1Scripts DEF Fixed
<1>2. PICK t \in T!Tasks : ops[t] # <<>> /\ Acts(t)
  BY FollowedCases DEF Followed, Readers
<1>3. Move(t, 3, 2, 0)
  BY <1>1, <1>2, TheirTurn
<1>4. ScriptInv' /\ 0 \in T!Tasks /\ 1 \in T!Tasks /\ 2 \in T!Tasks /\ Todo(0) \in 0..3 /\ Todo(1) \in 0..2
  BY <1>1, <1>2, TheirTurn, SomeTasks
<1>5. CASE t = 0 /\ Todo(0) = 3
  <2>1. T!Now(0) = <<"create", 1>>
    BY <1>3, <1>5, Pipe1Scripts DEF Move
  <2>2. T!Creates(0) /\ Todo(0)' = 2 /\ Todo(1)' = 2
    BY <1>2, <1>3, <1>5, <2>1, ByName DEF Move
  <2>3. /\ pipe' = pipe /\ output' = output
    BY <1>4, <2>1, <2>2 DEF T!Creates, T!main, T!kernel, TaskShape
  <2>4. QED BY <1>4, <1>5, <2>2, <2>3 DEF Pipe1Inv
<1>6. CASE t = 0 /\ Todo(0) = 2
  <2>1. T!Now(0) = <<"recv", 1>>
    BY <1>3, <1>6, Pipe1Scripts DEF Move
  <2>2. T!Recvs(0) /\ Todo(0)' = 1 /\ Todo(1)' = Todo(1)
    BY <1>2, <1>3, <1>6, <2>1, ByName DEF Move
  <2>3. /\ pipe[1] # <<>> /\ pipe'[1] = <<>> /\ output'[0] = output[0] \o pipe[1]
        /\ output'[1] = output[1]
    BY <1>4, <2>1, <2>2, PipeReads
  <2>4. (output[0] = <<>> /\ pipe[1] = <<"str1">> => output'[0] = <<"str1">>)
    BY <2>3, Short, Zenon
  <2>5. /\ pipe[1] # <<>> /\ pipe'[1] = <<>> /\ output'[1] = output[1]
    BY <2>3
  <2>6. QED BY <1>4, <1>6, <2>2, <2>4, <2>5 DEF Pipe1Inv
<1>7. CASE t = 0 /\ Todo(0) = 1
  <2>1. T!Now(0) = <<"return">>
    BY <1>3, <1>7, Pipe1Scripts DEF Move
  <2>2. T!Returns(0) /\ Todo(0)' = 0 /\ Todo(1)' = Todo(1)
    BY <1>2, <1>3, <1>7, <2>1, ByName DEF Move, T!Forks
  <2>3. /\ pipe' = pipe /\ output' = output
    BY <1>4, <2>1, <2>2 DEF T!Returns, TaskShape
  <2>4. QED BY <1>4, <1>7, <2>2, <2>3 DEF Pipe1Inv
<1>8. CASE t = 1 /\ Todo(1) = 2
  <2>1. T!Now(1) = <<"send", 1, "str1">>
    BY <1>3, <1>8, Pipe1Scripts DEF Move
  <2>2. T!Sends(1) /\ Todo(0)' = Todo(0) /\ Todo(1)' = 1
    BY <1>2, <1>3, <1>8, <2>1, ByName DEF Move
  <2>3. /\ pipe'[1] = Append(pipe[1], "str1") /\ output' = output
    BY <1>4, <2>1, <2>2 DEF T!Sends, T!Does, TaskShape
  <2>4. pipe[1] = <<>> => pipe'[1] = <<"str1">>
    BY <2>3, Short, Zenon
  <2>5. /\ output' = output
    BY <2>3
  <2>6. QED BY <1>4, <1>8, <2>2, <2>4, <2>5 DEF Pipe1Inv
<1>9. CASE t = 1 /\ Todo(1) = 1
  <2>1. T!Now(1) = <<"return">>
    BY <1>3, <1>9, Pipe1Scripts DEF Move
  <2>2. T!Returns(1) /\ Todo(0)' = Todo(0) /\ Todo(1)' = 0
    BY <1>2, <1>3, <1>9, <2>1, ByName DEF Move
  <2>3. /\ pipe' = pipe /\ output' = output
    BY <1>4, <2>1, <2>2 DEF T!Returns, TaskShape
  <2>4. QED BY <1>4, <1>9, <2>2, <2>3 DEF Pipe1Inv
<1>10. QED BY <1>3, <1>5, <1>6, <1>7, <1>8, <1>9 DEF Move

LEMMA Pipe2Step ==
    ASSUME TaskShape, ScriptInv, Pipe2Inv, prog = "pipe2", T!Next
    PROVE  ScriptInv' /\ Pipe2Inv'
<1>1. Fixed(5, 4, 0)
  <2>1. Len(<<>>) = 0 /\ {0, 1, 2} \subseteq T!Tasks
    BY SomeTasks
  <2>2. QED BY <2>1, Pipe2Scripts DEF Fixed
<1>2. PICK t \in T!Tasks : ops[t] # <<>> /\ Acts(t)
  BY FollowedCases DEF Followed, Readers
<1>3. Move(t, 5, 4, 0)
  BY <1>1, <1>2, TheirTurn
<1>4. ScriptInv' /\ 0 \in T!Tasks /\ 1 \in T!Tasks /\ 2 \in T!Tasks /\ Todo(0) \in 0..5 /\ Todo(1) \in 0..4
  BY <1>1, <1>2, TheirTurn, SomeTasks
<1>5. CASE t = 0 /\ Todo(0) = 5
  <2>1. T!Now(0) = <<"create", 1>>
    BY <1>3, <1>5, Pipe2Scripts DEF Move
  <2>2. T!Creates(0) /\ Todo(0)' = 4 /\ Todo(1)' = 4
    BY <1>2, <1>3, <1>5, <2>1, ByName DEF Move
  <2>3. /\ pipe' = pipe /\ output' = output
    BY <1>4, <2>1, <2>2 DEF T!Creates, T!main, T!kernel, TaskShape
  <2>4. QED BY <1>4, <1>5, <2>2, <2>3 DEF Pipe2Inv
<1>6. CASE t = 0 /\ Todo(0) = 4
  <2>1. T!Now(0) = <<"recv", 1>>
    BY <1>3, <1>6, Pipe2Scripts DEF Move
  <2>2. T!Recvs(0) /\ Todo(0)' = 3 /\ Todo(1)' = Todo(1)
    BY <1>2, <1>3, <1>6, <2>1, ByName DEF Move
  <2>3. /\ pipe[1] # <<>> /\ pipe'[1] = <<>> /\ output'[0] = output[0] \o pipe[1]
        /\ output'[1] = output[1]
    BY <1>4, <2>1, <2>2, PipeReads
  <2>4. (output[0] = <<>> /\ pipe[1] = <<"str1">> => output'[0] = <<"str1">>)
        /\ (output[0] = <<>> /\ pipe[1] = <<"str2">> => output'[0] = <<"str2">>)
    BY <2>3, Short, Zenon
  <2>5. /\ pipe[1] # <<>> /\ pipe'[1] = <<>> /\ output'[1] = output[1]
    BY <2>3
  <2>6. QED BY <1>4, <1>6, <2>2, <2>4, <2>5 DEF Pipe2Inv
<1>7. CASE t = 0 /\ Todo(0) = 3
  <2>1. T!Now(0) = <<"send", 1, "str2">>
    BY <1>3, <1>7, Pipe2Scripts DEF Move
  <2>2. T!Sends(0) /\ Todo(0)' = 2 /\ Todo(1)' = Todo(1)
    BY <1>2, <1>3, <1>7, <2>1, ByName DEF Move
  <2>3. /\ pipe'[1] = Append(pipe[1], "str2") /\ output' = output
    BY <1>4, <2>1, <2>2 DEF T!Sends, T!Does, TaskShape
  <2>4. pipe[1] = <<>> => pipe'[1] = <<"str2">>
    BY <2>3, Short, Zenon
  <2>5. /\ output' = output
    BY <2>3
  <2>6. QED BY <1>4, <1>7, <2>2, <2>4, <2>5 DEF Pipe2Inv
<1>8. CASE t = 0 /\ Todo(0) = 2
  <2>1. T!Now(0) = <<"sleep">>
    BY <1>3, <1>8, Pipe2Scripts DEF Move
  <2>2. T!Sleeps(0) /\ Todo(0)' = 1 /\ Todo(1)' = Todo(1)
    BY <1>2, <1>3, <1>8, <2>1, ByName DEF Move
  <2>3. /\ pipe' = pipe /\ output' = output
    BY <1>4, <2>1, <2>2 DEF T!Sleeps, T!Does, T!kernel, TaskShape
  <2>4. QED BY <1>4, <1>8, <2>2, <2>3 DEF Pipe2Inv
<1>9. CASE t = 0 /\ Todo(0) = 1
  <2>1. T!Now(0) = <<"return">>
    BY <1>3, <1>9, Pipe2Scripts DEF Move
  <2>2. T!Returns(0) /\ Todo(0)' = 0 /\ Todo(1)' = Todo(1)
    BY <1>2, <1>3, <1>9, <2>1, ByName DEF Move, T!Forks
  <2>3. /\ pipe' = pipe /\ output' = output
    BY <1>4, <2>1, <2>2 DEF T!Returns, TaskShape
  <2>4. QED BY <1>4, <1>9, <2>2, <2>3 DEF Pipe2Inv
<1>10. CASE t = 1 /\ Todo(1) = 4
  <2>1. T!Now(1) = <<"send", 1, "str1">>
    BY <1>3, <1>10, Pipe2Scripts DEF Move
  <2>2. T!Sends(1) /\ Todo(0)' = Todo(0) /\ Todo(1)' = 3
    BY <1>2, <1>3, <1>10, <2>1, ByName DEF Move
  <2>3. /\ pipe'[1] = Append(pipe[1], "str1") /\ output' = output
    BY <1>4, <2>1, <2>2 DEF T!Sends, T!Does, TaskShape
  <2>4. pipe[1] = <<>> => pipe'[1] = <<"str1">>
    BY <2>3, Short, Zenon
  <2>5. /\ output' = output
    BY <2>3
  <2>6. QED BY <1>4, <1>10, <2>2, <2>4, <2>5 DEF Pipe2Inv
<1>11. CASE t = 1 /\ Todo(1) = 3
  <2>1. T!Now(1) = <<"sleep">>
    BY <1>3, <1>11, Pipe2Scripts DEF Move
  <2>2. T!Sleeps(1) /\ Todo(0)' = Todo(0) /\ Todo(1)' = 2
    BY <1>2, <1>3, <1>11, <2>1, ByName DEF Move
  <2>3. /\ pipe' = pipe /\ output' = output
    BY <1>4, <2>1, <2>2 DEF T!Sleeps, T!Does, T!kernel, TaskShape
  <2>4. QED BY <1>4, <1>11, <2>2, <2>3 DEF Pipe2Inv
<1>12. CASE t = 1 /\ Todo(1) = 2
  <2>1. T!Now(1) = <<"recv", 1>>
    BY <1>3, <1>12, Pipe2Scripts DEF Move
  <2>2. T!Recvs(1) /\ Todo(0)' = Todo(0) /\ Todo(1)' = 1
    BY <1>2, <1>3, <1>12, <2>1, ByName DEF Move
  <2>3. /\ pipe[1] # <<>> /\ pipe'[1] = <<>> /\ output'[1] = output[1] \o pipe[1]
        /\ output'[0] = output[0]
    BY <1>4, <2>1, <2>2, PipeReads
  <2>4. (output[1] = <<>> /\ pipe[1] = <<"str1">> => output'[1] = <<"str1">>)
        /\ (output[1] = <<>> /\ pipe[1] = <<"str2">> => output'[1] = <<"str2">>)
    BY <2>3, Short, Zenon
  <2>5. /\ pipe[1] # <<>> /\ pipe'[1] = <<>> /\ output'[0] = output[0]
    BY <2>3
  <2>6. QED BY <1>4, <1>12, <2>2, <2>4, <2>5 DEF Pipe2Inv
<1>13. CASE t = 1 /\ Todo(1) = 1
  <2>1. T!Now(1) = <<"return">>
    BY <1>3, <1>13, Pipe2Scripts DEF Move
  <2>2. T!Returns(1) /\ Todo(0)' = Todo(0) /\ Todo(1)' = 0
    BY <1>2, <1>3, <1>13, <2>1, ByName DEF Move
  <2>3. /\ pipe' = pipe /\ output' = output
    BY <1>4, <2>1, <2>2 DEF T!Returns, TaskShape
  <2>4. QED BY <1>4, <1>13, <2>2, <2>3 DEF Pipe2Inv
<1>14. QED BY <1>3, <1>5, <1>6, <1>7, <1>8, <1>9, <1>10, <1>11, <1>12, <1>13 DEF Move

LEMMA Pipe3Step ==
    ASSUME TaskShape, ScriptInv, Pipe3Inv, prog = "pipe3", T!Next
    PROVE  ScriptInv' /\ Pipe3Inv'
<1>1. Fixed(4, 3, 0)
  <2>1. Len(<<>>) = 0 /\ {0, 1, 2} \subseteq T!Tasks
    BY SomeTasks
  <2>2. QED BY <2>1, Pipe3Scripts DEF Fixed
<1>2. PICK t \in T!Tasks : ops[t] # <<>> /\ Acts(t)
  BY FollowedCases DEF Followed, Readers
<1>3. Move(t, 4, 3, 0)
  BY <1>1, <1>2, TheirTurn
<1>4. ScriptInv' /\ 0 \in T!Tasks /\ 1 \in T!Tasks /\ 2 \in T!Tasks /\ Todo(0) \in 0..4 /\ Todo(1) \in 0..3
  BY <1>1, <1>2, TheirTurn, SomeTasks
<1>5. CASE t = 0 /\ Todo(0) = 4
  <2>1. T!Now(0) = <<"create", 1>>
    BY <1>3, <1>5, Pipe3Scripts DEF Move
  <2>2. T!Creates(0) /\ Todo(0)' = 3 /\ Todo(1)' = 3
    BY <1>2, <1>3, <1>5, <2>1, ByName DEF Move
  <2>3. /\ pipe' = pipe /\ output' = output
    BY <1>4, <2>1, <2>2 DEF T!Creates, T!main, T!kernel, TaskShape
  <2>4. QED BY <1>4, <1>5, <2>2, <2>3 DEF Pipe3Inv
<1>6. CASE t = 0 /\ Todo(0) = 3
  <2>1. T!Now(0) = <<"recv", 1>>
    BY <1>3, <1>6, Pipe3Scripts DEF Move
  <2>2. T!Recvs(0) /\ Todo(0)' = 2 /\ Todo(1)' = Todo(1)
    BY <1>2, <1>3, <1>6, <2>1, ByName DEF Move
  <2>3. /\ pipe[1] # <<>> /\ pipe'[1] = <<>> /\ output'[0] = output[0] \o pipe[1]
        /\ pipe'[2] = pipe[2] /\ output'[1] = output[1]
    BY <1>4, <2>1, <2>2, PipeReads
  <2>4. (output[0] = <<>> /\ pipe[1] = <<"str1">> => output'[0] = <<"str1">>)
        /\ (output[0] = <<>> /\ pipe[1] = <<"str2">> => output'[0] = <<"str2">>)
    BY <2>3, Short, Zenon
  <2>5. /\ pipe[1] # <<>> /\ pipe'[1] = <<>> /\ pipe'[2] = pipe[2] /\ output'[1] = output[1]
    BY <2>3
  <2>6. QED BY <1>4, <1>6, <2>2, <2>4, <2>5 DEF Pipe3Inv
<1>7. CASE t = 0 /\ Todo(0) = 2
  <2>1. T!Now(0) = <<"send", 2, "str2">>
    BY <1>3, <1>7, Pipe3Scripts DEF Move
  <2>2. T!Sends(0) /\ Todo(0)' = 1 /\ Todo(1)' = Todo(1)
    BY <1>2, <1>3, <1>7, <2>1, ByName DEF Move
  <2>3. /\ pipe'[2] = Append(pipe[2], "str2") /\ pipe'[1] = pipe[1] /\ output' = output
    BY <1>4, <2>1, <2>2 DEF T!Sends, T!Does, TaskShape
  <2>4. pipe[2] = <<>> => pipe'[2] = <<"str2">>
    BY <2>3, Short, Zenon
  <2>5. /\ pipe'[1] = pipe[1] /\ output' = output
    BY <2>3
  <2>6. QED BY <1>4, <1>7, <2>2, <2>4, <2>5 DEF Pipe3Inv
<1>8. CASE t = 0 /\ Todo(0) = 1
  <2>1. T!Now(0) = <<"return">>
    BY <1>3, <1>8, Pipe3Scripts DEF Move
  <2>2. T!Returns(0) /\ Todo(0)' = 0 /\ Todo(1)' = Todo(1)
    BY <1>2, <1>3, <1>8, <2>1, ByName DEF Move, T!Forks
  <2>3. /\ pipe' = pipe /\ output' = output
    BY <1>4, <2>1, <2>2 DEF T!Returns, TaskShape
  <2>4. QED BY <1>4, <1>8, <2>2, <2>3 DEF Pipe3Inv
<1>9. CASE t = 1 /\ Todo(1) = 3
  <2>1. T!Now(1) = <<"send", 1, "str1">>
    BY <1>3, <1>9, Pipe3Scripts DEF Move
  <2>2. T!Sends(1) /\ Todo(0)' = Todo(0) /\ Todo(1)' = 2
    BY <1>2, <1>3, <1>9, <2>1, ByName DEF Move
  <2>3. /\ pipe'[1] = Append(pipe[1], "str1") /\ pipe'[2] = pipe[2] /\ output' = output
    BY <1>4, <2>1, <2>2 DEF T!Sends, T!Does, TaskShape
  <2>4. pipe[1] = <<>> => pipe'[1] = <<"str1">>
    BY <2>3, Short, Zenon
  <2>5. /\ pipe'[2] = pipe[2] /\ output' = output
    BY <2>3
  <2>6. QED BY <1>4, <1>9, <2>2, <2>4, <2>5 DEF Pipe3Inv
<1>10. CASE t = 1 /\ Todo(1) = 2
  <2>1. T!Now(1) = <<"recv", 2>>
    BY <1>3, <1>10, Pipe3Scripts DEF Move
  <2>2. T!Recvs(1) /\ Todo(0)' = Todo(0) /\ Todo(1)' = 1
    BY <1>2, <1>3, <1>10, <2>1, ByName DEF Move
  <2>3. /\ pipe[2] # <<>> /\ pipe'[2] = <<>> /\ output'[1] = output[1] \o pipe[2]
        /\ pipe'[1] = pipe[1] /\ output'[0] = output[0]
    BY <1>4, <2>1, <2>2, PipeReads
  <2>4. (output[1] = <<>> /\ pipe[2] = <<"str1">> => output'[1] = <<"str1">>)
        /\ (output[1] = <<>> /\ pipe[2] = <<"str2">> => output'[1] = <<"str2">>)
    BY <2>3, Short, Zenon
  <2>5. /\ pipe[2] # <<>> /\ pipe'[2] = <<>> /\ pipe'[1] = pipe[1] /\ output'[0] = output[0]
    BY <2>3
  <2>6. QED BY <1>4, <1>10, <2>2, <2>4, <2>5 DEF Pipe3Inv
<1>11. CASE t = 1 /\ Todo(1) = 1
  <2>1. T!Now(1) = <<"return">>
    BY <1>3, <1>11, Pipe3Scripts DEF Move
  <2>2. T!Returns(1) /\ Todo(0)' = Todo(0) /\ Todo(1)' = 0
    BY <1>2, <1>3, <1>11, <2>1, ByName DEF Move
  <2>3. /\ pipe' = pipe /\ output' = output
    BY <1>4, <2>1, <2>2 DEF T!Returns, TaskShape
  <2>4. QED BY <1>4, <1>11, <2>2, <2>3 DEF Pipe3Inv
<1>12. QED BY <1>3, <1>5, <1>6, <1>7, <1>8, <1>9, <1>10, <1>11 DEF Move

LEMMA GiveStep ==
    ASSUME TaskShape, ScriptInv, GiveInv, prog = "give_and_take", T!Next
    PROVE  ScriptInv' /\ GiveInv'
<1>1. Fixed(5, 4, 0)
  <2>1. Len(<<>>) = 0 /\ {0, 1, 2} \subseteq T!Tasks
    BY SomeTasks
  <2>2. QED BY <2>1, GiveScripts DEF Fixed
<1>2. PICK t \in T!Tasks : ops[t] # <<>> /\ Acts(t)
  BY FollowedCases DEF Followed, Readers
<1>3. Move(t, 5, 4, 0)
  BY <1>1, <1>2, TheirTurn
<1>4. ScriptInv' /\ 0 \in T!Tasks /\ 1 \in T!Tasks /\ 2 \in T!Tasks /\ Todo(0) \in 0..5 /\ Todo(1) \in 0..4
  BY <1>1, <1>2, TheirTurn, SomeTasks
<1>5. CASE t = 0 /\ Todo(0) = 5
  <2>1. T!Now(0) = <<"create", 1>>
    BY <1>3, <1>5, GiveScripts DEF Move
  <2>2. T!Creates(0) /\ Todo(0)' = 4 /\ Todo(1)' = 4
    BY <1>2, <1>3, <1>5, <2>1, ByName DEF Move
  <2>3. /\ pipe' = pipe /\ output' = output
    BY <1>4, <2>1, <2>2 DEF T!Creates, T!main, T!kernel, TaskShape
  <2>4. QED BY <1>4, <1>5, <2>2, <2>3 DEF GiveInv
<1>6. CASE t = 0 /\ Todo(0) = 4
  <2>1. T!Now(0) = <<"recv", 1>>
    BY <1>3, <1>6, GiveScripts DEF Move
  <2>2. T!Recvs(0) /\ Todo(0)' = 3 /\ Todo(1)' = Todo(1)
    BY <1>2, <1>3, <1>6, <2>1, ByName DEF Move
  <2>3. /\ pipe[1] # <<>> /\ pipe'[1] = <<>> /\ output'[0] = output[0] \o pipe[1]
        /\ pipe'[2] = pipe[2] /\ output'[1] = output[1]
    BY <1>4, <2>1, <2>2, PipeReads
  <2>4. (output[0] = <<>> /\ pipe[1] = <<"str1">> => output'[0] = <<"str1">>)
        /\ (output[0] = <<>> /\ pipe[1] = <<"str2">> => output'[0] = <<"str2">>)
        /\ (output[0] = <<"str1">> /\ pipe[1] = <<"str3">> => output'[0] = <<"str1", "str3">>)
    BY <2>3, Short, Zenon
  <2>5. /\ pipe[1] # <<>> /\ pipe'[1] = <<>> /\ pipe'[2] = pipe[2] /\ output'[1] = output[1]
    BY <2>3
  <2>6. QED BY <1>4, <1>6, <2>2, <2>4, <2>5 DEF GiveInv
<1>7. CASE t = 0 /\ Todo(0) = 3
  <2>1. T!Now(0) = <<"send", 2, "str2">>
    BY <1>3, <1>7, GiveScripts DEF Move
  <2>2. T!Sends(0) /\ Todo(0)' = 2 /\ Todo(1)' = Todo(1)
    BY <1>2, <1>3, <1>7, <2>1, ByName DEF Move
  <2>3. /\ pipe'[2] = Append(pipe[2], "str2") /\ pipe'[1] = pipe[1] /\ output' = output
    BY <1>4, <2>1, <2>2 DEF T!Sends, T!Does, TaskShape
  <2>4. pipe[2] = <<>> => pipe'[2] = <<"str2">>
    BY <2>3, Short, Zenon
  <2>5. /\ pipe'[1] = pipe[1] /\ output' = output
    BY <2>3
  <2>6. QED BY <1>4, <1>7, <2>2, <2>4, <2>5 DEF GiveInv
<1>8. CASE t = 0 /\ Todo(0) = 2
  <2>1. T!Now(0) = <<"recv", 1>>
    BY <1>3, <1>8, GiveScripts DEF Move
  <2>2. T!Recvs(0) /\ Todo(0)' = 1 /\ Todo(1)' = Todo(1)
    BY <1>2, <1>3, <1>8, <2>1, ByName DEF Move
  <2>3. /\ pipe[1] # <<>> /\ pipe'[1] = <<>> /\ output'[0] = output[0] \o pipe[1]
        /\ pipe'[2] = pipe[2] /\ output'[1] = output[1]
    BY <1>4, <2>1, <2>2, PipeReads
  <2>4. (output[0] = <<>> /\ pipe[1] = <<"str1">> => output'[0] = <<"str1">>)
        /\ (output[0] = <<>> /\ pipe[1] = <<"str2">> => output'[0] = <<"str2">>)
        /\ (output[0] = <<"str1">> /\ pipe[1] = <<"str3">> => output'[0] = <<"str1", "str3">>)
    BY <2>3, Short, Zenon
  <2>5. /\ pipe[1] # <<>> /\ pipe'[1] = <<>> /\ pipe'[2] = pipe[2] /\ output'[1] = output[1]
    BY <2>3
  <2>6. QED BY <1>4, <1>8, <2>2, <2>4, <2>5 DEF GiveInv
<1>9. CASE t = 0 /\ Todo(0) = 1
  <2>1. T!Now(0) = <<"return">>
    BY <1>3, <1>9, GiveScripts DEF Move
  <2>2. T!Returns(0) /\ Todo(0)' = 0 /\ Todo(1)' = Todo(1)
    BY <1>2, <1>3, <1>9, <2>1, ByName DEF Move, T!Forks
  <2>3. /\ pipe' = pipe /\ output' = output
    BY <1>4, <2>1, <2>2 DEF T!Returns, TaskShape
  <2>4. QED BY <1>4, <1>9, <2>2, <2>3 DEF GiveInv
<1>10. CASE t = 1 /\ Todo(1) = 4
  <2>1. T!Now(1) = <<"send", 1, "str1">>
    BY <1>3, <1>10, GiveScripts DEF Move
  <2>2. T!Sends(1) /\ Todo(0)' = Todo(0) /\ Todo(1)' = 3
    BY <1>2, <1>3, <1>10, <2>1, ByName DEF Move
  <2>3. /\ pipe'[1] = Append(pipe[1], "str1") /\ pipe'[2] = pipe[2] /\ output' = output
    BY <1>4, <2>1, <2>2 DEF T!Sends, T!Does, TaskShape
  <2>4. pipe[1] = <<>> => pipe'[1] = <<"str1">>
    BY <2>3, Short, Zenon
  <2>5. /\ pipe'[2] = pipe[2] /\ output' = output
    BY <2>3
  <2>6. QED BY <1>4, <1>10, <2>2, <2>4, <2>5 DEF GiveInv
<1>11. CASE t = 1 /\ Todo(1) = 3
  <2>1. T!Now(1) = <<"recv", 2>>
    BY <1>3, <1>11, GiveScripts DEF Move
  <2>2. T!Recvs(1) /\ Todo(0)' = Todo(0) /\ Todo(1)' = 2
    BY <1>2, <1>3, <1>11, <2>1, ByName DEF Move
  <2>3. /\ pipe[2] # <<>> /\ pipe'[2] = <<>> /\ output'[1] = output[1] \o pipe[2]
        /\ pipe'[1] = pipe[1] /\ output'[0] = output[0]
    BY <1>4, <2>1, <2>2, PipeReads
  <2>4. (output[1] = <<>> /\ pipe[2] = <<"str1">> => output'[1] = <<"str1">>)
        /\ (output[1] = <<>> /\ pipe[2] = <<"str2">> => output'[1] = <<"str2">>)
        /\ (output[1] = <<"str1">> /\ pipe[2] = <<"str3">> => output'[1] = <<"str1", "str3">>)
    BY <2>3, Short, Zenon
  <2>5. /\ pipe[2] # <<>> /\ pipe'[2] = <<>> /\ pipe'[1] = pipe[1] /\ output'[0] = output[0]
    BY <2>3
  <2>6. QED BY <1>4, <1>11, <2>2, <2>4, <2>5 DEF GiveInv
<1>12. CASE t = 1 /\ Todo(1) = 2
  <2>1. T!Now(1) = <<"send", 1, "str3">>
    BY <1>3, <1>12, GiveScripts DEF Move
  <2>2. T!Sends(1) /\ Todo(0)' = Todo(0) /\ Todo(1)' = 1
    BY <1>2, <1>3, <1>12, <2>1, ByName DEF Move
  <2>3. /\ pipe'[1] = Append(pipe[1], "str3") /\ pipe'[2] = pipe[2] /\ output' = output
    BY <1>4, <2>1, <2>2 DEF T!Sends, T!Does, TaskShape
  <2>4. pipe[1] = <<>> => pipe'[1] = <<"str3">>
    BY <2>3, Short, Zenon
  <2>5. /\ pipe'[2] = pipe[2] /\ output' = output
    BY <2>3
  <2>6. QED BY <1>4, <1>12, <2>2, <2>4, <2>5 DEF GiveInv
<1>13. CASE t = 1 /\ Todo(1) = 1
  <2>1. T!Now(1) = <<"return">>
    BY <1>3, <1>13, GiveScripts DEF Move
  <2>2. T!Returns(1) /\ Todo(0)' = Todo(0) /\ Todo(1)' = 0
    BY <1>2, <1>3, <1>13, <2>1, ByName DEF Move
  <2>3. /\ pipe' = pipe /\ output' = output
    BY <1>4, <2>1, <2>2 DEF T!Returns, TaskShape
  <2>4. QED BY <1>4, <1>13, <2>2, <2>3 DEF GiveInv
<1>14. QED BY <1>3, <1>5, <1>6, <1>7, <1>8, <1>9, <1>10, <1>11, <1>12, <1>13 DEF Move

LEMMA WaitStep ==
    ASSUME TaskShape, ScriptInv, WaitInv, prog = "wait", T!Next
    PROVE  ScriptInv' /\ WaitInv'
<1>1. Fixed(6, 1, 1)
  <2>1. Len(<<>>) = 0 /\ {0, 1, 2} \subseteq T!Tasks
    BY SomeTasks
  <2>2. QED BY <2>1, WaitScripts DEF Fixed
<1>2. PICK t \in T!Tasks : ops[t] # <<>> /\ Acts(t)
  BY FollowedCases DEF Followed, Readers
<1>3. Move(t, 6, 1, 1)
  BY <1>1, <1>2, TheirTurn
<1>4. ScriptInv' /\ 0 \in T!Tasks /\ 1 \in T!Tasks /\ 2 \in T!Tasks /\ Todo(0) \in 0..6 /\ Todo(1) \in 0..1 /\ Todo(2) \in 0..1
  BY <1>1, <1>2, TheirTurn, SomeTasks
<1>5. CASE t = 0 /\ Todo(0) = 6
  <2>1. T!Now(0) = <<"create", 1>>
    BY <1>3, <1>5, WaitScripts DEF Move
  <2>2. T!Creates(0) /\ Todo(0)' = 5 /\ Todo(1)' = 1 /\ Todo(2)' = Todo(2)
    BY <1>2, <1>3, <1>5, <2>1, ByName DEF Move
  <2>3. /\ ended' = ended /\ output' = output
    BY <1>4, <2>1, <2>2 DEF T!Creates, T!main, T!kernel, TaskShape
  <2>4. QED BY <1>4, <1>5, <2>2, <2>3 DEF WaitInv
<1>6. CASE t = 0 /\ Todo(0) = 5
  <2>1. T!Now(0) = <<"create", 2>>
    BY <1>3, <1>6, WaitScripts DEF Move
  <2>2. T!Creates(0) /\ Todo(0)' = 4 /\ Todo(1)' = Todo(1) /\ Todo(2)' = 1
    BY <1>2, <1>3, <1>6, <2>1, ByName DEF Move
  <2>3. /\ ended' = ended /\ output' = output
    BY <1>4, <2>1, <2>2 DEF T!Creates, T!main, T!kernel, TaskShape
  <2>4. QED BY <1>4, <1>6, <2>2, <2>3 DEF WaitInv
<1>7. CASE t = 0 /\ Todo(0) = 4
  <2>1. T!Now(0) = <<"wait">>
    BY <1>3, <1>7, WaitScripts DEF Move
  <2>2. T!Waits(0) /\ Todo(0)' = 3 /\ Todo(1)' = Todo(1) /\ Todo(2)' = Todo(2)
    BY <1>2, <1>3, <1>7, <2>1, ByName DEF Move
  <2>3. /\ \E k \in ended : ended' = ended \ {k} /\ output'[0] = Append(output[0], k)
        /\ output'[1] = output[1] /\ output'[2] = output[2]
    BY <1>4, <2>1, <2>2 DEF T!Waits, T!Does, T!Collects, T!Shows, T!main, TaskShape
  <2>4. PICK a \in ended : ended' = ended \ {a} /\ output'[0] = Append(output[0], a)
    BY <2>3
  <2>5. output[0] = <<>> /\ ended = {k \in {1, 2} : Todo(k) = 0} /\ output[1] = <<>> /\ output[2] = <<>>
    BY <1>7 DEF WaitInv
  <2>6. a \in {1, 2} /\ Todo(a) = 0 /\ output'[0] = <<a>>
    BY <2>4, <2>5, Short
  <2>7. {k \in {1, 2} : Todo(k)' = 0} = ended
    BY <2>2, <2>5
  <2>8. Todo(a)' = 0 /\ output'[1] = <<>> /\ output'[2] = <<>>
    BY <2>2, <2>3, <2>5, <2>6
  <2>9. QED BY <1>4, <2>2, <2>4, <2>6, <2>7, <2>8 DEF WaitInv
<1>8. CASE t = 0 /\ Todo(0) = 3
  <2>1. T!Now(0) = <<"wait">>
    BY <1>3, <1>8, WaitScripts DEF Move
  <2>2. T!Waits(0) /\ Todo(0)' = 2 /\ Todo(1)' = Todo(1) /\ Todo(2)' = Todo(2)
    BY <1>2, <1>3, <1>8, <2>1, ByName DEF Move
  <2>3. /\ \E k \in ended : ended' = ended \ {k} /\ output'[0] = Append(output[0], k)
        /\ output'[1] = output[1] /\ output'[2] = output[2]
    BY <1>4, <2>1, <2>2 DEF T!Waits, T!Does, T!Collects, T!Shows, T!main, TaskShape
  <2>4. PICK b \in ended : ended' = ended \ {b} /\ output'[0] = Append(output[0], b)
    BY <2>3
  <2>5. PICK a \in {1, 2} : Todo(a) = 0 /\ output[0] = <<a>> /\ ended = {k \in {1, 2} : Todo(k) = 0} \ {a}
    BY <1>8 DEF WaitInv
  <2>6. b \in {1, 2} /\ b # a /\ Todo(b) = 0 /\ output'[0] = <<a, b>>
    BY <2>4, <2>5, Short
  <2>7. Todo(1)' = 0 /\ Todo(2)' = 0 /\ output'[0] \in {<<1, 2>>, <<2, 1>>}
    BY <2>2, <2>5, <2>6
  <2>8. output'[1] = <<>> /\ output'[2] = <<>>
    BY <2>3 DEF WaitInv
  <2>9. QED BY <1>4, <2>2, <2>7, <2>8 DEF WaitInv
<1>9. CASE t = 0 /\ Todo(0) = 2
  <2>1. T!Now(0) = <<"sleep">>
    BY <1>3, <1>9, WaitScripts DEF Move
  <2>2. T!Sleeps(0) /\ Todo(0)' = 1 /\ Todo(1)' = Todo(1) /\ Todo(2)' = Todo(2)
    BY <1>2, <1>3, <1>9, <2>1, ByName DEF Move
  <2>3. /\ ended' = ended /\ output' = output
    BY <1>4, <2>1, <2>2 DEF T!Sleeps, T!Does, T!kernel, TaskShape
  <2>4. QED BY <1>4, <1>9, <2>2, <2>3 DEF WaitInv
<1>10. CASE t = 0 /\ Todo(0) = 1
  <2>1. T!Now(0) = <<"return">>
    BY <1>3, <1>10, WaitScripts DEF Move
  <2>2. T!Returns(0) /\ Todo(0)' = 0 /\ Todo(1)' = Todo(1) /\ Todo(2)' = Todo(2)
    BY <1>2, <1>3, <1>10, <2>1, ByName DEF Move, T!Forks
  <2>3. /\ ended' = {} /\ output' = output
    BY <1>4, <2>1, <2>2 DEF T!Returns, T!main, T!Forks, TaskShape
  <2>4. QED BY <1>4, <1>10, <2>2, <2>3 DEF WaitInv
<1>11. CASE t = 1 /\ Todo(1) = 1
  <2>1. T!Now(1) = <<"return">>
    BY <1>3, <1>11, WaitScripts DEF Move
  <2>2. T!Returns(1) /\ Todo(0)' = Todo(0) /\ Todo(1)' = 0 /\ Todo(2)' = Todo(2)
    BY <1>2, <1>3, <1>11, <2>1, ByName DEF Move
  <2>3. /\ ended' = (IF Todo(0) = 0 THEN ended ELSE ended \cup {1}) /\ output' = output
    <3>1. ops[0] = <<>> <=> Todo(0) = 0
      BY <1>4, NowIs
    <3>2. ended' = IF ops[0] # <<>> THEN ended \cup {1} ELSE ended
      BY <2>2 DEF T!Returns, T!main, T!Forks
    <3>3. /\ output' = output
      BY <2>2 DEF T!Returns, T!main
    <3>4. QED BY <3>1, <3>2, <3>3
  <2>4. QED BY <1>4, <1>11, <2>2, <2>3 DEF WaitInv
<1>12. CASE t = 2 /\ Todo(2) = 1
  <2>1. T!Now(2) = <<"return">>
    BY <1>3, <1>12, WaitScripts DEF Move
  <2>2. T!Returns(2) /\ Todo(0)' = Todo(0) /\ Todo(1)' = Todo(1) /\ Todo(2)' = 0
    BY <1>2, <1>3, <1>12, <2>1, ByName DEF Move
  <2>3. /\ ended' = (IF Todo(0) = 0 THEN ended ELSE ended \cup {2}) /\ output' = output
    <3>1. ops[0] = <<>> <=> Todo(0) = 0
      BY <1>4, NowIs
    <3>2. ended' = IF ops[0] # <<>> THEN ended \cup {2} ELSE ended
      BY <2>2 DEF T!Returns, T!main, T!Forks
    <3>3. /\ output' = output
      BY <2>2 DEF T!Returns, T!main
    <3>4. QED BY <3>1, <3>2, <3>3
  <2>4. QED BY <1>4, <1>12, <2>2, <2>3 DEF WaitInv
<1>13. QED BY <1>3, <1>5, <1>6, <1>7, <1>8, <1>9, <1>10, <1>11, <1>12 DEF Move

LEMMA WaitpidStep ==
    ASSUME TaskShape, ScriptInv, WaitpidInv, prog = "waitpid", T!Next
    PROVE  ScriptInv' /\ WaitpidInv'
<1>1. Fixed(3, 2, 0)
  <2>1. Len(<<>>) = 0 /\ {0, 1, 2} \subseteq T!Tasks
    BY SomeTasks
  <2>2. QED BY <2>1, WaitpidScripts DEF Fixed
<1>2. PICK t \in T!Tasks : ops[t] # <<>> /\ Acts(t)
  BY FollowedCases DEF Followed, Readers
<1>3. Move(t, 3, 2, 0)
  BY <1>1, <1>2, TheirTurn
<1>4. ScriptInv' /\ 0 \in T!Tasks /\ 1 \in T!Tasks /\ 2 \in T!Tasks /\ Todo(0) \in 0..3 /\ Todo(1) \in 0..2
  BY <1>1, <1>2, TheirTurn, SomeTasks
<1>5. CASE t = 0 /\ Todo(0) = 3
  <2>1. T!Now(0) = <<"create", 1>>
    BY <1>3, <1>5, WaitpidScripts DEF Move
  <2>2. T!Creates(0) /\ Todo(0)' = 2 /\ Todo(1)' = 2
    BY <1>2, <1>3, <1>5, <2>1, ByName DEF Move
  <2>3. /\ ended' = ended /\ output' = output
    BY <1>4, <2>1, <2>2 DEF T!Creates, T!main, T!kernel, TaskShape
  <2>4. QED BY <1>4, <1>5, <2>2, <2>3 DEF WaitpidInv
<1>6. CASE t = 0 /\ Todo(0) = 2
  <2>1. T!Now(0) = <<"wait">>
    BY <1>3, <1>6, WaitpidScripts DEF Move
  <2>2. T!Waits(0) /\ Todo(0)' = 1 /\ Todo(1)' = Todo(1)
    BY <1>2, <1>3, <1>6, <2>1, ByName DEF Move
  <2>3. /\ \E k \in ended : ended' = ended \ {k} /\ output'[0] = Append(output[0], k)
        /\ output'[1] = output[1] /\ output'[2] = output[2]
    BY <1>4, <2>1, <2>2 DEF T!Waits, T!Does, T!Collects, T!Shows, T!main, TaskShape
  <2>4. QED BY <1>4, <1>6, <2>2, <2>3, Short DEF WaitpidInv
<1>7. CASE t = 0 /\ Todo(0) = 1
  <2>1. T!Now(0) = <<"return">>
    BY <1>3, <1>7, WaitpidScripts DEF Move
  <2>2. T!Returns(0) /\ Todo(0)' = 0 /\ Todo(1)' = Todo(1)
    BY <1>2, <1>3, <1>7, <2>1, ByName DEF Move, T!Forks
  <2>3. /\ ended' = {} /\ output' = output
    BY <1>4, <2>1, <2>2 DEF T!Returns, T!main, T!Forks, TaskShape
  <2>4. QED BY <1>4, <1>7, <2>2, <2>3 DEF WaitpidInv
<1>8. CASE t = 1 /\ Todo(1) = 2
  <2>1. T!Now(1) = <<"sleep">>
    BY <1>3, <1>8, WaitpidScripts DEF Move
  <2>2. T!Sleeps(1) /\ Todo(0)' = Todo(0) /\ Todo(1)' = 1
    BY <1>2, <1>3, <1>8, <2>1, ByName DEF Move
  <2>3. /\ ended' = ended /\ output' = output
    BY <1>4, <2>1, <2>2 DEF T!Sleeps, T!Does, T!kernel, TaskShape
  <2>4. QED BY <1>4, <1>8, <2>2, <2>3 DEF WaitpidInv
<1>9. CASE t = 1 /\ Todo(1) = 1
  <2>1. T!Now(1) = <<"return">>
    BY <1>3, <1>9, WaitpidScripts DEF Move
  <2>2. T!Returns(1) /\ Todo(0)' = Todo(0) /\ Todo(1)' = 0
    BY <1>2, <1>3, <1>9, <2>1, ByName DEF Move
  <2>3. /\ ended' = (IF Todo(0) = 0 THEN ended ELSE ended \cup {1}) /\ output' = output
    <3>1. ops[0] = <<>> <=> Todo(0) = 0
      BY <1>4, NowIs
    <3>2. ended' = IF ops[0] # <<>> THEN ended \cup {1} ELSE ended
      BY <2>2 DEF T!Returns, T!main, T!Forks
    <3>3. /\ output' = output
      BY <2>2 DEF T!Returns, T!main
    <3>4. QED BY <3>1, <3>2, <3>3
  <2>4. QED BY <1>4, <1>9, <2>2, <2>3 DEF WaitpidInv
<1>10. QED BY <1>3, <1>5, <1>6, <1>7, <1>8, <1>9 DEF Move

LEMMA Thread2Step ==
    ASSUME TaskShape, ScriptInv, Thread2Inv, prog = "thread2", T!Next
    PROVE  ScriptInv' /\ Thread2Inv'
<1>1. Fixed(4, 3, 0)
  <2>1. Len(<<>>) = 0 /\ {0, 1, 2} \subseteq T!Tasks
    BY SomeTasks
  <2>2. QED BY <2>1, Thread2Scripts DEF Fixed
<1>2. PICK t \in T!Tasks : ops[t] # <<>> /\ Acts(t)
  BY FollowedCases DEF Followed, Readers
<1>3. Move(t, 4, 3, 0)
  BY <1>1, <1>2, TheirTurn
<1>4. ScriptInv' /\ 0 \in T!Tasks /\ 1 \in T!Tasks /\ 2 \in T!Tasks /\ Todo(0) \in 0..4 /\ Todo(1) \in 0..3
  BY <1>1, <1>2, TheirTurn, SomeTasks
<1>5. CASE t = 0 /\ Todo(0) = 4
  <2>1. T!Now(0) = <<"create", 1>>
    BY <1>3, <1>5, Thread2Scripts DEF Move
  <2>2. T!Creates(0) /\ Todo(0)' = 3 /\ Todo(1)' = 3
    BY <1>2, <1>3, <1>5, <2>1, ByName DEF Move
  <2>3. /\ str' = str /\ output' = output
    BY <1>4, <2>1, <2>2 DEF T!Creates, T!main, TaskShape
  <2>4. QED BY <1>4, <1>5, <2>2, <2>3 DEF Thread2Inv
<1>6. CASE t = 0 /\ Todo(0) = 3
  <2>1. T!Now(0) = <<"join", 1>>
    BY <1>3, <1>6, Thread2Scripts DEF Move
  <2>2. T!Joins(0) /\ Todo(0)' = 2 /\ Todo(1)' = Todo(1)
    BY <1>2, <1>3, <1>6, <2>1, ByName DEF Move
  <2>3. /\ Todo(1) = 0 /\ str' = str /\ output' = output
    BY <1>4, <2>1, <2>2, NowIs DEF T!Joins, T!Does, TaskShape
  <2>4. QED BY <1>4, <1>6, <2>2, <2>3 DEF Thread2Inv
<1>7. CASE t = 0 /\ Todo(0) = 2
  <2>1. T!Now(0) = <<"look">>
    BY <1>3, <1>7, Thread2Scripts DEF Move
  <2>2. T!Looks(0) /\ Todo(0)' = 1 /\ Todo(1)' = Todo(1)
    BY <1>2, <1>3, <1>7, <2>1, ByName DEF Move
  <2>3. /\ output'[0] = Append(output[0], str) /\ str' = str /\ output'[1] = output[1]
        /\ output'[2] = output[2]
    BY <1>4, <2>1, <2>2 DEF T!Looks, T!Does, T!Shows, TaskShape
  <2>4. output[0] = <<>> => output'[0] = <<str>>
    BY <2>3, Short, Zenon
  <2>5. /\ str' = str /\ output'[1] = output[1] /\ output'[2] = output[2]
    BY <2>3
  <2>6. QED BY <1>4, <1>7, <2>2, <2>4, <2>5 DEF Thread2Inv
<1>8. CASE t = 0 /\ Todo(0) = 1
  <2>1. T!Now(0) = <<"return">>
    BY <1>3, <1>8, Thread2Scripts DEF Move
  <2>2. T!Returns(0) /\ Todo(0)' = 0 /\ Todo(1)' = 0
    BY <1>2, <1>3, <1>8, <2>1, ByName DEF Move, T!Forks
  <2>3. /\ str' = str /\ output' = output
    BY <1>4, <2>1, <2>2 DEF T!Returns, TaskShape
  <2>4. QED BY <1>4, <1>8, <2>2, <2>3 DEF Thread2Inv
<1>9. CASE t = 1 /\ Todo(1) = 3
  <2>1. T!Now(1) = <<"set", "message">>
    BY <1>3, <1>9, Thread2Scripts DEF Move
  <2>2. T!Sets(1) /\ Todo(0)' = Todo(0) /\ Todo(1)' = 2
    BY <1>2, <1>3, <1>9, <2>1, ByName DEF Move
  <2>3. /\ str' = "message" /\ output' = output
    BY <1>4, <2>1, <2>2 DEF T!Sets, T!Does, TaskShape
  <2>4. QED BY <1>4, <1>9, <2>2, <2>3 DEF Thread2Inv
<1>10. CASE t = 1 /\ Todo(1) = 2
  <2>1. T!Now(1) = <<"sleep">>
    BY <1>3, <1>10, Thread2Scripts DEF Move
  <2>2. T!Sleeps(1) /\ Todo(0)' = Todo(0) /\ Todo(1)' = 1
    BY <1>2, <1>3, <1>10, <2>1, ByName DEF Move
  <2>3. /\ str' = str /\ output' = output
    BY <1>4, <2>1, <2>2 DEF T!Sleeps, T!Does, TaskShape
  <2>4. QED BY <1>4, <1>10, <2>2, <2>3 DEF Thread2Inv
<1>11. CASE t = 1 /\ Todo(1) = 1
  <2>1. T!Now(1) = <<"return">>
    BY <1>3, <1>11, Thread2Scripts DEF Move
  <2>2. T!Returns(1) /\ Todo(0)' = Todo(0) /\ Todo(1)' = 0
    BY <1>2, <1>3, <1>11, <2>1, ByName DEF Move
  <2>3. /\ str' = str /\ output' = output
    BY <1>4, <2>1, <2>2 DEF T!Returns, TaskShape
  <2>4. QED BY <1>4, <1>11, <2>2, <2>3 DEF Thread2Inv
<1>12. QED BY <1>3, <1>5, <1>6, <1>7, <1>8, <1>9, <1>10, <1>11 DEF Move

\* Two threads add 1 and 2, and 3 and 4, to what they have loaded: the sum by the
\* steps that are left, whatever is lost in between.
LEMMA Steps3 ==
    ASSUME NEW n0 \in 0..6, NEW n1 \in 0..5, NEW n2 \in 0..5, NEW m, NEW r1, NEW r2,
           Counts3(n0, n1, n2, m, r1, r2)
    PROVE  /\ n0 = 6 => Counts3(5, 5, n2, m, r1, r2)
           /\ n0 = 5 => Counts3(4, n1, 5, m, r1, r2)
           /\ n0 = 4 /\ n1 = 0 => Counts3(3, n1, n2, m, r1, r2)
           /\ n0 = 3 /\ n2 = 0 => Counts3(2, n1, n2, m, r1, r2)
           /\ n0 = 2 => Counts3(1, n1, n2, m, r1, r2) /\ m \in 3..10
           /\ n0 = 1 => Counts3(0, 0, 0, m, r1, r2)
           /\ n1 = 5 => Counts3(n0, 4, n2, m, m, r2)
           /\ n1 = 4 => Counts3(n0, 3, n2, r1 + 1, r1, r2)
           /\ n1 = 3 => Counts3(n0, 2, n2, m, m, r2)
           /\ n1 = 2 => Counts3(n0, 1, n2, r1 + 2, r1, r2)
           /\ n1 = 1 => Counts3(n0, 0, n2, m, r1, r2)
           /\ n2 = 5 => Counts3(n0, n1, 4, m, r1, m)
           /\ n2 = 4 => Counts3(n0, n1, 3, r2 + 3, r1, r2)
           /\ n2 = 3 => Counts3(n0, n1, 2, m, r1, m)
           /\ n2 = 2 => Counts3(n0, n1, 1, r2 + 4, r1, r2)
           /\ n2 = 1 => Counts3(n0, n1, 0, m, r1, r2)
<1>1. n0 = 6 => Counts3(5, 5, n2, m, r1, r2)
  BY DEF Counts3, Most3, Added3
<1>2. n0 = 5 => Counts3(4, n1, 5, m, r1, r2)
  BY DEF Counts3, Most3, Added3
<1>3. n0 = 4 /\ n1 = 0 => Counts3(3, n1, n2, m, r1, r2)
  BY DEF Counts3, Most3, Added3
<1>4. n0 = 3 /\ n2 = 0 => Counts3(2, n1, n2, m, r1, r2)
  BY DEF Counts3, Most3, Added3
<1>5. n0 = 2 => Counts3(1, n1, n2, m, r1, r2) /\ m \in 3..10
  BY DEF Counts3, Most3, Added3
<1>6. n0 = 1 => Counts3(0, 0, 0, m, r1, r2)
  BY DEF Counts3, Most3, Added3
<1>7. n1 = 5 => Counts3(n0, 4, n2, m, m, r2)
  BY DEF Counts3, Most3, Added3
<1>8. n1 = 4 => Counts3(n0, 3, n2, r1 + 1, r1, r2)
  BY DEF Counts3, Most3, Added3
<1>9. n1 = 3 => Counts3(n0, 2, n2, m, m, r2)
  BY DEF Counts3, Most3, Added3
<1>10. n1 = 2 => Counts3(n0, 1, n2, r1 + 2, r1, r2)
  BY DEF Counts3, Most3, Added3
<1>11. n1 = 1 => Counts3(n0, 0, n2, m, r1, r2)
  BY DEF Counts3, Most3, Added3
<1>12. n2 = 5 => Counts3(n0, n1, 4, m, r1, m)
  BY DEF Counts3, Most3, Added3
<1>13. n2 = 4 => Counts3(n0, n1, 3, r2 + 3, r1, r2)
  BY DEF Counts3, Most3, Added3
<1>14. n2 = 3 => Counts3(n0, n1, 2, m, r1, m)
  BY DEF Counts3, Most3, Added3
<1>15. n2 = 2 => Counts3(n0, n1, 1, r2 + 4, r1, r2)
  BY DEF Counts3, Most3, Added3
<1>16. n2 = 1 => Counts3(n0, n1, 0, m, r1, r2)
  BY DEF Counts3, Most3, Added3
<1>17. QED BY <1>1, <1>2, <1>3, <1>4, <1>5, <1>6, <1>7, <1>8, <1>9, <1>10, <1>11, <1>12, <1>13, <1>14, <1>15, <1>16

LEMMA Thread3Step ==
    ASSUME TaskShape, ScriptInv, Thread3Inv, prog = "thread3", T!Next
    PROVE  ScriptInv' /\ Thread3Inv'
<1>1. Fixed(6, 5, 5)
  <2>1. Len(<<>>) = 0 /\ {0, 1, 2} \subseteq T!Tasks
    BY SomeTasks
  <2>2. QED BY <2>1, Thread3Scripts DEF Fixed
<1>2. PICK t \in T!Tasks : ops[t] # <<>> /\ Acts(t)
  BY FollowedCases DEF Followed, Readers
<1>3. Move(t, 6, 5, 5)
  BY <1>1, <1>2, TheirTurn
<1>4. ScriptInv' /\ 0 \in T!Tasks /\ 1 \in T!Tasks /\ 2 \in T!Tasks /\ Todo(0) \in 0..6 /\ Todo(1) \in 0..5 /\ Todo(2) \in 0..5
  BY <1>1, <1>2, TheirTurn, SomeTasks
<1>sums. /\ Todo(0) = 6 => Counts3(5, 5, Todo(2), mem[0], reg[1], reg[2])
         /\ Todo(0) = 5 => Counts3(4, Todo(1), 5, mem[0], reg[1], reg[2])
         /\ Todo(0) = 4 /\ Todo(1) = 0 => Counts3(3, Todo(1), Todo(2), mem[0], reg[1], reg[2])
         /\ Todo(0) = 3 /\ Todo(2) = 0 => Counts3(2, Todo(1), Todo(2), mem[0], reg[1], reg[2])
         /\ Todo(0) = 2 => Counts3(1, Todo(1), Todo(2), mem[0], reg[1], reg[2]) /\ mem[0] \in 3..10
         /\ Todo(0) = 1 => Counts3(0, 0, 0, mem[0], reg[1], reg[2])
         /\ Todo(1) = 5 => Counts3(Todo(0), 4, Todo(2), mem[0], mem[0], reg[2])
         /\ Todo(1) = 4 => Counts3(Todo(0), 3, Todo(2), reg[1] + 1, reg[1], reg[2])
         /\ Todo(1) = 3 => Counts3(Todo(0), 2, Todo(2), mem[0], mem[0], reg[2])
         /\ Todo(1) = 2 => Counts3(Todo(0), 1, Todo(2), reg[1] + 2, reg[1], reg[2])
         /\ Todo(1) = 1 => Counts3(Todo(0), 0, Todo(2), mem[0], reg[1], reg[2])
         /\ Todo(2) = 5 => Counts3(Todo(0), Todo(1), 4, mem[0], reg[1], mem[0])
         /\ Todo(2) = 4 => Counts3(Todo(0), Todo(1), 3, reg[2] + 3, reg[1], reg[2])
         /\ Todo(2) = 3 => Counts3(Todo(0), Todo(1), 2, mem[0], reg[1], mem[0])
         /\ Todo(2) = 2 => Counts3(Todo(0), Todo(1), 1, reg[2] + 4, reg[1], reg[2])
         /\ Todo(2) = 1 => Counts3(Todo(0), Todo(1), 0, mem[0], reg[1], reg[2])
  BY <1>4, Steps3 DEF Thread3Inv
<1>5. CASE t = 0 /\ Todo(0) = 6
  <2>1. T!Now(0) = <<"create", 1>>
    BY <1>3, <1>5, Thread3Scripts DEF Move
  <2>2. T!Creates(0) /\ Todo(0)' = 5 /\ Todo(1)' = 5 /\ Todo(2)' = Todo(2)
    BY <1>2, <1>3, <1>5, <2>1, ByName DEF Move
  <2>3. /\ mem'[0] = mem[0] /\ reg' = reg /\ output' = output
    BY <1>4, <2>1, <2>2 DEF T!Creates, T!main, TaskShape
  <2>4. QED BY <1>4, <1>5, <1>sums, <2>2, <2>3 DEF Thread3Inv
<1>6. CASE t = 0 /\ Todo(0) = 5
  <2>1. T!Now(0) = <<"create", 2>>
    BY <1>3, <1>6, Thread3Scripts DEF Move
  <2>2. T!Creates(0) /\ Todo(0)' = 4 /\ Todo(1)' = Todo(1) /\ Todo(2)' = 5
    BY <1>2, <1>3, <1>6, <2>1, ByName DEF Move
  <2>3. /\ mem'[0] = mem[0] /\ reg' = reg /\ output' = output
    BY <1>4, <2>1, <2>2 DEF T!Creates, T!main, TaskShape
  <2>4. QED BY <1>4, <1>6, <1>sums, <2>2, <2>3 DEF Thread3Inv
<1>7. CASE t = 0 /\ Todo(0) = 4
  <2>1. T!Now(0) = <<"join", 1>>
    BY <1>3, <1>7, Thread3Scripts DEF Move
  <2>2. T!Joins(0) /\ Todo(0)' = 3 /\ Todo(1)' = Todo(1) /\ Todo(2)' = Todo(2)
    BY <1>2, <1>3, <1>7, <2>1, ByName DEF Move
  <2>3. /\ Todo(1) = 0 /\ mem' = mem /\ reg' = reg /\ output' = output
    BY <1>4, <2>1, <2>2, NowIs DEF T!Joins, T!Does, TaskShape
  <2>4. QED BY <1>4, <1>7, <1>sums, <2>2, <2>3 DEF Thread3Inv
<1>8. CASE t = 0 /\ Todo(0) = 3
  <2>1. T!Now(0) = <<"join", 2>>
    BY <1>3, <1>8, Thread3Scripts DEF Move
  <2>2. T!Joins(0) /\ Todo(0)' = 2 /\ Todo(1)' = Todo(1) /\ Todo(2)' = Todo(2)
    BY <1>2, <1>3, <1>8, <2>1, ByName DEF Move
  <2>3. /\ Todo(2) = 0 /\ mem' = mem /\ reg' = reg /\ output' = output
    BY <1>4, <2>1, <2>2, NowIs DEF T!Joins, T!Does, TaskShape
  <2>4. QED BY <1>4, <1>8, <1>sums, <2>2, <2>3 DEF Thread3Inv
<1>9. CASE t = 0 /\ Todo(0) = 2
  <2>1. T!Now(0) = <<"print">>
    BY <1>3, <1>9, Thread3Scripts DEF Move
  <2>2. T!Prints(0) /\ Todo(0)' = 1 /\ Todo(1)' = Todo(1) /\ Todo(2)' = Todo(2)
    BY <1>2, <1>3, <1>9, <2>1, ByName DEF Move
  <2>3. /\ output'[0] = Append(output[0], mem[0]) /\ mem' = mem /\ reg' = reg
        /\ output'[1] = output[1] /\ output'[2] = output[2]
    BY <1>4, <2>1, <2>2 DEF T!Prints, T!Does, T!Shows, T!Space, T!Forks, T!main, TaskShape
  <2>4. output[0] = <<>> => output'[0] = <<mem[0]>>
    BY <2>3, Short, Zenon
  <2>5. /\ mem' = mem /\ reg' = reg /\ output'[1] = output[1] /\ output'[2] = output[2]
    BY <2>3
  <2>6. QED BY <1>4, <1>9, <1>sums, <2>2, <2>4, <2>5 DEF Thread3Inv
<1>10. CASE t = 0 /\ Todo(0) = 1
  <2>1. T!Now(0) = <<"return">>
    BY <1>3, <1>10, Thread3Scripts DEF Move
  <2>2. T!Returns(0) /\ Todo(0)' = 0 /\ Todo(1)' = 0 /\ Todo(2)' = 0
    BY <1>2, <1>3, <1>10, <2>1, ByName DEF Move, T!Forks
  <2>3. /\ mem' = mem /\ reg' = reg /\ output' = output
    BY <1>4, <2>1, <2>2 DEF T!Returns, TaskShape
  <2>4. QED BY <1>4, <1>10, <1>sums, <2>2, <2>3 DEF Thread3Inv
<1>11. CASE t = 1 /\ Todo(1) = 5
  <2>1. T!Now(1) = <<"load">>
    BY <1>3, <1>11, Thread3Scripts DEF Move
  <2>2. T!Loads(1) /\ Todo(0)' = Todo(0) /\ Todo(1)' = 4 /\ Todo(2)' = Todo(2)
    BY <1>2, <1>3, <1>11, <2>1, ByName DEF Move
  <2>3. /\ reg'[1] = mem[0] /\ mem' = mem /\ reg'[2] = reg[2] /\ output' = output
    BY <1>4, <2>1, <2>2 DEF T!Loads, T!Does, T!Space, T!Forks, T!main, TaskShape
  <2>4. QED BY <1>4, <1>11, <1>sums, <2>2, <2>3 DEF Thread3Inv
<1>12. CASE t = 1 /\ Todo(1) = 4
  <2>1. T!Now(1) = <<"store", 1>>
    BY <1>3, <1>12, Thread3Scripts DEF Move
  <2>2. T!Stores(1) /\ Todo(0)' = Todo(0) /\ Todo(1)' = 3 /\ Todo(2)' = Todo(2)
    BY <1>2, <1>3, <1>12, <2>1, ByName DEF Move
  <2>3. /\ mem'[0] = reg[1] + 1 /\ reg' = reg /\ output' = output
    BY <1>4, <2>1, <2>2 DEF T!Stores, T!Does, T!Space, T!Forks, T!main, TaskShape
  <2>4. QED BY <1>4, <1>12, <1>sums, <2>2, <2>3 DEF Thread3Inv
<1>13. CASE t = 1 /\ Todo(1) = 3
  <2>1. T!Now(1) = <<"load">>
    BY <1>3, <1>13, Thread3Scripts DEF Move
  <2>2. T!Loads(1) /\ Todo(0)' = Todo(0) /\ Todo(1)' = 2 /\ Todo(2)' = Todo(2)
    BY <1>2, <1>3, <1>13, <2>1, ByName DEF Move
  <2>3. /\ reg'[1] = mem[0] /\ mem' = mem /\ reg'[2] = reg[2] /\ output' = output
    BY <1>4, <2>1, <2>2 DEF T!Loads, T!Does, T!Space, T!Forks, T!main, TaskShape
  <2>4. QED BY <1>4, <1>13, <1>sums, <2>2, <2>3 DEF Thread3Inv
<1>14. CASE t = 1 /\ Todo(1) = 2
  <2>1. T!Now(1) = <<"store", 2>>
    BY <1>3, <1>14, Thread3Scripts DEF Move
  <2>2. T!Stores(1) /\ Todo(0)' = Todo(0) /\ Todo(1)' = 1 /\ Todo(2)' = Todo(2)
    BY <1>2, <1>3, <1>14, <2>1, ByName DEF Move
  <2>3. /\ mem'[0] = reg[1] + 2 /\ reg' = reg /\ output' = output
    BY <1>4, <2>1, <2>2 DEF T!Stores, T!Does, T!Space, T!Forks, T!main, TaskShape
  <2>4. QED BY <1>4, <1>14, <1>sums, <2>2, <2>3 DEF Thread3Inv
<1>15. CASE t = 1 /\ Todo(1) = 1
  <2>1. T!Now(1) = <<"return">>
    BY <1>3, <1>15, Thread3Scripts DEF Move
  <2>2. T!Returns(1) /\ Todo(0)' = Todo(0) /\ Todo(1)' = 0 /\ Todo(2)' = Todo(2)
    BY <1>2, <1>3, <1>15, <2>1, ByName DEF Move
  <2>3. /\ mem' = mem /\ reg' = reg /\ output' = output
    BY <1>4, <2>1, <2>2 DEF T!Returns, TaskShape
  <2>4. QED BY <1>4, <1>15, <1>sums, <2>2, <2>3 DEF Thread3Inv
<1>16. CASE t = 2 /\ Todo(2) = 5
  <2>1. T!Now(2) = <<"load">>
    BY <1>3, <1>16, Thread3Scripts DEF Move
  <2>2. T!Loads(2) /\ Todo(0)' = Todo(0) /\ Todo(1)' = Todo(1) /\ Todo(2)' = 4
    BY <1>2, <1>3, <1>16, <2>1, ByName DEF Move
  <2>3. /\ reg'[2] = mem[0] /\ mem' = mem /\ reg'[1] = reg[1] /\ output' = output
    BY <1>4, <2>1, <2>2 DEF T!Loads, T!Does, T!Space, T!Forks, T!main, TaskShape
  <2>4. QED BY <1>4, <1>16, <1>sums, <2>2, <2>3 DEF Thread3Inv
<1>17. CASE t = 2 /\ Todo(2) = 4
  <2>1. T!Now(2) = <<"store", 3>>
    BY <1>3, <1>17, Thread3Scripts DEF Move
  <2>2. T!Stores(2) /\ Todo(0)' = Todo(0) /\ Todo(1)' = Todo(1) /\ Todo(2)' = 3
    BY <1>2, <1>3, <1>17, <2>1, ByName DEF Move
  <2>3. /\ mem'[0] = reg[2] + 3 /\ reg' = reg /\ output' = output
    BY <1>4, <2>1, <2>2 DEF T!Stores, T!Does, T!Space, T!Forks, T!main, TaskShape
  <2>4. QED BY <1>4, <1>17, <1>sums, <2>2, <2>3 DEF Thread3Inv
<1>18. CASE t = 2 /\ Todo(2) = 3
  <2>1. T!Now(2) = <<"load">>
    BY <1>3, <1>18, Thread3Scripts DEF Move
  <2>2. T!Loads(2) /\ Todo(0)' = Todo(0) /\ Todo(1)' = Todo(1) /\ Todo(2)' = 2
    BY <1>2, <1>3, <1>18, <2>1, ByName DEF Move
  <2>3. /\ reg'[2] = mem[0] /\ mem' = mem /\ reg'[1] = reg[1] /\ output' = output
    BY <1>4, <2>1, <2>2 DEF T!Loads, T!Does, T!Space, T!Forks, T!main, TaskShape
  <2>4. QED BY <1>4, <1>18, <1>sums, <2>2, <2>3 DEF Thread3Inv
<1>19. CASE t = 2 /\ Todo(2) = 2
  <2>1. T!Now(2) = <<"store", 4>>
    BY <1>3, <1>19, Thread3Scripts DEF Move
  <2>2. T!Stores(2) /\ Todo(0)' = Todo(0) /\ Todo(1)' = Todo(1) /\ Todo(2)' = 1
    BY <1>2, <1>3, <1>19, <2>1, ByName DEF Move
  <2>3. /\ mem'[0] = reg[2] + 4 /\ reg' = reg /\ output' = output
    BY <1>4, <2>1, <2>2 DEF T!Stores, T!Does, T!Space, T!Forks, T!main, TaskShape
  <2>4. QED BY <1>4, <1>19, <1>sums, <2>2, <2>3 DEF Thread3Inv
<1>20. CASE t = 2 /\ Todo(2) = 1
  <2>1. T!Now(2) = <<"return">>
    BY <1>3, <1>20, Thread3Scripts DEF Move
  <2>2. T!Returns(2) /\ Todo(0)' = Todo(0) /\ Todo(1)' = Todo(1) /\ Todo(2)' = 0
    BY <1>2, <1>3, <1>20, <2>1, ByName DEF Move
  <2>3. /\ mem' = mem /\ reg' = reg /\ output' = output
    BY <1>4, <2>1, <2>2 DEF T!Returns, TaskShape
  <2>4. QED BY <1>4, <1>20, <1>sums, <2>2, <2>3 DEF Thread3Inv
<1>21. QED BY <1>3, <1>5, <1>6, <1>7, <1>8, <1>9, <1>10, <1>11, <1>12, <1>13, <1>14, <1>15, <1>16, <1>17, <1>18, <1>19, <1>20 DEF Move

LEMMA ZombieCalls ==
    ASSUME TaskShape, ScriptInv, ZombieInv, prog = "remove_zombie",
           NEW t \in T!Tasks, ops[t] # <<>>, Acts(t)
    PROVE  ScriptInv' /\ ZombieInv'
<1>1. Fixed(9, 2, 2)
  <2>1. Len(<<>>) = 0 /\ {0, 1, 2} \subseteq T!Tasks
    BY SomeTasks
  <2>2. QED BY <2>1, ZombieScripts DEF Fixed
<1>2. t \in T!Tasks /\ ops[t] # <<>> /\ Acts(t)
  OBVIOUS
<1>3. Move(t, 9, 2, 2)
  BY <1>1, <1>2, TheirTurn
<1>4. ScriptInv' /\ 0 \in T!Tasks /\ 1 \in T!Tasks /\ 2 \in T!Tasks /\ Todo(0) \in 0..9 /\ Todo(1) \in 0..2 /\ Todo(2) \in 0..2
  BY <1>1, <1>2, TheirTurn, SomeTasks
<1>5. CASE t = 0 /\ Todo(0) = 9
  <2>1. T!Now(0) = <<"sigchld">>
    BY <1>3, <1>5, ZombieScripts DEF Move
  <2>2. T!Handles(0) /\ Todo(0)' = 8 /\ Todo(1)' = Todo(1) /\ Todo(2)' = Todo(2)
    BY <1>2, <1>3, <1>5, <2>1, ByName DEF Move
  <2>3. /\ signals' = [signals EXCEPT !.handled = TRUE] /\ ended' = ended
    BY <1>4, <2>1, <2>2 DEF T!Handles, T!Does, TaskShape
  <2>4. QED BY <1>4, <1>5, <2>2, <2>3 DEF ZombieInv
<1>6. CASE t = 0 /\ Todo(0) = 8
  <2>1. T!Now(0) = <<"create", 1>>
    BY <1>3, <1>6, ZombieScripts DEF Move
  <2>2. T!Creates(0) /\ Todo(0)' = 7 /\ Todo(1)' = 2 /\ Todo(2)' = Todo(2)
    BY <1>2, <1>3, <1>6, <2>1, ByName DEF Move
  <2>3. /\ ended' = ended /\ signals' = signals
    BY <1>4, <2>1, <2>2 DEF T!Creates, T!main, T!kernel, TaskShape
  <2>4. QED BY <1>4, <1>6, <2>2, <2>3 DEF ZombieInv
<1>7. CASE t = 0 /\ Todo(0) = 7
  <2>1. T!Now(0) = <<"create", 2>>
    BY <1>3, <1>7, ZombieScripts DEF Move
  <2>2. T!Creates(0) /\ Todo(0)' = 6 /\ Todo(1)' = Todo(1) /\ Todo(2)' = 2
    BY <1>2, <1>3, <1>7, <2>1, ByName DEF Move
  <2>3. /\ ended' = ended /\ signals' = signals
    BY <1>4, <2>1, <2>2 DEF T!Creates, T!main, T!kernel, TaskShape
  <2>4. QED BY <1>4, <1>7, <2>2, <2>3 DEF ZombieInv
<1>8. CASE t = 0 /\ Todo(0) = 6
  <2>1. T!Now(0) = <<"sleep">>
    BY <1>3, <1>8, ZombieScripts DEF Move
  <2>2. T!Sleeps(0) /\ Todo(0)' = 5 /\ Todo(1)' = Todo(1) /\ Todo(2)' = Todo(2)
    BY <1>2, <1>3, <1>8, <2>1, ByName DEF Move
  <2>3. /\ ended' = ended /\ signals' = signals
    BY <1>4, <2>1, <2>2 DEF T!Sleeps, T!Does, T!kernel, TaskShape
  <2>4. QED BY <1>4, <1>8, <2>2, <2>3 DEF ZombieInv
<1>9. CASE t = 0 /\ Todo(0) = 5
  <2>1. T!Now(0) = <<"sleep">>
    BY <1>3, <1>9, ZombieScripts DEF Move
  <2>2. T!Sleeps(0) /\ Todo(0)' = 4 /\ Todo(1)' = Todo(1) /\ Todo(2)' = Todo(2)
    BY <1>2, <1>3, <1>9, <2>1, ByName DEF Move
  <2>3. /\ ended' = ended /\ signals' = signals
    BY <1>4, <2>1, <2>2 DEF T!Sleeps, T!Does, T!kernel, TaskShape
  <2>4. QED BY <1>4, <1>9, <2>2, <2>3 DEF ZombieInv
<1>10. CASE t = 0 /\ Todo(0) = 4
  <2>1. T!Now(0) = <<"sleep">>
    BY <1>3, <1>10, ZombieScripts DEF Move
  <2>2. T!Sleeps(0) /\ Todo(0)' = 3 /\ Todo(1)' = Todo(1) /\ Todo(2)' = Todo(2)
    BY <1>2, <1>3, <1>10, <2>1, ByName DEF Move
  <2>3. /\ ended' = ended /\ signals' = signals
    BY <1>4, <2>1, <2>2 DEF T!Sleeps, T!Does, T!kernel, TaskShape
  <2>4. QED BY <1>4, <1>10, <2>2, <2>3 DEF ZombieInv
<1>11. CASE t = 0 /\ Todo(0) = 3
  <2>1. T!Now(0) = <<"sleep">>
    BY <1>3, <1>11, ZombieScripts DEF Move
  <2>2. T!Sleeps(0) /\ Todo(0)' = 2 /\ Todo(1)' = Todo(1) /\ Todo(2)' = Todo(2)
    BY <1>2, <1>3, <1>11, <2>1, ByName DEF Move
  <2>3. /\ ended' = ended /\ signals' = signals
    BY <1>4, <2>1, <2>2 DEF T!Sleeps, T!Does, T!kernel, TaskShape
  <2>4. QED BY <1>4, <1>11, <2>2, <2>3 DEF ZombieInv
<1>12. CASE t = 0 /\ Todo(0) = 2
  <2>1. T!Now(0) = <<"sleep">>
    BY <1>3, <1>12, ZombieScripts DEF Move
  <2>2. T!Sleeps(0) /\ Todo(0)' = 1 /\ Todo(1)' = Todo(1) /\ Todo(2)' = Todo(2)
    BY <1>2, <1>3, <1>12, <2>1, ByName DEF Move
  <2>3. /\ ended' = ended /\ signals' = signals
    BY <1>4, <2>1, <2>2 DEF T!Sleeps, T!Does, T!kernel, TaskShape
  <2>4. QED BY <1>4, <1>12, <2>2, <2>3 DEF ZombieInv
<1>13. CASE t = 0 /\ Todo(0) = 1
  <2>1. T!Now(0) = <<"return">>
    BY <1>3, <1>13, ZombieScripts DEF Move
  <2>2. T!Returns(0) /\ Todo(0)' = 0 /\ Todo(1)' = Todo(1) /\ Todo(2)' = Todo(2)
    BY <1>2, <1>3, <1>13, <2>1, ByName DEF Move, T!Forks
  <2>3. /\ ended' = {} /\ signals' = signals
    BY <1>4, <2>1, <2>2 DEF T!Returns, T!main, T!Forks, TaskShape
  <2>4. QED BY <1>4, <1>13, <2>2, <2>3 DEF ZombieInv
<1>14. CASE t = 1 /\ Todo(1) = 2
  <2>1. T!Now(1) = <<"sleep">>
    BY <1>3, <1>14, ZombieScripts DEF Move
  <2>2. T!Sleeps(1) /\ Todo(0)' = Todo(0) /\ Todo(1)' = 1 /\ Todo(2)' = Todo(2)
    BY <1>2, <1>3, <1>14, <2>1, ByName DEF Move
  <2>3. /\ ended' = ended /\ signals' = signals
    BY <1>4, <2>1, <2>2 DEF T!Sleeps, T!Does, T!kernel, TaskShape
  <2>4. 1 \in T!Kids
    BY SomeTasks DEF T!Tasks, T!Kids, T!main
  <2>5. Todo(0) # 9
    BY <1>14, <2>4 DEF ZombieInv
  <2>6. QED BY <1>4, <2>2, <2>3, <2>5 DEF ZombieInv
<1>15. CASE t = 1 /\ Todo(1) = 1
  <2>1. T!Now(1) = <<"return">>
    BY <1>3, <1>15, ZombieScripts DEF Move
  <2>2. T!Returns(1) /\ Todo(0)' = Todo(0) /\ Todo(1)' = 0 /\ Todo(2)' = Todo(2)
    BY <1>2, <1>3, <1>15, <2>1, ByName DEF Move
  <2>3. /\ ended' = (IF Todo(0) = 0 THEN ended ELSE ended \cup {1})
        /\ signals' = (IF signals.handled THEN [signals EXCEPT !.pending = TRUE, !.merged = @ \/ signals.pending] ELSE signals)
    <3>1. ops[0] = <<>> <=> Todo(0) = 0
      BY <1>4, NowIs
    <3>2. ended' = IF ops[0] # <<>> THEN ended \cup {1} ELSE ended
      BY <2>2 DEF T!Returns, T!main, T!Forks
    <3>3. /\ signals' = (IF signals.handled THEN [signals EXCEPT !.pending = TRUE, !.merged = @ \/ signals.pending] ELSE signals)
      BY <2>2 DEF T!Returns, T!main
    <3>4. QED BY <3>1, <3>2, <3>3
  <2>4. 1 \in T!Kids /\ DOMAIN signals = {"handled", "pending", "merged"}
    BY SomeTasks DEF TaskShape, T!Tasks, T!Kids, T!main
  <2>5. Todo(0) # 9 /\ signals.handled
    BY <1>15, <2>4 DEF ZombieInv
  <2>6. signals'.handled /\ signals'.pending /\ (~signals'.merged => ~signals.merged /\ ~signals.pending)
    BY <2>3, <2>4, <2>5
  <2>7. QED BY <1>4, <1>15, <2>2, <2>3, <2>5, <2>6 DEF ZombieInv
<1>16. CASE t = 2 /\ Todo(2) = 2
  <2>1. T!Now(2) = <<"sleep">>
    BY <1>3, <1>16, ZombieScripts DEF Move
  <2>2. T!Sleeps(2) /\ Todo(0)' = Todo(0) /\ Todo(1)' = Todo(1) /\ Todo(2)' = 1
    BY <1>2, <1>3, <1>16, <2>1, ByName DEF Move
  <2>3. /\ ended' = ended /\ signals' = signals
    BY <1>4, <2>1, <2>2 DEF T!Sleeps, T!Does, T!kernel, TaskShape
  <2>4. 2 \in T!Kids
    BY SomeTasks DEF T!Tasks, T!Kids, T!main
  <2>5. Todo(0) # 9
    BY <1>16, <2>4 DEF ZombieInv
  <2>6. QED BY <1>4, <2>2, <2>3, <2>5 DEF ZombieInv
<1>17. CASE t = 2 /\ Todo(2) = 1
  <2>1. T!Now(2) = <<"return">>
    BY <1>3, <1>17, ZombieScripts DEF Move
  <2>2. T!Returns(2) /\ Todo(0)' = Todo(0) /\ Todo(1)' = Todo(1) /\ Todo(2)' = 0
    BY <1>2, <1>3, <1>17, <2>1, ByName DEF Move
  <2>3. /\ ended' = (IF Todo(0) = 0 THEN ended ELSE ended \cup {2})
        /\ signals' = (IF signals.handled THEN [signals EXCEPT !.pending = TRUE, !.merged = @ \/ signals.pending] ELSE signals)
    <3>1. ops[0] = <<>> <=> Todo(0) = 0
      BY <1>4, NowIs
    <3>2. ended' = IF ops[0] # <<>> THEN ended \cup {2} ELSE ended
      BY <2>2 DEF T!Returns, T!main, T!Forks
    <3>3. /\ signals' = (IF signals.handled THEN [signals EXCEPT !.pending = TRUE, !.merged = @ \/ signals.pending] ELSE signals)
      BY <2>2 DEF T!Returns, T!main
    <3>4. QED BY <3>1, <3>2, <3>3
  <2>4. 2 \in T!Kids /\ DOMAIN signals = {"handled", "pending", "merged"}
    BY SomeTasks DEF TaskShape, T!Tasks, T!Kids, T!main
  <2>5. Todo(0) # 9 /\ signals.handled
    BY <1>17, <2>4 DEF ZombieInv
  <2>6. signals'.handled /\ signals'.pending /\ (~signals'.merged => ~signals.merged /\ ~signals.pending)
    BY <2>3, <2>4, <2>5
  <2>7. QED BY <1>4, <1>17, <2>2, <2>3, <2>5, <2>6 DEF ZombieInv
<1>18. QED BY <1>3, <1>5, <1>6, <1>7, <1>8, <1>9, <1>10, <1>11, <1>12, <1>13, <1>14, <1>15, <1>16, <1>17 DEF Move

LEMMA ZombieStep ==
    ASSUME TaskShape, ScriptInv, ZombieInv, prog = "remove_zombie", T!Next
    PROVE  ScriptInv' /\ ZombieInv'
<1>1. CASE \E t \in T!Tasks : ops[t] # <<>> /\ Acts(t)
  BY <1>1, ZombieCalls
<1>2. CASE T!read_childproc
  <2>1. /\ prog' = prog /\ ops' = ops /\ signals.pending /\ signals' = [signals EXCEPT !.pending = FALSE]
        /\ ops[0] # <<>> /\ ((ended' = ended /\ ended = {}) \/ \E k \in ended : ended' = ended \ {k})
    BY <1>2 DEF T!read_childproc, T!Collects, T!main
  <2>2. \A u : Script(u)' = Script(u) /\ Todo(u)' = Todo(u)
    BY <2>1, Zenon DEF Script, Todo
  <2>3. ScriptInv'
    BY <2>1, <2>2 DEF ScriptInv, AtScript
  <2>4. Todo(0) # 0
    BY <2>1, SomeTasks, NowIs
  <2>5. signals'.handled = signals.handled /\ ~signals'.pending /\ signals'.merged = signals.merged
    BY <2>1 DEF TaskShape
  <2>6. ~signals.merged => ended' = {}
    BY <2>1 DEF ZombieInv
  <2>7. Todo(0) = 9 => ended' = {}
    BY <2>1 DEF ZombieInv
  <2>8. QED BY <2>2, <2>3, <2>4, <2>5, <2>6, <2>7 DEF ZombieInv
<1>3. QED BY <1>1, <1>2, FollowedCases DEF Followed
LEMMA EventStep ==
    ASSUME TaskShape, ScriptInv, EventInv, prog = "SyncEvent", T!Next
    PROVE  ScriptInv' /\ EventInv'
<1>1. Fixed(8, 3, 3)
  <2>1. Len(<<>>) = 0 /\ {0, 1, 2} \subseteq T!Tasks
    BY SomeTasks
  <2>2. QED BY <2>1, EventScripts DEF Fixed
<1>2. PICK t \in T!Tasks : ops[t] # <<>> /\ Acts(t)
  BY FollowedCases DEF Followed, Readers
<1>3. Move(t, 8, 3, 3)
  BY <1>1, <1>2, TheirTurn
<1>4. ScriptInv' /\ 0 \in T!Tasks /\ 1 \in T!Tasks /\ 2 \in T!Tasks /\ Todo(0) \in 0..8 /\ Todo(1) \in 0..3 /\ Todo(2) \in 0..3
  BY <1>1, <1>2, TheirTurn, SomeTasks
<1>5. CASE t = 0 /\ Todo(0) = 8
  <2>1. T!Now(0) = <<"create", 1>>
    BY <1>3, <1>5, EventScripts DEF Move
  <2>2. T!Creates(0) /\ Todo(0)' = 7 /\ Todo(1)' = 3 /\ Todo(2)' = Todo(2)
    BY <1>2, <1>3, <1>5, <2>1, ByName DEF Move
  <2>3. /\ str' = str /\ event' = event /\ gone' = gone /\ output' = output
    BY <1>4, <2>1, <2>2 DEF T!Creates, T!main, T!sync, TaskShape
  <2>4. QED BY <1>4, <1>5, <2>2, <2>3 DEF EventInv, ReadersInv
<1>6. CASE t = 0 /\ Todo(0) = 7
  <2>1. T!Now(0) = <<"create", 2>>
    BY <1>3, <1>6, EventScripts DEF Move
  <2>2. T!Creates(0) /\ Todo(0)' = 6 /\ Todo(1)' = Todo(1) /\ Todo(2)' = 3
    BY <1>2, <1>3, <1>6, <2>1, ByName DEF Move
  <2>3. /\ str' = str /\ event' = event /\ gone' = gone /\ output' = output
    BY <1>4, <2>1, <2>2 DEF T!Creates, T!main, T!sync, TaskShape
  <2>4. QED BY <1>4, <1>6, <2>2, <2>3 DEF EventInv, ReadersInv
<1>7. CASE t = 0 /\ Todo(0) = 6
  <2>1. T!Now(0) = <<"set", "typed">>
    BY <1>3, <1>7, EventScripts DEF Move
  <2>2. T!Sets(0) /\ Todo(0)' = 5 /\ Todo(1)' = Todo(1) /\ Todo(2)' = Todo(2)
    BY <1>2, <1>3, <1>7, <2>1, ByName DEF Move
  <2>3. /\ str' = "typed" /\ event' = event /\ gone' = gone /\ output' = output
    BY <1>4, <2>1, <2>2 DEF T!Sets, T!Does, T!sync, TaskShape
  <2>4. QED BY <1>4, <1>7, <2>2, <2>3 DEF EventInv, ReadersInv
<1>8. CASE t = 0 /\ Todo(0) = 5
  <2>1. T!Now(0) = <<"setevent">>
    BY <1>3, <1>8, EventScripts DEF Move
  <2>2. T!SetsEvent(0) /\ Todo(0)' = 4 /\ Todo(1)' = Todo(1) /\ Todo(2)' = Todo(2)
    BY <1>2, <1>3, <1>8, <2>1, ByName DEF Move
  <2>3. /\ event' = TRUE /\ str' = str /\ gone' = gone /\ output' = output
    BY <1>4, <2>1, <2>2 DEF T!SetsEvent, T!Does, TaskShape
  <2>4. QED BY <1>4, <1>8, <2>2, <2>3 DEF EventInv, ReadersInv
<1>9. CASE t = 0 /\ Todo(0) = 4
  <2>1. T!Now(0) = <<"join", 1>>
    BY <1>3, <1>9, EventScripts DEF Move
  <2>2. T!Joins(0) /\ Todo(0)' = 3 /\ Todo(1)' = Todo(1) /\ Todo(2)' = Todo(2)
    BY <1>2, <1>3, <1>9, <2>1, ByName DEF Move
  <2>3. /\ Todo(1) = 0 /\ str' = str /\ event' = event /\ gone' = gone /\ output' = output
    BY <1>4, <2>1, <2>2, NowIs DEF T!Joins, T!Does, T!sync, TaskShape
  <2>4. QED BY <1>4, <1>9, <2>2, <2>3 DEF EventInv, ReadersInv
<1>10. CASE t = 0 /\ Todo(0) = 3
  <2>1. T!Now(0) = <<"join", 2>>
    BY <1>3, <1>10, EventScripts DEF Move
  <2>2. T!Joins(0) /\ Todo(0)' = 2 /\ Todo(1)' = Todo(1) /\ Todo(2)' = Todo(2)
    BY <1>2, <1>3, <1>10, <2>1, ByName DEF Move
  <2>3. /\ Todo(2) = 0 /\ str' = str /\ event' = event /\ gone' = gone /\ output' = output
    BY <1>4, <2>1, <2>2, NowIs DEF T!Joins, T!Does, T!sync, TaskShape
  <2>4. QED BY <1>4, <1>10, <2>2, <2>3 DEF EventInv, ReadersInv
<1>11. CASE t = 0 /\ Todo(0) = 2
  <2>1. T!Now(0) = <<"destroy">>
    BY <1>3, <1>11, EventScripts DEF Move
  <2>2. T!Destroys(0) /\ Todo(0)' = 1 /\ Todo(1)' = Todo(1) /\ Todo(2)' = Todo(2)
    BY <1>2, <1>3, <1>11, <2>1, ByName DEF Move
  <2>3. /\ gone' = TRUE /\ str' = str /\ event' = event /\ output' = output
    BY <1>4, <2>1, <2>2 DEF T!Destroys, T!Does, TaskShape
  <2>4. QED BY <1>4, <1>11, <2>2, <2>3 DEF EventInv, ReadersInv
<1>12. CASE t = 0 /\ Todo(0) = 1
  <2>1. T!Now(0) = <<"return">>
    BY <1>3, <1>12, EventScripts DEF Move
  <2>2. T!Returns(0) /\ Todo(0)' = 0 /\ Todo(1)' = 0 /\ Todo(2)' = 0
    BY <1>2, <1>3, <1>12, <2>1, ByName DEF Move, T!Forks
  <2>3. /\ str' = str /\ event' = event /\ gone' = gone /\ output' = output
    BY <1>4, <2>1, <2>2 DEF T!Returns, T!sync, TaskShape
  <2>4. QED BY <1>4, <1>12, <2>2, <2>3 DEF EventInv, ReadersInv
<1>13. CASE t = 1 /\ Todo(1) = 3
  <2>1. T!Now(1) = <<"waitevent">>
    BY <1>3, <1>13, EventScripts DEF Move
  <2>2. T!WaitsEvent(1) /\ Todo(0)' = Todo(0) /\ Todo(1)' = 2 /\ Todo(2)' = Todo(2)
    BY <1>2, <1>3, <1>13, <2>1, ByName DEF Move
  <2>3. /\ event /\ str' = str /\ event' = event /\ gone' = gone /\ output' = output
    BY <1>4, <2>1, <2>2 DEF T!WaitsEvent, T!Does, T!sync, TaskShape
  <2>4. QED BY <1>4, <1>13, <2>2, <2>3 DEF EventInv, ReadersInv
<1>14. CASE t = 1 /\ Todo(1) = 2
  <2>1. T!Now(1) = <<"look">>
    BY <1>3, <1>14, EventScripts DEF Move
  <2>2. T!Looks(1) /\ Todo(0)' = Todo(0) /\ Todo(1)' = 1 /\ Todo(2)' = Todo(2)
    BY <1>2, <1>3, <1>14, <2>1, ByName DEF Move
  <2>3. /\ output'[1] = Append(output[1], str) /\ str' = str /\ event' = event /\ gone' = gone
        /\ output'[0] = output[0] /\ output'[2] = output[2]
    BY <1>4, <2>1, <2>2 DEF T!Looks, T!Does, T!Shows, T!sync, TaskShape
  <2>4. output[1] = <<>> => output'[1] = <<str>>
    BY <2>3, Short, Zenon
  <2>5. /\ str' = str /\ event' = event /\ gone' = gone /\ output'[0] = output[0]
        /\ output'[2] = output[2]
    BY <2>3
  <2>6. QED BY <1>4, <1>14, <2>2, <2>4, <2>5 DEF EventInv, ReadersInv
<1>15. CASE t = 1 /\ Todo(1) = 1
  <2>1. T!Now(1) = <<"return">>
    BY <1>3, <1>15, EventScripts DEF Move
  <2>2. T!Returns(1) /\ Todo(0)' = Todo(0) /\ Todo(1)' = 0 /\ Todo(2)' = Todo(2)
    BY <1>2, <1>3, <1>15, <2>1, ByName DEF Move
  <2>3. /\ str' = str /\ event' = event /\ gone' = gone /\ output' = output
    BY <1>4, <2>1, <2>2 DEF T!Returns, T!sync, TaskShape
  <2>4. QED BY <1>4, <1>15, <2>2, <2>3 DEF EventInv, ReadersInv
<1>16. CASE t = 2 /\ Todo(2) = 3
  <2>1. T!Now(2) = <<"waitevent">>
    BY <1>3, <1>16, EventScripts DEF Move
  <2>2. T!WaitsEvent(2) /\ Todo(0)' = Todo(0) /\ Todo(1)' = Todo(1) /\ Todo(2)' = 2
    BY <1>2, <1>3, <1>16, <2>1, ByName DEF Move
  <2>3. /\ event /\ str' = str /\ event' = event /\ gone' = gone /\ output' = output
    BY <1>4, <2>1, <2>2 DEF T!WaitsEvent, T!Does, T!sync, TaskShape
  <2>4. QED BY <1>4, <1>16, <2>2, <2>3 DEF EventInv, ReadersInv
<1>17. CASE t = 2 /\ Todo(2) = 2
  <2>1. T!Now(2) = <<"look">>
    BY <1>3, <1>17, EventScripts DEF Move
  <2>2. T!Looks(2) /\ Todo(0)' = Todo(0) /\ Todo(1)' = Todo(1) /\ Todo(2)' = 1
    BY <1>2, <1>3, <1>17, <2>1, ByName DEF Move
  <2>3. /\ output'[2] = Append(output[2], str) /\ str' = str /\ event' = event /\ gone' = gone
        /\ output'[0] = output[0] /\ output'[1] = output[1]
    BY <1>4, <2>1, <2>2 DEF T!Looks, T!Does, T!Shows, T!sync, TaskShape
  <2>4. output[2] = <<>> => output'[2] = <<str>>
    BY <2>3, Short, Zenon
  <2>5. /\ str' = str /\ event' = event /\ gone' = gone /\ output'[0] = output[0]
        /\ output'[1] = output[1]
    BY <2>3
  <2>6. QED BY <1>4, <1>17, <2>2, <2>4, <2>5 DEF EventInv, ReadersInv
<1>18. CASE t = 2 /\ Todo(2) = 1
  <2>1. T!Now(2) = <<"return">>
    BY <1>3, <1>18, EventScripts DEF Move
  <2>2. T!Returns(2) /\ Todo(0)' = Todo(0) /\ Todo(1)' = Todo(1) /\ Todo(2)' = 0
    BY <1>2, <1>3, <1>18, <2>1, ByName DEF Move
  <2>3. /\ str' = str /\ event' = event /\ gone' = gone /\ output' = output
    BY <1>4, <2>1, <2>2 DEF T!Returns, T!sync, TaskShape
  <2>4. QED BY <1>4, <1>18, <2>2, <2>3 DEF EventInv, ReadersInv
<1>19. QED BY <1>3, <1>5, <1>6, <1>7, <1>8, <1>9, <1>10, <1>11, <1>12, <1>13, <1>14, <1>15, <1>16, <1>17, <1>18 DEF Move

LEMMA SemaStep ==
    ASSUME TaskShape, ScriptInv, SemaInv, prog = "SyncEvent_Sema", T!Next
    PROVE  ScriptInv' /\ SemaInv'
<1>1. Fixed(8, 4, 4)
  <2>1. Len(<<>>) = 0 /\ {0, 1, 2} \subseteq T!Tasks
    BY SomeTasks
  <2>2. QED BY <2>1, SemaScripts DEF Fixed
<1>2. PICK t \in T!Tasks : ops[t] # <<>> /\ Acts(t)
  BY FollowedCases DEF Followed, Readers
<1>3. Move(t, 8, 4, 4)
  BY <1>1, <1>2, TheirTurn
<1>4. ScriptInv' /\ 0 \in T!Tasks /\ 1 \in T!Tasks /\ 2 \in T!Tasks /\ Todo(0) \in 0..8 /\ Todo(1) \in 0..4 /\ Todo(2) \in 0..4
  BY <1>1, <1>2, TheirTurn, SomeTasks
<1>5. CASE t = 0 /\ Todo(0) = 8
  <2>1. T!Now(0) = <<"create", 1>>
    BY <1>3, <1>5, SemaScripts DEF Move
  <2>2. T!Creates(0) /\ Todo(0)' = 7 /\ Todo(1)' = 4 /\ Todo(2)' = Todo(2)
    BY <1>2, <1>3, <1>5, <2>1, ByName DEF Move
  <2>3. /\ str' = str /\ sem' = sem /\ gone' = gone /\ output' = output
    BY <1>4, <2>1, <2>2 DEF T!Creates, T!main, T!sync, TaskShape
  <2>4. QED BY <1>4, <1>5, <2>2, <2>3 DEF SemaInv, ReadersInv
<1>6. CASE t = 0 /\ Todo(0) = 7
  <2>1. T!Now(0) = <<"create", 2>>
    BY <1>3, <1>6, SemaScripts DEF Move
  <2>2. T!Creates(0) /\ Todo(0)' = 6 /\ Todo(1)' = Todo(1) /\ Todo(2)' = 4
    BY <1>2, <1>3, <1>6, <2>1, ByName DEF Move
  <2>3. /\ str' = str /\ sem' = sem /\ gone' = gone /\ output' = output
    BY <1>4, <2>1, <2>2 DEF T!Creates, T!main, T!sync, TaskShape
  <2>4. QED BY <1>4, <1>6, <2>2, <2>3 DEF SemaInv, ReadersInv
<1>7. CASE t = 0 /\ Todo(0) = 6
  <2>1. T!Now(0) = <<"set", "typed">>
    BY <1>3, <1>7, SemaScripts DEF Move
  <2>2. T!Sets(0) /\ Todo(0)' = 5 /\ Todo(1)' = Todo(1) /\ Todo(2)' = Todo(2)
    BY <1>2, <1>3, <1>7, <2>1, ByName DEF Move
  <2>3. /\ str' = "typed" /\ sem' = sem /\ gone' = gone /\ output' = output
    BY <1>4, <2>1, <2>2 DEF T!Sets, T!Does, T!sync, TaskShape
  <2>4. QED BY <1>4, <1>7, <2>2, <2>3 DEF SemaInv, ReadersInv
<1>8. CASE t = 0 /\ Todo(0) = 5
  <2>1. T!Now(0) = <<"post", 2>>
    BY <1>3, <1>8, SemaScripts DEF Move
  <2>2. T!Posts(0) /\ Todo(0)' = 4 /\ Todo(1)' = Todo(1) /\ Todo(2)' = Todo(2)
    BY <1>2, <1>3, <1>8, <2>1, ByName DEF Move
  <2>3. /\ sem' = sem + 2 /\ str' = str /\ gone' = gone /\ output' = output
    BY <1>4, <2>1, <2>2 DEF T!Posts, T!Does, TaskShape
  <2>4. QED BY <1>4, <1>8, <2>2, <2>3 DEF SemaInv, ReadersInv
<1>9. CASE t = 0 /\ Todo(0) = 4
  <2>1. T!Now(0) = <<"join", 1>>
    BY <1>3, <1>9, SemaScripts DEF Move
  <2>2. T!Joins(0) /\ Todo(0)' = 3 /\ Todo(1)' = Todo(1) /\ Todo(2)' = Todo(2)
    BY <1>2, <1>3, <1>9, <2>1, ByName DEF Move
  <2>3. /\ Todo(1) = 0 /\ str' = str /\ sem' = sem /\ gone' = gone /\ output' = output
    BY <1>4, <2>1, <2>2, NowIs DEF T!Joins, T!Does, T!sync, TaskShape
  <2>4. QED BY <1>4, <1>9, <2>2, <2>3 DEF SemaInv, ReadersInv
<1>10. CASE t = 0 /\ Todo(0) = 3
  <2>1. T!Now(0) = <<"join", 2>>
    BY <1>3, <1>10, SemaScripts DEF Move
  <2>2. T!Joins(0) /\ Todo(0)' = 2 /\ Todo(1)' = Todo(1) /\ Todo(2)' = Todo(2)
    BY <1>2, <1>3, <1>10, <2>1, ByName DEF Move
  <2>3. /\ Todo(2) = 0 /\ str' = str /\ sem' = sem /\ gone' = gone /\ output' = output
    BY <1>4, <2>1, <2>2, NowIs DEF T!Joins, T!Does, T!sync, TaskShape
  <2>4. QED BY <1>4, <1>10, <2>2, <2>3 DEF SemaInv, ReadersInv
<1>11. CASE t = 0 /\ Todo(0) = 2
  <2>1. T!Now(0) = <<"destroy">>
    BY <1>3, <1>11, SemaScripts DEF Move
  <2>2. T!Destroys(0) /\ Todo(0)' = 1 /\ Todo(1)' = Todo(1) /\ Todo(2)' = Todo(2)
    BY <1>2, <1>3, <1>11, <2>1, ByName DEF Move
  <2>3. /\ gone' = TRUE /\ str' = str /\ sem' = sem /\ output' = output
    BY <1>4, <2>1, <2>2 DEF T!Destroys, T!Does, TaskShape
  <2>4. QED BY <1>4, <1>11, <2>2, <2>3 DEF SemaInv, ReadersInv
<1>12. CASE t = 0 /\ Todo(0) = 1
  <2>1. T!Now(0) = <<"return">>
    BY <1>3, <1>12, SemaScripts DEF Move
  <2>2. T!Returns(0) /\ Todo(0)' = 0 /\ Todo(1)' = 0 /\ Todo(2)' = 0
    BY <1>2, <1>3, <1>12, <2>1, ByName DEF Move, T!Forks
  <2>3. /\ str' = str /\ sem' = sem /\ gone' = gone /\ output' = output
    BY <1>4, <2>1, <2>2 DEF T!Returns, T!sync, TaskShape
  <2>4. QED BY <1>4, <1>12, <2>2, <2>3 DEF SemaInv, ReadersInv
<1>13. CASE t = 1 /\ Todo(1) = 4
  <2>1. T!Now(1) = <<"take">>
    BY <1>3, <1>13, SemaScripts DEF Move
  <2>2. T!Takes(1) /\ Todo(0)' = Todo(0) /\ Todo(1)' = 3 /\ Todo(2)' = Todo(2)
    BY <1>2, <1>3, <1>13, <2>1, ByName DEF Move
  <2>3. /\ sem > 0 /\ sem' = sem - 1 /\ str' = str /\ gone' = gone /\ output' = output
    BY <1>4, <2>1, <2>2 DEF T!Takes, T!Does, TaskShape
  <2>4. QED BY <1>4, <1>13, <2>2, <2>3 DEF SemaInv, ReadersInv
<1>14. CASE t = 1 /\ Todo(1) = 3
  <2>1. T!Now(1) = <<"look">>
    BY <1>3, <1>14, SemaScripts DEF Move
  <2>2. T!Looks(1) /\ Todo(0)' = Todo(0) /\ Todo(1)' = 2 /\ Todo(2)' = Todo(2)
    BY <1>2, <1>3, <1>14, <2>1, ByName DEF Move
  <2>3. /\ output'[1] = Append(output[1], str) /\ str' = str /\ sem' = sem /\ gone' = gone
        /\ output'[0] = output[0] /\ output'[2] = output[2]
    BY <1>4, <2>1, <2>2 DEF T!Looks, T!Does, T!Shows, T!sync, TaskShape
  <2>4. output[1] = <<>> => output'[1] = <<str>>
    BY <2>3, Short, Zenon
  <2>5. /\ str' = str /\ sem' = sem /\ gone' = gone /\ output'[0] = output[0]
        /\ output'[2] = output[2]
    BY <2>3
  <2>6. QED BY <1>4, <1>14, <2>2, <2>4, <2>5 DEF SemaInv, ReadersInv
<1>15. CASE t = 1 /\ Todo(1) = 2
  <2>1. T!Now(1) = <<"post", 1>>
    BY <1>3, <1>15, SemaScripts DEF Move
  <2>2. T!Posts(1) /\ Todo(0)' = Todo(0) /\ Todo(1)' = 1 /\ Todo(2)' = Todo(2)
    BY <1>2, <1>3, <1>15, <2>1, ByName DEF Move
  <2>3. /\ sem' = sem + 1 /\ str' = str /\ gone' = gone /\ output' = output
    BY <1>4, <2>1, <2>2 DEF T!Posts, T!Does, TaskShape
  <2>4. QED BY <1>4, <1>15, <2>2, <2>3 DEF SemaInv, ReadersInv
<1>16. CASE t = 1 /\ Todo(1) = 1
  <2>1. T!Now(1) = <<"return">>
    BY <1>3, <1>16, SemaScripts DEF Move
  <2>2. T!Returns(1) /\ Todo(0)' = Todo(0) /\ Todo(1)' = 0 /\ Todo(2)' = Todo(2)
    BY <1>2, <1>3, <1>16, <2>1, ByName DEF Move
  <2>3. /\ str' = str /\ sem' = sem /\ gone' = gone /\ output' = output
    BY <1>4, <2>1, <2>2 DEF T!Returns, T!sync, TaskShape
  <2>4. QED BY <1>4, <1>16, <2>2, <2>3 DEF SemaInv, ReadersInv
<1>17. CASE t = 2 /\ Todo(2) = 4
  <2>1. T!Now(2) = <<"take">>
    BY <1>3, <1>17, SemaScripts DEF Move
  <2>2. T!Takes(2) /\ Todo(0)' = Todo(0) /\ Todo(1)' = Todo(1) /\ Todo(2)' = 3
    BY <1>2, <1>3, <1>17, <2>1, ByName DEF Move
  <2>3. /\ sem > 0 /\ sem' = sem - 1 /\ str' = str /\ gone' = gone /\ output' = output
    BY <1>4, <2>1, <2>2 DEF T!Takes, T!Does, TaskShape
  <2>4. QED BY <1>4, <1>17, <2>2, <2>3 DEF SemaInv, ReadersInv
<1>18. CASE t = 2 /\ Todo(2) = 3
  <2>1. T!Now(2) = <<"look">>
    BY <1>3, <1>18, SemaScripts DEF Move
  <2>2. T!Looks(2) /\ Todo(0)' = Todo(0) /\ Todo(1)' = Todo(1) /\ Todo(2)' = 2
    BY <1>2, <1>3, <1>18, <2>1, ByName DEF Move
  <2>3. /\ output'[2] = Append(output[2], str) /\ str' = str /\ sem' = sem /\ gone' = gone
        /\ output'[0] = output[0] /\ output'[1] = output[1]
    BY <1>4, <2>1, <2>2 DEF T!Looks, T!Does, T!Shows, T!sync, TaskShape
  <2>4. output[2] = <<>> => output'[2] = <<str>>
    BY <2>3, Short, Zenon
  <2>5. /\ str' = str /\ sem' = sem /\ gone' = gone /\ output'[0] = output[0]
        /\ output'[1] = output[1]
    BY <2>3
  <2>6. QED BY <1>4, <1>18, <2>2, <2>4, <2>5 DEF SemaInv, ReadersInv
<1>19. CASE t = 2 /\ Todo(2) = 2
  <2>1. T!Now(2) = <<"post", 1>>
    BY <1>3, <1>19, SemaScripts DEF Move
  <2>2. T!Posts(2) /\ Todo(0)' = Todo(0) /\ Todo(1)' = Todo(1) /\ Todo(2)' = 1
    BY <1>2, <1>3, <1>19, <2>1, ByName DEF Move
  <2>3. /\ sem' = sem + 1 /\ str' = str /\ gone' = gone /\ output' = output
    BY <1>4, <2>1, <2>2 DEF T!Posts, T!Does, TaskShape
  <2>4. QED BY <1>4, <1>19, <2>2, <2>3 DEF SemaInv, ReadersInv
<1>20. CASE t = 2 /\ Todo(2) = 1
  <2>1. T!Now(2) = <<"return">>
    BY <1>3, <1>20, SemaScripts DEF Move
  <2>2. T!Returns(2) /\ Todo(0)' = Todo(0) /\ Todo(1)' = Todo(1) /\ Todo(2)' = 0
    BY <1>2, <1>3, <1>20, <2>1, ByName DEF Move
  <2>3. /\ str' = str /\ sem' = sem /\ gone' = gone /\ output' = output
    BY <1>4, <2>1, <2>2 DEF T!Returns, T!sync, TaskShape
  <2>4. QED BY <1>4, <1>20, <2>2, <2>3 DEF SemaInv, ReadersInv
<1>21. QED BY <1>3, <1>5, <1>6, <1>7, <1>8, <1>9, <1>10, <1>11, <1>12, <1>13, <1>14, <1>15, <1>16, <1>17, <1>18, <1>19, <1>20 DEF Move


\* The call that a thread is at, and what comes after it.
At(k, c, rest) == T!Now(k) = c /\ Tail(ops[k]) = rest
FreeMove(k, n) ==
    \/ n = 0 /\ At(k, T!Op("return"), <<>>)
    \/ n > 0 /\ At(k, Load, <<Put(k)>> \o AddsLeft(n - 1, k, Ending))
    \/ n > 0 /\ At(k, Put(k), AddsLeft(n - 1, k, Ending))
OnceMove(k, n) ==
    \/ n = Loops /\ lock # {k} /\ At(k, T!Op("lock"), AddsLeft(n, k, Frees))
    \/ n > 0 /\ lock = {k} /\ At(k, Load, <<Put(k)>> \o AddsLeft(n - 1, k, Frees))
    \/ n > 0 /\ lock = {k} /\ reg[k] = mem[0] /\ At(k, Put(k), AddsLeft(n - 1, k, Frees))
    \/ n = 0 /\ lock = {k} /\ At(k, T!Op("unlock"), Ending)
    \/ n = 0 /\ lock # {k} /\ At(k, T!Op("return"), <<>>)
EachMove(k, n) ==
    \/ n > 0 /\ lock # {k} /\ At(k, T!Op("lock"), <<Load, Put(k), T!Op("unlock")>> \o EachLeft(n - 1, k))
    \/ n > 0 /\ lock = {k} /\ At(k, Load, <<Put(k), T!Op("unlock")>> \o EachLeft(n - 1, k))
    \/ n > 0 /\ lock = {k} /\ reg[k] = mem[0] /\ At(k, Put(k), <<T!Op("unlock")>> \o EachLeft(n - 1, k))
    \/ lock = {k} /\ At(k, T!Op("unlock"), EachLeft(n, k))
    \/ n = 0 /\ lock # {k} /\ At(k, T!Op("return"), <<>>)

LEMMA AtFirst ==
    ASSUME NEW k, NEW p \in Seq(CounterCalls), NEW s \in Seq(CounterCalls), p # <<>>, ops[k] = p \o s
    PROVE  At(k, Head(p), Tail(p) \o s)
BY FirstCall DEF At, T!Now

LEMMA AtEnding ==
    ASSUME NEW k
    PROVE  /\ ops[k] = Ending => At(k, T!Op("return"), <<>>)
           /\ ops[k] = Frees => At(k, T!Op("unlock"), Ending)
BY FewCalls, ZenonT(60) DEF At, T!Now, Ending, Frees

LEMMA AtAdds ==
    ASSUME NEW k \in Int, NEW n \in Nat, NEW rest \in Seq(CounterCalls)
    PROVE  /\ n > 0 /\ ops[k] = AddsLeft(n, k, rest) => At(k, Load, <<Put(k)>> \o AddsLeft(n - 1, k, rest))
           /\ n > 0 /\ ops[k] = <<Put(k)>> \o AddsLeft(n - 1, k, rest) => At(k, Put(k), AddsLeft(n - 1, k, rest))
           /\ ops[k] = <<T!Op("lock")>> \o AddsLeft(n, k, rest) => At(k, T!Op("lock"), AddsLeft(n, k, rest))
<1> DEFINE lk == <<T!Op("lock")>>
           ad == <<Load, Put(k)>>
           pt == <<Put(k)>>
           A(m) == AddsLeft(m, k, rest)
<1>1. /\ lk \in Seq(CounterCalls) /\ lk # <<>> /\ Head(lk) = T!Op("lock") /\ Tail(lk) = <<>>
      /\ ad \in Seq(CounterCalls) /\ ad # <<>> /\ Head(ad) = Load /\ Tail(ad) = pt
      /\ pt \in Seq(CounterCalls) /\ pt # <<>> /\ Head(pt) = Put(k) /\ Tail(pt) = <<>>
  <2>1. T!Op("lock") \in CounterCalls /\ Load \in CounterCalls /\ Put(k) \in CounterCalls
    BY CounterTypes DEF CounterCalls
  <2>2. QED BY <2>1, FewCalls
<1>2. A(n) \in Seq(CounterCalls) /\ (n > 0 => A(n - 1) \in Seq(CounterCalls) /\ A(n) = ad \o A(n - 1))
  <2>1. A(n) \in Seq(CounterCalls)
    BY AddsOnce
  <2>2. ASSUME n > 0 PROVE A(n - 1) \in Seq(CounterCalls) /\ A(n) = ad \o A(n - 1)
    <3>1. n - 1 \in Nat /\ (n - 1) + 1 = n
      BY <2>2
    <3>2. A(n - 1) \in Seq(CounterCalls) /\ A((n - 1) + 1) = ad \o A(n - 1)
      BY <3>1, AddsOnce
    <3>3. QED BY <3>1, <3>2
  <2>3. QED BY <2>1, <2>2
<1> HIDE DEF lk, ad, pt, A
<1>3. \A s \in Seq(CounterCalls) : <<>> \o s = s
  OBVIOUS
<1>4. n > 0 /\ ops[k] = A(n) => At(k, Load, pt \o A(n - 1))
  BY <1>1, <1>2, AtFirst
<1>5. n > 0 /\ ops[k] = pt \o A(n - 1) => At(k, Put(k), A(n - 1))
  BY <1>1, <1>2, <1>3, AtFirst
<1>6. ops[k] = lk \o A(n) => At(k, T!Op("lock"), A(n))
  BY <1>1, <1>2, <1>3, AtFirst
<1>7. QED BY <1>4, <1>5, <1>6 DEF lk, ad, pt, A

LEMMA AtEach ==
    ASSUME NEW k \in Int, NEW n \in Nat
    PROVE  /\ n > 0 /\ ops[k] = EachLeft(n, k) => At(k, T!Op("lock"), <<Load, Put(k), T!Op("unlock")>> \o EachLeft(n - 1, k))
           /\ n > 0 /\ ops[k] = <<Load, Put(k), T!Op("unlock")>> \o EachLeft(n - 1, k)
                 => At(k, Load, <<Put(k), T!Op("unlock")>> \o EachLeft(n - 1, k))
           /\ n > 0 /\ ops[k] = <<Put(k), T!Op("unlock")>> \o EachLeft(n - 1, k)
                 => At(k, Put(k), <<T!Op("unlock")>> \o EachLeft(n - 1, k))
           /\ ops[k] = <<T!Op("unlock")>> \o EachLeft(n, k) => At(k, T!Op("unlock"), EachLeft(n, k))
<1> DEFINE lk == <<T!Op("lock")>>
           ul == <<T!Op("unlock")>>
           pu == <<Put(k), T!Op("unlock")>>
           lp == <<Load, Put(k), T!Op("unlock")>>
           E(m) == EachLeft(m, k)
<1>1. /\ lk \in Seq(CounterCalls) /\ lk # <<>> /\ Head(lk) = T!Op("lock") /\ Tail(lk) = <<>>
      /\ ul \in Seq(CounterCalls) /\ ul # <<>> /\ Head(ul) = T!Op("unlock") /\ Tail(ul) = <<>>
      /\ pu \in Seq(CounterCalls) /\ pu # <<>> /\ Head(pu) = Put(k) /\ Tail(pu) = ul
      /\ lp \in Seq(CounterCalls) /\ lp # <<>> /\ Head(lp) = Load /\ Tail(lp) = pu
  <2>1. T!Op("lock") \in CounterCalls /\ T!Op("unlock") \in CounterCalls /\ Load \in CounterCalls /\ Put(k) \in CounterCalls
    BY CounterTypes DEF CounterCalls
  <2>2. QED BY <2>1, FewCalls
<1>2. E(n) \in Seq(CounterCalls) /\ (n > 0 => E(n - 1) \in Seq(CounterCalls) /\ E(n) = lk \o (lp \o E(n - 1)))
  <2>1. E(n) \in Seq(CounterCalls)
    BY EachOnce
  <2>2. ASSUME n > 0 PROVE E(n - 1) \in Seq(CounterCalls) /\ E(n) = lk \o (lp \o E(n - 1))
    <3>1. n - 1 \in Nat /\ (n - 1) + 1 = n
      BY <2>2
    <3>2. E(n - 1) \in Seq(CounterCalls) /\ E((n - 1) + 1) = lk \o (lp \o E(n - 1))
      BY <3>1, EachOnce
    <3>3. QED BY <3>1, <3>2
  <2>3. QED BY <2>1, <2>2
<1> HIDE DEF lk, ul, pu, lp, E
<1>3. \A s \in Seq(CounterCalls) : <<>> \o s = s /\ lp \o s \in Seq(CounterCalls)
  BY <1>1
<1>4. n > 0 /\ ops[k] = E(n) => At(k, T!Op("lock"), lp \o E(n - 1))
  <2>1. SUFFICES ASSUME n > 0, ops[k] = E(n) PROVE At(k, T!Op("lock"), lp \o E(n - 1))
    OBVIOUS
  <2>2. lp \o E(n - 1) \in Seq(CounterCalls) /\ ops[k] = lk \o (lp \o E(n - 1))
    BY <1>2, <1>3, <2>1
  <2>3. At(k, Head(lk), Tail(lk) \o (lp \o E(n - 1)))
    BY <1>1, <2>2, AtFirst
  <2>4. Tail(lk) \o (lp \o E(n - 1)) = lp \o E(n - 1)
    BY <1>1, <1>3, <2>2
  <2>5. QED BY <1>1, <2>3, <2>4
<1>5. n > 0 /\ ops[k] = lp \o E(n - 1) => At(k, Load, pu \o E(n - 1))
  BY <1>1, <1>2, <1>3, AtFirst
<1>6. n > 0 /\ ops[k] = pu \o E(n - 1) => At(k, Put(k), ul \o E(n - 1))
  <2>1. SUFFICES ASSUME n > 0, ops[k] = pu \o E(n - 1) PROVE At(k, Put(k), ul \o E(n - 1))
    OBVIOUS
  <2>2. E(n - 1) \in Seq(CounterCalls)
    BY <1>2, <2>1
  <2>3. At(k, Head(pu), Tail(pu) \o E(n - 1))
    BY <1>1, <2>1, <2>2, AtFirst
  <2>4. QED BY <1>1, <2>3
<1>7. ops[k] = ul \o E(n) => At(k, T!Op("unlock"), E(n))
  <2>1. SUFFICES ASSUME ops[k] = ul \o E(n) PROVE At(k, T!Op("unlock"), E(n))
    OBVIOUS
  <2>2. At(k, Head(ul), Tail(ul) \o E(n))
    BY <1>1, <1>2, <2>1, AtFirst
  <2>3. QED BY <1>1, <1>2, <1>3, <2>2
<1>8. QED BY <1>4, <1>5, <1>6, <1>7 DEF lk, ul, pu, lp, E

LEMMA ThreadMoves ==
    ASSUME NEW k \in Int, NEW n \in 0..Loops, ThreadAt(k, n), ops[k] # <<>>
    PROVE  /\ ~NotYet(k)
           /\ Free => FreeMove(k, n)
           /\ ~Free /\ Each(k) => EachMove(k, n)
           /\ ~Free /\ ~Each(k) => OnceMove(k, n)
<1>1. ~NotYet(k)
  BY DEF ThreadAt
<1>2. n \in Nat /\ Ending \in Seq(CounterCalls) /\ Frees \in Seq(CounterCalls)
  BY CounterParts, CounterKids
<1>3. AddsLeft(0, k, Ending) = Ending /\ AddsLeft(0, k, Frees) = Frees /\ EachLeft(0, k) = Ending
  BY <1>2, AddsOnce, EachOnce
<1>4. n = 0 \/ n > 0
  BY <1>2
<1>5. ASSUME Free PROVE FreeMove(k, n)
  <2>1. FreeAt(k, n)
    BY <1>1, <1>5 DEF ThreadAt
  <2>2. QED BY <1>2, <1>3, <1>4, <2>1, AtAdds, AtEnding DEF FreeAt, FreeMove
<1>6. ASSUME ~Free, Each(k) PROVE EachMove(k, n)
  <2>1. EachAt(k, n)
    BY <1>1, <1>6 DEF ThreadAt
  <2>2. QED BY <1>2, <1>3, <1>4, <2>1, AtEach, AtEnding DEF EachAt, EachMove
<1>7. ASSUME ~Free, ~Each(k) PROVE OnceMove(k, n)
  <2>1. OnceAt(k, n)
    BY <1>1, <1>7 DEF ThreadAt
  <2>2. QED BY <1>2, <1>3, <1>4, <2>1, AtAdds, AtEnding DEF OnceAt, OnceMove
<1>8. QED BY <1>1, <1>5, <1>6, <1>7

LEMMA CallHeads ==
    /\ Load[1] = "load" /\ \A k : Put(k)[1] = "store" /\ Put(k)[2] = Sign(k)
    /\ T!Op("lock")[1] = "lock" /\ T!Op("unlock")[1] = "unlock" /\ T!Op("return")[1] = "return"
BY DEF Load, Put, T!Op

\* A thread's call changes its own script and leaves main's alone.
LEMMA ThreadCall ==
    ASSUME TaskShape, NEW k \in T!Kids, ops[k] # <<>>, Acts(k), T!Now(k)[1] # "create"
    PROVE  /\ prog' = prog /\ Todo(0)' = Todo(0) /\ ops'[0] = ops[0]
           /\ T!Now(k)[1] # "return" => ops'[k] = Tail(ops[k])
           /\ T!Now(k)[1] = "return" => ops'[k] = <<>>
           /\ \A u \in T!Tasks \ {k} : ops'[u] = ops[u]
<1>1. Frame(k)
  BY CallFrame DEF TaskShape
<1>2. 0 \in T!Tasks /\ k \in T!Tasks /\ k # 0 /\ ops \in [T!Tasks -> Seq(Allowed(prog))]
  BY CounterKids DEF TaskShape
<1>3. CASE T!Now(k)[1] = "return"
  <2>1. T!Returns(k)
    BY <1>3, ByName
  <2>2. ops'[k] = <<>> /\ \A u \in T!Tasks \ {k} : ops'[u] = ops[u]
    BY <1>2, <2>1 DEF T!Returns, T!main
  <2>3. QED BY <1>1, <1>2, <1>3, <2>2 DEF Frame, Todo
<1>4. CASE T!Now(k)[1] # "return"
  <2>1. ops' = [ops EXCEPT ![k] = Tail(@)] /\ prog' = prog
    BY <1>1, <1>4 DEF Frame, T!Creates, T!Returns
  <2>2. ops'[k] = Tail(ops[k]) /\ \A u \in T!Tasks \ {k} : ops'[u] = ops[u]
    BY <1>2, <2>1
  <2>3. QED BY <1>2, <1>4, <2>1, <2>2, SMTT(30) DEF Todo
<1>5. QED BY <1>3, <1>4

\* ThreadAt once more, for the state after a step.
LEMMA ThreadAtNext ==
    ASSUME NEW k, NEW n, prog' = prog
    PROVE  /\ (NotYet(k) /\ n = Loops /\ ops[k] = <<>> /\ lock # {k})' => ThreadAt(k, n)'
           /\ ~NotYet(k)' /\ Free =>
                 (ThreadAt(k, n)' <=> \/ ops'[k] = AddsLeft(n, k, Ending)
                                      \/ n > 0 /\ ops'[k] = <<Put(k)>> \o AddsLeft(n - 1, k, Ending)
                                      \/ n = 0 /\ ops'[k] = <<>>)
           /\ ~NotYet(k)' /\ ~Free /\ Each(k) =>
                 (ThreadAt(k, n)' <=>
                     \/ ops'[k] = EachLeft(n, k) /\ lock' # {k}
                     \/ n > 0 /\ ops'[k] = <<Load, Put(k), T!Op("unlock")>> \o EachLeft(n - 1, k) /\ lock' = {k}
                     \/ n > 0 /\ ops'[k] = <<Put(k), T!Op("unlock")>> \o EachLeft(n - 1, k) /\ lock' = {k}
                           /\ reg'[k] = mem'[0]
                     \/ ops'[k] = <<T!Op("unlock")>> \o EachLeft(n, k) /\ lock' = {k}
                     \/ n = 0 /\ ops'[k] = <<>> /\ lock' # {k})
           /\ ~NotYet(k)' /\ ~Free /\ ~Each(k) =>
                 (ThreadAt(k, n)' <=>
                     \/ n = Loops /\ ops'[k] = <<T!Op("lock")>> \o AddsLeft(n, k, Frees) /\ lock' # {k}
                     \/ ops'[k] = AddsLeft(n, k, Frees) /\ lock' = {k}
                     \/ n > 0 /\ ops'[k] = <<Put(k)>> \o AddsLeft(n - 1, k, Frees) /\ lock' = {k} /\ reg'[k] = mem'[0]
                     \/ n = 0 /\ ops'[k] \in {Ending, <<>>} /\ lock' # {k})
<1>1. Free' = Free /\ Each(k)' = Each(k)
  BY DEF Free, Each
<1>2. (NotYet(k) /\ n = Loops /\ ops[k] = <<>> /\ lock # {k})' => ThreadAt(k, n)'
  BY DEF ThreadAt
<1>3. ~NotYet(k)' /\ Free => (ThreadAt(k, n)' <=> FreeAt(k, n)')
  BY <1>1 DEF ThreadAt
<1>4. ~NotYet(k)' /\ ~Free /\ Each(k) => (ThreadAt(k, n)' <=> EachAt(k, n)')
  BY <1>1 DEF ThreadAt
<1>5. ~NotYet(k)' /\ ~Free /\ ~Each(k) => (ThreadAt(k, n)' <=> OnceAt(k, n)')
  BY <1>1 DEF ThreadAt
<1>6. QED BY <1>2, <1>3, <1>4, <1>5, Zenon DEF FreeAt, EachAt, OnceAt

\* A call of a thread, and where the thread is after it.
LEMMA ThreadMove ==
    ASSUME TaskShape, prog \in CountingPrograms, NEW k \in T!Kids, NEW n \in 0..Loops, ThreadAt(k, n),
           ops[k] # <<>>, Acts(k)
    PROVE  /\ prog' = prog /\ Todo(0)' = Todo(0) /\ ops'[0] = ops[0]
           /\ \A u \in T!Tasks \ {k} : ops'[u] = ops[u]
           /\ \/ T!Loads(k) /\ (Free \/ lock = {k}) /\ ThreadAt(k, n)'
              \/ /\ T!Stores(k) /\ n > 0 /\ T!Now(k) = Put(k) /\ ThreadAt(k, n - 1)'
                 /\ Free \/ (lock = {k} /\ reg[k] = mem[0])
              \/ T!Locks(k) /\ ~Free /\ ThreadAt(k, n)'
              \/ T!Unlocks(k) /\ ~Free /\ lock = {k} /\ ThreadAt(k, n)'
              \/ T!Returns(k) /\ n = 0 /\ ThreadAt(k, n)'
<1>1. /\ ~NotYet(k) /\ (Free => FreeMove(k, n))
      /\ (~Free /\ Each(k) => EachMove(k, n)) /\ (~Free /\ ~Each(k) => OnceMove(k, n))
  BY CounterKids, ThreadMoves
<1>2. T!Now(k)[1] \in {"load", "store", "lock", "unlock", "return"}
  BY <1>1, CallHeads DEF FreeMove, EachMove, OnceMove, At
<1>3. /\ prog' = prog /\ Todo(0)' = Todo(0) /\ ops'[0] = ops[0] /\ \A u \in T!Tasks \ {k} : ops'[u] = ops[u]
      /\ T!Now(k)[1] # "return" => ops'[k] = Tail(ops[k])
      /\ T!Now(k)[1] = "return" => ops'[k] = <<>>
  BY <1>2, ThreadCall
<1>4. ~NotYet(k)' /\ DOMAIN reg = T!Tasks /\ k \in T!Tasks /\ prog \notin T!Forks /\ n \in Nat
  BY <1>1, <1>3, CounterKids DEF NotYet, TaskShape, CountingPrograms, T!Forks
<1>5. CASE T!Now(k)[1] = "load"
  <2>1. T!Loads(k)
    BY <1>5, ByName
  <2>2. reg'[k] = mem[0] /\ mem' = mem /\ lock' = lock
    BY <1>4, <2>1 DEF T!Loads, T!Space, T!main, T!sync
  <2>3. /\ Free => n > 0 /\ ops'[k] = <<Put(k)>> \o AddsLeft(n - 1, k, Ending)
        /\ ~Free /\ Each(k) => n > 0 /\ lock = {k} /\ ops'[k] = <<Put(k), T!Op("unlock")>> \o EachLeft(n - 1, k)
        /\ ~Free /\ ~Each(k) => n > 0 /\ lock = {k} /\ ops'[k] = <<Put(k)>> \o AddsLeft(n - 1, k, Frees)
    BY <1>1, <1>3, <1>5, CallHeads DEF FreeMove, EachMove, OnceMove, At
  <2>4. ThreadAt(k, n)' /\ (Free \/ lock = {k})
    BY <1>3, <1>4, <2>2, <2>3, ThreadAtNext
  <2>5. QED BY <1>3, <2>1, <2>4
<1>6. CASE T!Now(k)[1] = "store"
  <2>1. T!Stores(k)
    BY <1>6, ByName
  <2>2. lock' = lock
    BY <2>1 DEF T!Stores, T!sync
  <2>3. /\ n > 0 /\ T!Now(k) = Put(k) /\ (Free \/ (lock = {k} /\ reg[k] = mem[0]))
        /\ Free => ops'[k] = AddsLeft(n - 1, k, Ending)
        /\ ~Free /\ Each(k) => lock = {k} /\ ops'[k] = <<T!Op("unlock")>> \o EachLeft(n - 1, k)
        /\ ~Free /\ ~Each(k) => lock = {k} /\ ops'[k] = AddsLeft(n - 1, k, Frees)
    BY <1>1, <1>3, <1>6, CallHeads DEF FreeMove, EachMove, OnceMove, At
  <2>4. ThreadAt(k, n - 1)'
    BY <1>3, <1>4, <2>2, <2>3, ThreadAtNext
  <2>5. QED BY <1>3, <2>1, <2>3, <2>4
<1>7. CASE T!Now(k)[1] = "lock"
  <2>1. T!Locks(k)
    BY <1>7, ByName
  <2>2. lock' = {k}
    BY <2>1 DEF T!Locks
  <2>3. /\ ~Free
        /\ Each(k) => n > 0 /\ ops'[k] = <<Load, Put(k), T!Op("unlock")>> \o EachLeft(n - 1, k)
        /\ ~Each(k) => ops'[k] = AddsLeft(n, k, Frees)
    BY <1>1, <1>3, <1>7, CallHeads DEF FreeMove, EachMove, OnceMove, At
  <2>4. ThreadAt(k, n)'
    BY <1>3, <1>4, <2>2, <2>3, ThreadAtNext
  <2>5. QED BY <1>3, <2>1, <2>3, <2>4
<1>8. CASE T!Now(k)[1] = "unlock"
  <2>1. T!Unlocks(k)
    BY <1>8, ByName
  <2>2. lock' = {} /\ {} # {k}
    BY <2>1 DEF T!Unlocks
  <2>3. /\ ~Free /\ lock = {k}
        /\ Each(k) => ops'[k] = EachLeft(n, k)
        /\ ~Each(k) => n = 0 /\ ops'[k] = Ending
    BY <1>1, <1>3, <1>8, CallHeads DEF FreeMove, EachMove, OnceMove, At
  <2>4. ThreadAt(k, n)'
    BY <1>3, <1>4, <2>2, <2>3, ThreadAtNext
  <2>5. QED BY <1>3, <2>1, <2>3, <2>4
<1>9. CASE T!Now(k)[1] = "return"
  <2>1. T!Returns(k)
    BY <1>9, ByName
  <2>2. lock' = lock
    BY <2>1 DEF T!Returns, T!sync
  <2>3. n = 0 /\ (~Free => lock # {k})
    BY <1>1, <1>3, <1>9, CallHeads DEF FreeMove, EachMove, OnceMove, At
  <2>4. ThreadAt(k, n)'
    BY <1>3, <1>4, <1>9, <2>2, <2>3, ThreadAtNext
  <2>5. QED BY <1>3, <2>1, <2>3, <2>4
<1>10. QED BY <1>2, <1>5, <1>6, <1>7, <1>8, <1>9

\* The others are where they were.
LEMMA ThreadStays ==
    ASSUME prog' = prog, NEW k, NEW n, ThreadAt(k, n), ops'[k] = ops[k], NotYet(k)' = NotYet(k),
           lock' = {k} <=> lock = {k}, ~Free /\ lock = {k} => reg'[k] = reg[k] /\ mem'[0] = mem[0]
    PROVE  ThreadAt(k, n)'
<1>1. CASE NotYet(k)
  <2>1. n = Loops /\ ops[k] = <<>> /\ lock # {k}
    BY <1>1 DEF ThreadAt
  <2>2. (NotYet(k) /\ n = Loops /\ ops[k] = <<>> /\ lock # {k})'
    BY <1>1, <2>1
  <2>3. QED BY <2>2, ThreadAtNext
<1>2. CASE ~NotYet(k)
  <2>1. CASE Free
    <3>1. FreeAt(k, n)
      BY <1>2, <2>1 DEF ThreadAt
    <3>2. QED BY <1>2, <2>1, <3>1, ThreadAtNext DEF FreeAt
  <2>2. CASE ~Free /\ Each(k)
    <3>1. EachAt(k, n)
      BY <1>2, <2>2 DEF ThreadAt
    <3>2. QED BY <1>2, <2>2, <3>1, ThreadAtNext DEF EachAt
  <2>3. CASE ~Free /\ ~Each(k)
    <3>1. OnceAt(k, n)
      BY <1>2, <2>3 DEF ThreadAt
    <3>2. QED BY <1>2, <2>3, <3>1, ThreadAtNext DEF OnceAt
  <2>4. QED BY <2>1, <2>2, <2>3
<1>3. QED BY <1>1, <1>2

\* How many additions the threads have made.
LEMMA MadeFinite ==
    ASSUME NEW togo \in [T!Kids -> 0..Loops]
    PROVE  /\ \A s : IsFiniteSet(Made(togo, s))
           /\ Ups(togo) \in Nat /\ Downs(togo) \in Nat
<1>1. IsFiniteSet((1..NUM_THREAD) \X (1..Loops))
  <2>1. IsFiniteSet(1..NUM_THREAD) /\ IsFiniteSet(1..Loops)
    BY CounterKids, FS_Interval
  <2>2. QED BY <2>1, FS_Product
<1>2. \A s : Made(togo, s) \subseteq (1..NUM_THREAD) \X (1..Loops)
  BY DEF Made
<1>3. \A s : IsFiniteSet(Made(togo, s))
  BY <1>1, <1>2, FS_Subset
<1>4. QED BY <1>3, FS_CardinalityType DEF Ups, Downs

\* One more addition of thread k.
LEMMA MadeOne ==
    ASSUME NEW togo \in [T!Kids -> 0..Loops], NEW k \in T!Kids, togo[k] > 0
    PROVE  LET now == [togo EXCEPT ![k] = @ - 1]
           IN  /\ now \in [T!Kids -> 0..Loops]
               /\ Sign(k) = 1 => Ups(now) = Ups(togo) + 1 /\ Downs(now) = Downs(togo)
               /\ Sign(k) = -1 => Ups(now) = Ups(togo) /\ Downs(now) = Downs(togo) + 1
<1> DEFINE now == [togo EXCEPT ![k] = @ - 1]
           n == togo[k]
           grid == (1..NUM_THREAD) \X (1..Loops)
<1>1. T!Kids = 1..NUM_THREAD /\ NUM_THREAD \in Nat /\ Loops \in Nat
  BY CounterKids
<1>2. now \in [T!Kids -> 0..Loops] /\ now[k] = n - 1 /\ (\A o \in T!Kids \ {k} : now[o] = togo[o]) /\ n \in 1..Loops
  BY <1>1
<1>3. <<k, n>> \in grid /\ <<k, n>>[1] = k /\ <<k, n>>[2] = n
  BY <1>1, <1>2
<1>4. \A x \in grid : /\ x[1] \in T!Kids /\ x[2] \in 1..Loops /\ (x[1] = k /\ x[2] = n => x = <<k, n>>)
  BY <1>1
<1> HIDE DEF now, n
<1>5. \A x \in grid : x[2] > now[x[1]] <=> x[2] > togo[x[1]] \/ x = <<k, n>>
  <2> SUFFICES ASSUME NEW x \in grid PROVE x[2] > now[x[1]] <=> x[2] > togo[x[1]] \/ x = <<k, n>>
    OBVIOUS
  <2>1. CASE x[1] = k
    <3>1. x = <<k, n>> <=> x[2] = n
      BY <1>3, <1>4, <2>1
    <3>2. now[x[1]] = n - 1 /\ togo[x[1]] = n /\ x[2] \in Int /\ n \in Int
      BY <1>2, <1>4, <2>1 DEF n
    <3>3. QED BY <3>1, <3>2
  <2>2. CASE x[1] # k
    BY <1>2, <1>3, <1>4, <2>2
  <2>3. QED BY <2>1, <2>2
<1>6. Made(now, Sign(k)) = Made(togo, Sign(k)) \cup {<<k, n>>}
  BY <1>3, <1>5 DEF Made
<1>7. \A s : s # Sign(k) => Made(now, s) = Made(togo, s)
  BY <1>3, <1>5 DEF Made
<1>8. <<k, n>> \notin Made(togo, Sign(k))
  BY <1>2, <1>3 DEF Made, n
<1>9. Cardinality(Made(now, Sign(k))) = Cardinality(Made(togo, Sign(k))) + 1
  BY <1>6, <1>8, MadeFinite, FS_AddElement
<1>10. Sign(k) = 1 => Ups(now) = Ups(togo) + 1 /\ Downs(now) = Downs(togo)
  <2>1. ASSUME Sign(k) = 1 PROVE Ups(now) = Ups(togo) + 1 /\ Downs(now) = Downs(togo)
    <3>1. Made(now, -1) = Made(togo, -1)
      BY <1>7, <2>1
    <3>2. QED BY <1>9, <2>1, <3>1 DEF Ups, Downs
  <2>2. QED BY <2>1
<1>11. Sign(k) = -1 => Ups(now) = Ups(togo) /\ Downs(now) = Downs(togo) + 1
  <2>1. ASSUME Sign(k) = -1 PROVE Ups(now) = Ups(togo) /\ Downs(now) = Downs(togo) + 1
    <3>1. Made(now, 1) = Made(togo, 1)
      BY <1>7, <2>1
    <3>2. QED BY <1>9, <2>1, <3>1 DEF Ups, Downs
  <2>2. QED BY <2>1
<1>12. QED BY <1>2, <1>10, <1>11 DEF now

LEMMA MadeNone ==
    ASSUME NEW togo \in [T!Kids -> 0..Loops], \A k \in T!Kids : togo[k] = Loops
    PROVE  Ups(togo) = 0 /\ Downs(togo) = 0
<1>1. \A s : Made(togo, s) = {}
  BY CounterKids DEF Made
<1>2. QED BY <1>1, FS_EmptySet DEF Ups, Downs

\* As many threads add as subtract.
LEMMA MadeAll ==
    ASSUME NEW togo \in [T!Kids -> 0..Loops], \A k \in T!Kids : togo[k] = 0
    PROVE  Ups(togo) = T!Half /\ Downs(togo) = T!Half /\ T!Half \in Nat
<1> DEFINE N == NUM_THREAD
           evens == {k \in 1..N : k % 2 = 0}
           odds  == {k \in 1..N : ~(k % 2 = 0)}
           f == [k \in odds |-> k + 1]
<1>1. T!Kids = 1..N /\ N \in Nat /\ N % 2 = 0 /\ Loops \in Nat
  BY CounterKids, ProgramConstants
<1>2. IsFiniteSet(evens) /\ IsFiniteSet(odds) /\ IsFiniteSet(1..Loops) /\ Cardinality(1..Loops) = Loops
  <2>1. IsFiniteSet(1..N) /\ IsFiniteSet(1..Loops) /\ Cardinality(1..Loops) = Loops
    <3>1. 1 \in Int /\ N \in Int /\ Loops \in Int
      BY <1>1
    <3>2. IsFiniteSet(1..N) /\ IsFiniteSet(1..Loops)
      BY <3>1, FS_Interval
    <3>3. Cardinality(1..Loops) = IF 1 > Loops THEN 0 ELSE Loops - 1 + 1
      BY <3>1, FS_Interval
    <3>4. QED BY <1>1, <3>2, <3>3
  <2>2. evens \in SUBSET (1..N) /\ odds \in SUBSET (1..N)
    OBVIOUS
  <2>3. QED BY <2>1, <2>2, FS_Subset
<1>3. Made(togo, 1) = evens \X (1..Loops) /\ Made(togo, -1) = odds \X (1..Loops)
  <2>1. \A x \in (1..N) \X (1..Loops) : x[2] > togo[x[1]]
    BY <1>1
  <2>2. Made(togo, 1) = {x \in (1..N) \X (1..Loops) : x[1] % 2 = 0}
    BY <2>1 DEF Made, Sign
  <2>3. Made(togo, -1) = {x \in (1..N) \X (1..Loops) : ~(x[1] % 2 = 0)}
    BY <2>1 DEF Made, Sign
  <2>4. QED BY <2>2, <2>3
<1>4. Cardinality(odds) = Cardinality(evens)
  <2>1. f \in Bijection(odds, evens)
    <3>1. \A k \in odds : k + 1 \in evens
      BY <1>1
    <3>2. \A k \in evens : k - 1 \in odds /\ (k - 1) + 1 = k
      BY <1>1
    <3>3. f \in [odds -> evens]
      BY <3>1
    <3>4. \A a, b \in odds : f[a] = f[b] => a = b
      BY <1>1
    <3>5. \A b \in evens : \E a \in odds : f[a] = b
      BY <3>2
    <3>6. QED BY <3>3, <3>4, <3>5 DEF Bijection, Injection, IsInjective, Surjection
  <2>2. ExistsBijection(odds, evens)
    BY <2>1 DEF ExistsBijection
  <2>3. QED BY <1>2, <2>2, FS_Bijection
<1>5. /\ Cardinality(evens \X (1..Loops)) = Cardinality(evens) * Loops
      /\ Cardinality(odds \X (1..Loops)) = Cardinality(odds) * Loops
  BY <1>2, FS_Product
<1>6. T!Half = Cardinality(evens) * Loops /\ Cardinality(evens) \in Nat
  <2>1. T!Cardinality(evens) = Cardinality(evens)
    BY DEF T!Cardinality, Cardinality
  <2>2. QED BY <1>2, <2>1, FS_CardinalityType DEF T!Half
<1>7. Ups(togo) = Cardinality(evens \X (1..Loops)) /\ Downs(togo) = Cardinality(odds \X (1..Loops))
  BY <1>3 DEF Ups, Downs
<1> DEFINE E == Cardinality(evens)
<1> HIDE DEF E, evens, odds, N
<1>8. E * Loops \in Nat
  BY <1>1, <1>6 DEF E
<1>9. QED BY <1>4, <1>5, <1>6, <1>7, <1>8 DEF E

\* The invariant once more, for the state after a step.
LEMMA CounterNext ==
    ASSUME prog' = prog, NEW togo \in [T!Kids -> 0..Loops],
           \A k \in T!Kids : ThreadAt(k, togo[k])',
           Free => Within(mem'[0], togo) /\ \A k \in T!Kids : Within(reg'[k], togo),
           ~Free => mem'[0] = Ups(togo) - Downs(togo),
           AtScript(0)', \A k \in T!Kids : Joined(k)' => ops'[k] = <<>>,
           gone' => Todo(0)' <= 2, output'[1] = <<>>, output'[2] = <<>>,
           Todo(0)' >= 2 => output'[0] = <<>>,
           ~(Todo(0)' >= 2) => \E v \in -T!Half..T!Half : output'[0] = <<v>> /\ (Free \/ v = 0)
    PROVE  CounterInv'
<1>1. Free' = Free
  BY DEF Free
<1>2. /\ \A k \in T!Kids : ThreadAt(k, togo[k])'
      /\ (IF Free THEN Within(mem[0], togo) /\ \A k \in T!Kids : Within(reg[k], togo)
                  ELSE mem[0] = Ups(togo) - Downs(togo))'
  BY <1>1
<1>3. (\E t \in [T!Kids -> 0..Loops] :
          /\ \A k \in T!Kids : ThreadAt(k, t[k])
          /\ IF Free THEN Within(mem[0], t) /\ \A k \in T!Kids : Within(reg[k], t)
                     ELSE mem[0] = Ups(t) - Downs(t))'
  BY <1>2
<1>4. (IF Todo(0) >= 2 THEN output[0] = <<>>
       ELSE \E v \in -T!Half..T!Half : output[0] = <<v>> /\ (Free \/ v = 0))'
  BY <1>1
<1>5. QED BY <1>3, <1>4 DEF CounterInv

\* A value stays within the additions made.
LEMMA WithinMore ==
    ASSUME NEW togo \in [T!Kids -> 0..Loops], NEW k \in T!Kids, togo[k] > 0, NEW v, Within(v, togo)
    PROVE  LET now == [togo EXCEPT ![k] = @ - 1]
           IN  Within(v, now) /\ Within(v + Sign(k), now)
<1> DEFINE now == [togo EXCEPT ![k] = @ - 1]
<1>1. Ups(togo) \in Nat /\ Downs(togo) \in Nat /\ Sign(k) \in {1, -1}
  BY MadeFinite DEF Sign
<1>2. /\ Sign(k) = 1 => Ups(now) = Ups(togo) + 1 /\ Downs(now) = Downs(togo)
      /\ Sign(k) = -1 => Ups(now) = Ups(togo) /\ Downs(now) = Downs(togo) + 1
  BY MadeOne
<1> HIDE DEF now
<1>3. v \in Int /\ v <= Ups(togo) /\ -Downs(togo) <= v
  BY DEF Within
<1>4. QED BY <1>1, <1>2, <1>3 DEF Within, now

\* A call of a thread keeps the count.
LEMMA CounterThread ==
    ASSUME TaskShape, prog \in CountingPrograms, CounterInv, NEW k \in T!Kids, ops[k] # <<>>, Acts(k)
    PROVE  CounterInv'
<1>1. PICK togo \in [T!Kids -> 0..Loops] :
         /\ \A o \in T!Kids : ThreadAt(o, togo[o])
         /\ IF Free THEN Within(mem[0], togo) /\ \A o \in T!Kids : Within(reg[o], togo)
                    ELSE mem[0] = Ups(togo) - Downs(togo)
  BY DEF CounterInv
<1> DEFINE n == togo[k]
           now == [togo EXCEPT ![k] = @ - 1]
           Loading == T!Loads(k) /\ (Free \/ lock = {k}) /\ ThreadAt(k, n)'
           Storing == /\ T!Stores(k) /\ n > 0 /\ T!Now(k) = Put(k) /\ ThreadAt(k, n - 1)'
                      /\ Free \/ (lock = {k} /\ reg[k] = mem[0])
           Locking == T!Locks(k) /\ ~Free /\ ThreadAt(k, n)'
           Freeing == T!Unlocks(k) /\ ~Free /\ lock = {k} /\ ThreadAt(k, n)'
           Leaving == T!Returns(k) /\ n = 0 /\ ThreadAt(k, n)'
<1>2. n \in 0..Loops /\ ThreadAt(k, n)
  BY <1>1
<1>3. /\ prog' = prog /\ Todo(0)' = Todo(0) /\ ops'[0] = ops[0]
      /\ \A u \in T!Tasks \ {k} : ops'[u] = ops[u]
      /\ Loading \/ Storing \/ Locking \/ Freeing \/ Leaving
  BY <1>2, ThreadMove
<1>4. gone' = gone /\ output' = output
  <2>1. T!Loads(k) \/ T!Stores(k) \/ T!Locks(k) \/ T!Unlocks(k) \/ T!Returns(k)
    BY <1>3
  <2>2. QED BY <2>1 DEF T!Loads, T!Stores, T!Locks, T!Unlocks, T!Returns, T!sync
<1>5. /\ AtScript(0)' /\ (\A o \in T!Kids : Joined(o)' => ops'[o] = <<>>)
      /\ (gone' => Todo(0)' <= 2) /\ output'[1] = <<>> /\ output'[2] = <<>>
      /\ (Todo(0)' >= 2 => output'[0] = <<>>)
      /\ (~(Todo(0)' >= 2) => \E v \in -T!Half..T!Half : output'[0] = <<v>> /\ (Free \/ v = 0))
  <2>1. /\ AtScript(0) /\ (\A o \in T!Kids : Joined(o) => ops[o] = <<>>)
        /\ (gone => Todo(0) <= 2) /\ output[1] = <<>> /\ output[2] = <<>>
        /\ (Todo(0) >= 2 => output[0] = <<>>)
        /\ (~(Todo(0) >= 2) => \E v \in -T!Half..T!Half : output[0] = <<v>> /\ (Free \/ v = 0))
    BY DEF CounterInv
  <2>2. AtScript(0)'
    BY <1>3, <2>1 DEF AtScript, Script, Todo
  <2>3. ASSUME NEW o \in T!Kids, Joined(o)' PROVE ops'[o] = <<>>
    <3>1. Joined(o)
      BY <1>3, <2>3 DEF Joined
    <3>2. ops[o] = <<>> /\ o # k /\ o \in T!Tasks
      BY <2>1, <3>1, CounterKids
    <3>3. QED BY <1>3, <3>2
  <2>4. QED BY <1>3, <1>4, <2>1, <2>2, <2>3
<1>6. /\ DOMAIN reg = T!Tasks /\ DOMAIN mem = T!Tasks /\ T!Kids \subseteq T!Tasks
      /\ 0 \in T!Tasks /\ prog \notin T!Forks
  BY CounterKids DEF TaskShape, CountingPrograms, T!Forks
\* The others stay where they are.
<1>7. ASSUME NEW o \in T!Kids, o # k, lock' = {o} <=> lock = {o},
             ~Free /\ lock = {o} => reg'[o] = reg[o] /\ mem'[0] = mem[0]
      PROVE  ThreadAt(o, togo[o])'
  <2>1. ThreadAt(o, togo[o]) /\ ops'[o] = ops[o] /\ NotYet(o)' = NotYet(o)
    BY <1>1, <1>3, <1>6, <1>7 DEF NotYet
  <2>2. QED BY <1>3, <1>7, <2>1, ThreadStays
<1>8. CASE Loading
  <2>1. lock' = lock /\ mem' = mem /\ reg' = [reg EXCEPT ![k] = mem[0]]
    BY <1>6, <1>8 DEF T!Loads, T!Space, T!main, T!sync
  <2>2. reg'[k] = mem[0] /\ \A o \in T!Kids \ {k} : reg'[o] = reg[o]
    BY <1>6, <2>1
  <2>3. \A o \in T!Kids \ {k} : ThreadAt(o, togo[o])'
    BY <1>7, <2>1, <2>2
  <2>4. \A o \in T!Kids : ThreadAt(o, togo[o])'
    BY <1>8, <2>3
  <2>5. Free => Within(mem'[0], togo) /\ \A o \in T!Kids : Within(reg'[o], togo)
    BY <1>1, <2>1, <2>2
  <2>6. ~Free => mem'[0] = Ups(togo) - Downs(togo)
    BY <1>1, <2>1
  <2>7. QED BY <1>3, <1>5, <2>4, <2>5, <2>6, CounterNext
<1>9. CASE Storing
  <2>1. lock' = lock /\ reg' = reg /\ mem' = [mem EXCEPT ![0] = reg[k] + T!Now(k)[2]]
    BY <1>6, <1>9 DEF T!Stores, T!Space, T!main, T!sync
  <2>2. mem'[0] = reg[k] + Sign(k)
    BY <1>6, <1>9, <2>1, CallHeads
  <2>3. \A o \in T!Kids \ {k} : ThreadAt(o, togo[o])'
    <3>1. \A o \in T!Kids \ {k} : ~Free => lock # {o}
      BY <1>9
    <3>2. QED BY <1>7, <2>1, <3>1
  <2>4. now \in [T!Kids -> 0..Loops] /\ now[k] = n - 1 /\ \A o \in T!Kids \ {k} : now[o] = togo[o]
    <3>1. now \in [T!Kids -> 0..Loops]
      BY <1>9, MadeOne
    <3>2. QED BY <3>1
  <2>5. \A o \in T!Kids : ThreadAt(o, now[o])'
    <3>1. ThreadAt(k, now[k])'
      BY <1>9, <2>4
    <3>2. QED BY <2>3, <2>4, <3>1
  <2>6. Free => Within(mem'[0], now) /\ \A o \in T!Kids : Within(reg'[o], now)
    <3>1. SUFFICES ASSUME Free PROVE Within(mem'[0], now) /\ \A o \in T!Kids : Within(reg'[o], now)
      OBVIOUS
    <3>2. \A o \in T!Kids : Within(reg[o], togo)
      BY <1>1, <3>1
    <3>3. \A v : Within(v, togo) => Within(v, now) /\ Within(v + Sign(k), now)
      BY <1>9, WithinMore
    <3>4. Within(reg[k] + Sign(k), now) /\ \A o \in T!Kids : Within(reg[o], now)
      BY <3>2, <3>3
    <3>5. QED BY <2>1, <2>2, <3>4
  <2>7. ~Free => mem'[0] = Ups(now) - Downs(now)
    <3>1. SUFFICES ASSUME ~Free PROVE mem'[0] = Ups(now) - Downs(now)
      OBVIOUS
    <3>2. mem'[0] = Ups(togo) - Downs(togo) + Sign(k)
      BY <1>1, <1>9, <2>2, <3>1
    <3>3. /\ Sign(k) = 1 => Ups(now) = Ups(togo) + 1 /\ Downs(now) = Downs(togo)
          /\ Sign(k) = -1 => Ups(now) = Ups(togo) /\ Downs(now) = Downs(togo) + 1
      BY <1>9, MadeOne
    <3>4. Ups(togo) \in Nat /\ Downs(togo) \in Nat /\ Sign(k) \in {1, -1}
      BY MadeFinite DEF Sign
    <3> HIDE DEF now
    <3>5. QED BY <3>2, <3>3, <3>4
  <2> HIDE DEF now
  <2>8. QED BY <1>3, <1>5, <2>4, <2>5, <2>6, <2>7, CounterNext
<1>10. CASE Locking \/ Freeing \/ Leaving
  <2>1. reg' = reg /\ mem' = mem
    <3>1. T!Locks(k) \/ T!Unlocks(k) \/ T!Returns(k)
      BY <1>10
    <3>2. QED BY <3>1 DEF T!Locks, T!Unlocks, T!Returns
  <2>2. \A o \in T!Kids \ {k} : lock' = {o} <=> lock = {o}
    <3>1. CASE Locking
      <4>1. lock = {} /\ lock' = {k}
        BY <3>1 DEF T!Locks
      <4>2. QED BY <4>1
    <3>2. CASE Freeing
      <4>1. lock = {k} /\ lock' = {}
        BY <3>2 DEF T!Unlocks
      <4>2. QED BY <4>1
    <3>3. CASE Leaving
      <4>1. lock' = lock
        BY <3>3 DEF T!Returns, T!sync
      <4>2. QED BY <4>1
    <3>4. QED BY <1>10, <3>1, <3>2, <3>3
  <2>3. \A o \in T!Kids \ {k} : ThreadAt(o, togo[o])'
    BY <1>7, <2>1, <2>2
  <2>4. \A o \in T!Kids : ThreadAt(o, togo[o])'
    BY <1>10, <2>3
  <2>5. /\ Free => Within(mem'[0], togo) /\ \A o \in T!Kids : Within(reg'[o], togo)
        /\ ~Free => mem'[0] = Ups(togo) - Downs(togo)
    BY <1>1, <2>1
  <2>6. QED BY <1>3, <1>5, <2>4, <2>5, CounterNext
<1>11. QED BY <1>3, <1>8, <1>9, <1>10

\* A thread that is not running has begun with all its additions or made all.
LEMMA ThreadOver ==
    ASSUME NEW k \in Int, NEW n \in 0..Loops, ThreadAt(k, n), ops[k] = <<>>, ~NotYet(k)
    PROVE  n = 0
<1>1. n \in Nat /\ Ending \in Seq(CounterCalls) /\ Frees \in Seq(CounterCalls)
      /\ Ending # <<>> /\ Frees # <<>>
  <2>1. Ending # <<>> /\ Frees # <<>>
    BY DEF Ending, Frees
  <2>2. QED BY <2>1, CounterParts, CounterKids
<1>2. \A p, s \in Seq(CounterCalls) : p # <<>> => p \o s # <<>>
  OBVIOUS
<1>3. \A p, s \in Seq(CounterCalls) : s # <<>> => p \o s # <<>>
  OBVIOUS
<1>4. /\ <<T!Op("lock")>> \in Seq(CounterCalls) /\ <<T!Op("lock")>> # <<>>
      /\ <<T!Op("unlock")>> \in Seq(CounterCalls) /\ <<T!Op("unlock")>> # <<>>
      /\ <<Put(k)>> \in Seq(CounterCalls) /\ <<Put(k)>> # <<>>
      /\ <<Put(k), T!Op("unlock")>> \in Seq(CounterCalls) /\ <<Put(k), T!Op("unlock")>> # <<>>
      /\ <<Load, Put(k), T!Op("unlock")>> \in Seq(CounterCalls) /\ <<Load, Put(k), T!Op("unlock")>> # <<>>
      /\ <<Load, Put(k)>> \in Seq(CounterCalls) /\ <<Load, Put(k)>> # <<>>
  <2>1. T!Op("lock") \in CounterCalls /\ T!Op("unlock") \in CounterCalls /\ Load \in CounterCalls /\ Put(k) \in CounterCalls
    BY CounterTypes DEF CounterCalls
  <2>2. QED BY <2>1
<1>5. \A m \in Nat : \A rest \in {Ending, Frees} : AddsLeft(m, k, rest) \in Seq(CounterCalls)
  BY <1>1, AddsOnce, ZenonT(60)
<1>6. \A m \in Nat : EachLeft(m, k) \in Seq(CounterCalls)
  BY EachOnce
<1>7. n # 0 => n - 1 \in Nat
  BY <1>1
<1>8. ASSUME n # 0 PROVE FALSE
  <2> DEFINE m == n - 1
  <2>0. m \in Nat /\ m + 1 = n
    BY <1>1, <1>7, <1>8
  <2> HIDE DEF m
  <2>1. \A rest \in {Ending, Frees} : AddsLeft(n, k, rest) # <<>>
    <3>1. \A rest \in {Ending, Frees} : AddsLeft(m + 1, k, rest) = <<Load, Put(k)>> \o AddsLeft(m, k, rest)
      <4> SUFFICES ASSUME NEW rest \in {Ending, Frees}
                   PROVE  AddsLeft(m + 1, k, rest) = <<Load, Put(k)>> \o AddsLeft(m, k, rest)
        OBVIOUS
      <4>1. rest \in Seq(CounterCalls)
        BY <1>1
      <4>2. QED BY <2>0, <4>1, AddsOnce
    <3>2. \A rest \in {Ending, Frees} : <<Load, Put(k)>> \o AddsLeft(m, k, rest) # <<>>
      BY <1>2, <1>4, <1>5, <2>0
    <3>3. QED BY <2>0, <3>1, <3>2
  <2>2. EachLeft(n, k) # <<>>
    <3>1. EachLeft(m + 1, k) = <<T!Op("lock")>> \o (<<Load, Put(k), T!Op("unlock")>> \o EachLeft(m, k))
      BY <2>0, EachOnce
    <3>2. <<Load, Put(k), T!Op("unlock")>> \o EachLeft(m, k) \in Seq(CounterCalls)
      BY <1>4, <1>6, <2>0, JoinParts
    <3>3. QED BY <1>2, <1>4, <2>0, <3>1, <3>2
  <2>3. /\ \A rest \in {Ending, Frees} : <<Put(k)>> \o AddsLeft(n - 1, k, rest) # <<>>
        /\ \A rest \in {Ending, Frees} : <<T!Op("lock")>> \o AddsLeft(n, k, rest) # <<>>
        /\ <<Put(k), T!Op("unlock")>> \o EachLeft(n - 1, k) # <<>>
        /\ <<Load, Put(k), T!Op("unlock")>> \o EachLeft(n - 1, k) # <<>>
        /\ <<T!Op("unlock")>> \o EachLeft(n, k) # <<>>
    BY <1>1, <1>2, <1>4, <1>5, <1>6, <1>7, <1>8
  <2>4. QED BY <1>8, <2>1, <2>2, <2>3 DEF ThreadAt, FreeAt, OnceAt, EachAt
<1>9. QED BY <1>8

\* A call of main keeps the count; it prints it when all additions are made.
LEMMA CounterMainStep ==
    ASSUME TaskShape, prog \in CountingPrograms, CounterInv, ops[0] # <<>>, Acts(0)
    PROVE  CounterInv'
<1> DEFINE n == Todo(0)
           N == NUM_THREAD
<1>1. T!Kids = 1..N /\ N \in Nat /\ N >= 2 /\ T!Tasks = 0..N /\ 0 \in T!Tasks /\ 0 \notin T!Kids /\ Loops \in Nat
  BY CounterKids
<1>2. PICK togo \in [T!Kids -> 0..Loops] :
         /\ \A o \in T!Kids : ThreadAt(o, togo[o])
         /\ IF Free THEN Within(mem[0], togo) /\ \A o \in T!Kids : Within(reg[o], togo)
                    ELSE mem[0] = Ups(togo) - Downs(togo)
  BY DEF CounterInv
<1>3. /\ AtScript(0) /\ (\A o \in T!Kids : Joined(o) => ops[o] = <<>>)
      /\ (gone => n <= 2) /\ output[1] = <<>> /\ output[2] = <<>>
      /\ (n >= 2 => output[0] = <<>>)
      /\ (~(n >= 2) => \E v \in -T!Half..T!Half : output[0] = <<v>> /\ (Free \/ v = 0))
  BY DEF CounterInv
<1>4. /\ \A t \in T!Tasks : Script(t) \in Seq(Allowed(prog))
      /\ \A k \in T!Kids : Script(k) = Begins(k)
      /\ Len(Script(0)) = 2 * N + 3
      /\ \A m \in N + 4..2 * N + 3 : CallLeft(0, m) = <<"create", 2 * N + 4 - m>>
      /\ \A m \in 4..N + 3 : CallLeft(0, m) = <<"join", N + 4 - m>>
      /\ CallLeft(0, 3) = <<"destroy">> /\ CallLeft(0, 2) = <<"print">> /\ CallLeft(0, 1) = <<"return">>
  BY CounterScripts
<1>5. n \in 1..2 * N + 3 /\ T!Now(0) = CallLeft(0, n)
  <2>1. n \in Nat /\ (n = 0 <=> ops[0] = <<>>) /\ (AtScript(0) /\ n > 0 => T!Now(0) = CallLeft(0, n))
    BY <1>1, NowIs
  <2>2. n <= Len(Script(0))
    BY <1>3 DEF AtScript
  <2>3. QED BY <1>1, <1>3, <1>4, <2>1, <2>2, SMTT(30)
<1>6. /\ DOMAIN mem = T!Tasks /\ DOMAIN output = T!Tasks /\ prog \notin T!Forks
      /\ ops \in [T!Tasks -> Seq(Allowed(prog))]
  BY DEF TaskShape, CountingPrograms, T!Forks
<1> HIDE DEF n
\* After the last create, the threads stay where they are.
<1>7. ASSUME n <= N + 3, prog' = prog, Todo(0)' = n - 1, \A o \in T!Kids : ops'[o] = ops[o],
             lock' = lock, reg' = reg, mem' = mem
      PROVE  /\ \A o \in T!Kids : ThreadAt(o, togo[o])'
             /\ Free => Within(mem'[0], togo) /\ \A o \in T!Kids : Within(reg'[o], togo)
             /\ ~Free => mem'[0] = Ups(togo) - Downs(togo)
  <2>1. ASSUME NEW o \in T!Kids PROVE ThreadAt(o, togo[o])'
    <3>1. NotYet(o)' = NotYet(o)
      BY <1>1, <1>5, <1>7 DEF NotYet, n
    <3>2. ThreadAt(o, togo[o]) /\ ops'[o] = ops[o]
      BY <1>2, <1>7
    <3>3. QED BY <1>7, <3>1, <3>2, ThreadStays
  <2>2. QED BY <1>2, <1>7, <2>1
<1>8. ASSUME prog' = prog, ops' = [ops EXCEPT ![0] = Tail(@)]
      PROVE  AtScript(0)' /\ Todo(0)' = n - 1 /\ \A o \in T!Kids : ops'[o] = ops[o]
  <2>1. Len(Script(0)) \in Nat
    BY <1>1, <1>4
  <2>2. AtScript(0)' /\ Todo(0)' = n - 1
    BY <1>1, <1>3, <1>8, <2>1, OneCall DEF n
  <2>3. QED BY <1>1, <1>6, <1>8, <2>2
<1>9. CASE n >= N + 4
  <2>0. PICK k \in T!Kids : k = 2 * N + 4 - n
    <3>1. 2 * N + 4 - n \in 1..N
      BY <1>1, <1>5, <1>9
    <3>2. QED BY <1>1, <3>1
  <2>1. T!Now(0) = <<"create", k>> /\ n - 1 >= 2 /\ n - 1 \in Nat
    <3>1. n \in N + 4..2 * N + 3
      BY <1>1, <1>5, <1>9
    <3>2. T!Now(0) = <<"create", 2 * N + 4 - n>>
      BY <1>4, <1>5, <3>1
    <3>3. QED BY <1>1, <1>5, <1>9, <2>0, <3>2
  <2>2. T!Creates(0) /\ T!Now(0)[2] = k
    BY <2>1, ByName
  <2>3. ops'[k] = Begins(k) /\ Todo(0)' = n - 1 /\ (\A o \in T!Kids \ {k} : ops'[o] = ops[o]) /\ AtScript(0)'
    <3>1. /\ ops'[k] = Script(k)
          /\ 0 # k => Todo(0)' = Todo(0) - 1
          /\ \A u \in T!Tasks \ {0, k} : ops'[u] = ops[u]
          /\ 0 # k => \A u \in T!Tasks : AtScript(u) => AtScript(u)'
      <4>1. 0 \in T!Tasks /\ T!Creates(0) /\ ops[0] # <<>> /\ k = T!Now(0)[2] /\ \A u \in T!Tasks : Script(u) \in Seq(Allowed(prog))
        BY <1>1, <1>4, <2>2
      <4>2. QED BY <4>1, CreateCall
    <3>2. 0 # k /\ T!Kids \ {k} \subseteq T!Tasks \ {0, k} /\ k \in T!Kids
      BY <1>1
    <3>3. QED BY <1>1, <1>3, <1>4, <3>1, <3>2 DEF n
  <2>4. prog' = prog /\ lock' = lock /\ reg' = reg /\ gone' = gone /\ output' = output
        /\ mem' = [mem EXCEPT ![k] = mem[0]]
    BY <2>2 DEF T!Creates, T!main, T!sync
  <2>5. mem'[0] = mem[0]
    BY <1>1, <1>6, <2>1, <2>4
  <2>6. NotYet(k) /\ ~NotYet(k)' /\ (\A o \in T!Kids \ {k} : NotYet(o)' = NotYet(o)) /\ (\A o \in T!Kids : ~Joined(o)')
    <3>1. NotYet(k) /\ ~NotYet(k)'
      BY <1>1, <1>5, <2>0, <2>1, <2>3 DEF NotYet, n
    <3>2. ASSUME NEW o \in T!Kids \ {k} PROVE NotYet(o)' = NotYet(o)
      <4>1. o \in Int /\ k \in Int /\ n \in Int /\ N \in Int /\ o # k /\ k = 2 * N + 4 - n
        BY <1>1, <1>5, <2>0
      <4>2. (o > 2 * N + 3 - n) = (o > 2 * N + 3 - (n - 1))
        BY <4>1
      <4>3. Todo(0) = n /\ Todo(0)' = n - 1
        BY <2>3 DEF n
      <4>4. QED BY <4>2, <4>3 DEF NotYet
    <3>3. ASSUME NEW o \in T!Kids PROVE ~Joined(o)'
      BY <1>1, <1>5, <1>9, <2>3 DEF Joined
    <3>4. QED BY <3>1, <3>2, <3>3
  <2>7. togo[k] = Loops /\ lock # {k}
    BY <1>2, <2>1, <2>6 DEF ThreadAt
  <2>8. ThreadAt(k, togo[k])'
    <3>1. /\ Free => ops'[k] = AddsLeft(Loops, k, Ending)
          /\ ~Free /\ Each(k) => ops'[k] = EachLeft(Loops, k)
          /\ ~Free /\ ~Each(k) => ops'[k] = <<T!Op("lock")>> \o AddsLeft(Loops, k, Frees)
      BY <2>3 DEF Begins
    <3>2. lock' # {k}
      BY <2>4, <2>7
    <3>3. QED BY <2>4, <2>6, <2>7, <3>1, <3>2, ThreadAtNext
  <2>9. ASSUME NEW o \in T!Kids \ {k} PROVE ThreadAt(o, togo[o])'
    <3>1. ThreadAt(o, togo[o]) /\ ops'[o] = ops[o] /\ NotYet(o)' = NotYet(o)
      BY <1>2, <2>3, <2>6
    <3>2. QED BY <2>4, <2>5, <3>1, ThreadStays, SMTT(30)
  <2>10. \A o \in T!Kids : ThreadAt(o, togo[o])'
    BY <2>8, <2>9
  <2>11. /\ Free => Within(mem'[0], togo) /\ \A o \in T!Kids : Within(reg'[o], togo)
         /\ ~Free => mem'[0] = Ups(togo) - Downs(togo)
    BY <1>2, <2>4, <2>5
  <2>12. ~gone' /\ output'[0] = <<>> /\ output'[1] = <<>> /\ output'[2] = <<>>
    BY <1>1, <1>3, <1>5, <1>9, <2>4
  <2>13. Todo(0)' >= 2
    BY <2>1, <2>3
  <2>14. QED BY <2>3, <2>4, <2>6, <2>10, <2>11, <2>12, <2>13, CounterNext
<1>10. CASE n \in 4..N + 3
  <2>0. PICK k \in T!Kids : k = N + 4 - n
    <3>1. N + 4 - n \in 1..N
      BY <1>1, <1>10
    <3>2. QED BY <1>1, <3>1
  <2>1. T!Now(0) = <<"join", k>> /\ n - 1 >= 2 /\ n - 1 \in Nat
    <3>1. T!Now(0) = <<"join", N + 4 - n>>
      BY <1>4, <1>5, <1>10
    <3>2. QED BY <1>1, <1>10, <2>0, <3>1
  <2>2. T!Joins(0) /\ T!Now(0)[2] = k
    BY <2>1, ByName
  <2>3. /\ ops' = [ops EXCEPT ![0] = Tail(@)] /\ ops[k] = <<>> /\ prog' = prog /\ lock' = lock /\ reg' = reg
        /\ mem' = mem /\ gone' = gone /\ output' = output
    BY <2>2 DEF T!Joins, T!Does, T!sync
  <2>4. AtScript(0)' /\ Todo(0)' = n - 1 /\ \A o \in T!Kids : ops'[o] = ops[o]
    BY <1>8, <2>3
  <2>5. \A o \in T!Kids : Joined(o)' => ops'[o] = <<>>
    <3>1. ASSUME NEW o \in T!Kids, Joined(o)' PROVE ops'[o] = <<>>
      <4>1. Joined(o) \/ o = k
        <5>1. o + N <= 2 * N + 3 - (n - 1)
          BY <2>4, <3>1 DEF Joined
        <5>2. o + N <= 2 * N + 3 - n \/ o = k
          BY <1>1, <1>10, <2>0, <5>1
        <5>3. QED BY <5>2 DEF Joined, n
      <4>2. ops[o] = <<>>
        BY <1>3, <2>3, <4>1
      <4>3. QED BY <2>4, <4>2
    <3>2. QED BY <3>1
  <2>6. /\ \A o \in T!Kids : ThreadAt(o, togo[o])'
        /\ Free => Within(mem'[0], togo) /\ \A o \in T!Kids : Within(reg'[o], togo)
        /\ ~Free => mem'[0] = Ups(togo) - Downs(togo)
    BY <1>1, <1>7, <1>10, <2>3, <2>4
  <2>7. ~gone' /\ output'[0] = <<>> /\ output'[1] = <<>> /\ output'[2] = <<>> /\ Todo(0)' >= 2
    BY <1>1, <1>3, <1>10, <2>1, <2>3, <2>4
  <2>8. QED BY <2>3, <2>4, <2>5, <2>6, <2>7, CounterNext
<1>11. ASSUME n \in 1..3, prog' = prog, Todo(0)' = n - 1, \A o \in T!Kids : ops'[o] = ops[o]
       PROVE  \A o \in T!Kids : Joined(o)' => ops'[o] = <<>>
  <2>1. ASSUME NEW o \in T!Kids PROVE Joined(o)
    BY <1>1, <1>11 DEF Joined, n
  <2>2. QED BY <1>3, <1>11, <2>1
<1>12. CASE n = 3
  <2>1. T!Destroys(0)
    BY <1>4, <1>5, <1>12, ByName
  <2>2. /\ ops' = [ops EXCEPT ![0] = Tail(@)] /\ prog' = prog /\ lock' = lock /\ reg' = reg
        /\ mem' = mem /\ output' = output
    BY <2>1 DEF T!Destroys, T!Does
  <2>3. AtScript(0)' /\ Todo(0)' = 2 /\ \A o \in T!Kids : ops'[o] = ops[o]
    BY <1>8, <1>12, <2>2
  <2>4. \A o \in T!Kids : Joined(o)' => ops'[o] = <<>>
    BY <1>11, <1>12, <2>2, <2>3
  <2>5. /\ \A o \in T!Kids : ThreadAt(o, togo[o])'
        /\ Free => Within(mem'[0], togo) /\ \A o \in T!Kids : Within(reg'[o], togo)
        /\ ~Free => mem'[0] = Ups(togo) - Downs(togo)
    BY <1>1, <1>7, <1>12, <2>2, <2>3
  <2>6. output'[0] = <<>> /\ output'[1] = <<>> /\ output'[2] = <<>>
    BY <1>3, <1>12, <2>2
  <2>7. QED BY <2>2, <2>3, <2>4, <2>5, <2>6, CounterNext
<1>13. CASE n = 2
  <2>1. T!Prints(0)
    BY <1>4, <1>5, <1>13, ByName
  <2>2. /\ ops' = [ops EXCEPT ![0] = Tail(@)] /\ prog' = prog /\ lock' = lock /\ reg' = reg
        /\ mem' = mem /\ output' = [output EXCEPT ![0] = Append(@, mem[0])]
    BY <1>6, <2>1 DEF T!Prints, T!Does, T!Shows, T!Space, T!main, T!sync
  <2>3. AtScript(0)' /\ Todo(0)' = 1 /\ \A o \in T!Kids : ops'[o] = ops[o]
    BY <1>8, <1>13, <2>2
  <2>4. \A o \in T!Kids : Joined(o)' => ops'[o] = <<>>
    BY <1>11, <1>13, <2>2, <2>3
  <2>5. /\ \A o \in T!Kids : ThreadAt(o, togo[o])'
        /\ Free => Within(mem'[0], togo) /\ \A o \in T!Kids : Within(reg'[o], togo)
        /\ ~Free => mem'[0] = Ups(togo) - Downs(togo)
    BY <1>1, <1>7, <1>13, <2>2, <2>3
  <2>6. \A o \in T!Kids : togo[o] = 0
    <3>1. SUFFICES ASSUME NEW o \in T!Kids PROVE togo[o] = 0
      OBVIOUS
    <3>2. Joined(o) /\ ~NotYet(o) /\ o \in Int
      BY <1>1, <1>13 DEF Joined, NotYet, n
    <3>3. ops[o] = <<>> /\ ThreadAt(o, togo[o]) /\ togo[o] \in 0..Loops
      BY <1>2, <1>3, <3>2
    <3>4. QED BY <3>2, <3>3, ThreadOver
  <2>7. Ups(togo) = T!Half /\ Downs(togo) = T!Half /\ T!Half \in Nat
    BY <2>6, MadeAll
  <2>8. mem[0] \in -T!Half..T!Half /\ (Free \/ mem[0] = 0)
    BY <1>2, <2>7 DEF Within
  <2>9. output'[0] = <<mem[0]>> /\ output'[1] = <<>> /\ output'[2] = <<>>
    <3>1. output'[0] = Append(output[0], mem[0]) /\ output'[1] = output[1] /\ output'[2] = output[2]
      BY <1>1, <1>6, <2>2
    <3>2. output[0] = <<>>
      BY <1>3, <1>13
    <3>3. QED BY <1>3, <3>1, <3>2, Short
  <2>10. ~(Todo(0)' >= 2) /\ Todo(0)' <= 2
    BY <2>3
  <2>11. \E v \in -T!Half..T!Half : output'[0] = <<v>> /\ (Free \/ v = 0)
    BY <2>8, <2>9
  <2>12. QED BY <2>2, <2>3, <2>4, <2>5, <2>9, <2>10, <2>11, CounterNext
<1>14. CASE n = 1
  <2>1. T!Returns(0)
    BY <1>4, <1>5, <1>14, ByName
  <2>2. prog' = prog /\ lock' = lock /\ reg' = reg /\ mem' = mem /\ output' = output
    BY <2>1 DEF T!Returns, T!sync
  <2>3. /\ Todo(0)' = 0 /\ AtScript(0)'
        /\ \A o \in T!Kids : ops'[o] = <<>>
    <3>1. 0 \in T!Tasks /\ T!Kids \subseteq T!Tasks \ {0}
      BY <1>1
    <3>2. Todo(0)' = 0 /\ AtScript(0)' /\ \A o \in T!Tasks \ {0} : ops'[o] = <<>>
      BY <1>3, <1>4, <1>6, <2>1, <3>1, ReturnCall
    <3>3. QED BY <3>1, <3>2
  <2>4. \A o \in T!Kids : ops'[o] = ops[o]
    <3>1. \A o \in T!Kids : Joined(o)
      BY <1>1, <1>14 DEF Joined, n
    <3>2. QED BY <1>3, <2>3, <3>1
  <2>5. /\ \A o \in T!Kids : ThreadAt(o, togo[o])'
        /\ Free => Within(mem'[0], togo) /\ \A o \in T!Kids : Within(reg'[o], togo)
        /\ ~Free => mem'[0] = Ups(togo) - Downs(togo)
    BY <1>1, <1>7, <1>14, <2>2, <2>3, <2>4
  <2>6. output'[1] = <<>> /\ output'[2] = <<>> /\ ~(Todo(0)' >= 2) /\ Todo(0)' <= 2
        /\ \E v \in -T!Half..T!Half : output'[0] = <<v>> /\ (Free \/ v = 0)
    BY <1>3, <1>14, <2>2, <2>3
  <2>7. QED BY <2>2, <2>3, <2>5, <2>6, CounterNext
<1>15. QED BY <1>1, <1>5, <1>9, <1>10, <1>12, <1>13, <1>14

LEMMA CounterStep ==
    ASSUME TaskShape, prog \in CountingPrograms, CounterInv, T!Next
    PROVE  CounterInv'
<1>1. PICK t \in T!Tasks : ops[t] # <<>> /\ Acts(t)
  BY FollowedCases DEF CountingPrograms
<1>2. t = 0 \/ t \in T!Kids
  BY DEF T!Tasks, T!main
<1>3. QED BY <1>1, <1>2, CounterThread, CounterMainStep

-----------------------------------------------------------------------------
(* Tasks: every program.                                                   *)

LEMMA ProgStays == ASSUME T!Next PROVE prog' = prog
<1>1. ASSUME NEW t, Acts(t) PROVE prog' = prog
  BY <1>1, Zenon DEF Acts, T!Process, T!Thread, T!Creates, T!Returns, T!Waits, T!Handles, T!Alarms, T!Sleeps, T!Sends, T!Recvs,
     T!Joins, T!Loads, T!Stores, T!Prints, T!Sets, T!Looks, T!Locks, T!Unlocks, T!Takes, T!Posts, T!SetsEvent,
     T!WaitsEvent, T!Destroys
<1>2. T!read_childproc \/ T!timeout \/ T!keycontrol \/ T!end_program => prog' = prog
  BY Zenon DEF T!read_childproc, T!timeout, T!keycontrol, T!end_program
<1>3. QED BY <1>1, <1>2, NextCases

\* Only main and the child that it is about show something.
LEMMA OthersShow ==
    ASSUME NEW t, Acts(t), NEW u \in DOMAIN output, u # t, u # 0
    PROVE  output'[u] = output[u]
<1>1. CASE output' = output
  BY <1>1
<1>2. CASE T!Waits(t)
  BY <1>2 DEF T!Waits, T!Collects, T!Shows, T!main
<1>3. CASE T!Recvs(t) \/ T!Prints(t) \/ T!Looks(t)
  BY <1>3 DEF T!Recvs, T!Prints, T!Looks, T!Shows
<1>4. output' = output \/ T!Waits(t) \/ T!Recvs(t) \/ T!Prints(t) \/ T!Looks(t)
  BY Zenon DEF Acts, T!Process, T!Thread, T!Creates, T!Returns, T!Handles, T!Alarms, T!Sleeps, T!Sends,
     T!Joins, T!Loads, T!Stores, T!Sets, T!Locks, T!Unlocks, T!Takes, T!Posts, T!SetsEvent,
     T!WaitsEvent, T!Destroys
<1>5. QED BY <1>1, <1>2, <1>3, <1>4

LEMMA PairsStep ==
    ASSUME TaskShape, ScriptInv, prog \in Pairs, output[2] = <<>>, T!Next
    PROVE  output'[2] = <<>>
<1>1. PICK t \in T!Tasks : ops[t] # <<>> /\ Acts(t)
  BY FollowedCases DEF Pairs, Followed
<1>2. Script(2) = <<>>
  <2>1. 2 \in T!Tasks \ {0, 1}
    BY SomeTasks
  <2>2. QED BY <2>1, ForkScripts, Pipe1Scripts, Pipe2Scripts, Pipe3Scripts, GiveScripts DEF Pairs
<1>3. ops[2] = <<>>
  <2>1. Todo(2) \in Nat /\ (Todo(2) = 0 <=> ops[2] = <<>>)
    BY SomeTasks, NowIs
  <2>2. Todo(2) <= Len(Script(2)) /\ Len(<<>>) = 0
    BY SomeTasks DEF ScriptInv, AtScript
  <2>3. QED BY <1>2, <2>1, <2>2
<1>4. 2 \in DOMAIN output /\ t # 2
  BY <1>1, <1>3, SomeTasks DEF TaskShape
<1>5. QED BY <1>1, <1>4, OthersShow

LEMMA TaskStep ==
    ASSUME TaskInv, T!Next
    PROVE  TaskInv'
<1>1. TaskShape /\ FollowedInv /\ (prog \in CountingPrograms => CounterInv) /\ prog' = prog
  BY ProgStays DEF TaskInv
<1>2. TaskShape'
  BY <1>1, ScriptTypes, ShapeStep DEF TaskShape
<1>3. CASE prog \in CountingPrograms
  <2>1. CounterInv'
    BY <1>1, <1>3, CounterStep
  <2>2. prog' \notin Followed /\ prog' \notin Pairs /\ prog' \in CountingPrograms
    BY <1>1, <1>3 DEF CountingPrograms, Followed, Readers, Pairs
  <2>3. FollowedInv'
    BY <2>2 DEF FollowedInv, Followed, Readers
  <2>4. QED BY <1>2, <2>1, <2>3 DEF TaskInv
<1>4. CASE prog \notin CountingPrograms \cup Followed
  <2>1. prog' \notin Followed /\ prog' \notin Pairs /\ prog' \notin CountingPrograms
    BY <1>1, <1>4 DEF CountingPrograms, Followed, Readers, Pairs
  <2>2. FollowedInv'
    BY <2>1 DEF FollowedInv, Followed, Readers
  <2>3. QED BY <1>2, <2>1, <2>2 DEF TaskInv
<1>5. CASE prog \in Followed
  <2>1. ScriptInv /\ prog' \in Followed /\ prog' \notin CountingPrograms
    BY <1>1, <1>5 DEF FollowedInv, CountingPrograms, Followed, Readers
  <2>2. prog' \in Pairs => output'[2] = <<>>
    BY <1>1, <2>1, PairsStep DEF FollowedInv
  <2>3. /\ ScriptInv'
        /\ (prog = "fork" => ForkInv') /\ (prog = "wait" => WaitInv') /\ (prog = "waitpid" => WaitpidInv')
        /\ (prog = "remove_zombie" => ZombieInv')
        /\ (prog = "pipe1" => Pipe1Inv') /\ (prog = "pipe2" => Pipe2Inv') /\ (prog = "pipe3" => Pipe3Inv')
        /\ (prog = "give_and_take" => GiveInv') /\ (prog = "thread2" => Thread2Inv')
        /\ (prog = "thread3" => Thread3Inv') /\ (prog = "SyncEvent" => EventInv')
        /\ (prog = "SyncEvent_Sema" => SemaInv')
    <3>1. ASSUME prog = "fork" PROVE ScriptInv' /\ ForkInv'
      BY <1>1, <2>1, <3>1, ForkStep DEF FollowedInv
    <3>2. ASSUME prog = "wait" PROVE ScriptInv' /\ WaitInv'
      BY <1>1, <2>1, <3>2, WaitStep DEF FollowedInv
    <3>3. ASSUME prog = "waitpid" PROVE ScriptInv' /\ WaitpidInv'
      BY <1>1, <2>1, <3>3, WaitpidStep DEF FollowedInv
    <3>4. ASSUME prog = "remove_zombie" PROVE ScriptInv' /\ ZombieInv'
      BY <1>1, <2>1, <3>4, ZombieStep DEF FollowedInv
    <3>5. ASSUME prog = "pipe1" PROVE ScriptInv' /\ Pipe1Inv'
      BY <1>1, <2>1, <3>5, Pipe1Step DEF FollowedInv
    <3>6. ASSUME prog = "pipe2" PROVE ScriptInv' /\ Pipe2Inv'
      BY <1>1, <2>1, <3>6, Pipe2Step DEF FollowedInv
    <3>7. ASSUME prog = "pipe3" PROVE ScriptInv' /\ Pipe3Inv'
      BY <1>1, <2>1, <3>7, Pipe3Step DEF FollowedInv
    <3>8. ASSUME prog = "give_and_take" PROVE ScriptInv' /\ GiveInv'
      BY <1>1, <2>1, <3>8, GiveStep DEF FollowedInv
    <3>9. ASSUME prog = "thread2" PROVE ScriptInv' /\ Thread2Inv'
      BY <1>1, <2>1, <3>9, Thread2Step DEF FollowedInv
    <3>10. ASSUME prog = "thread3" PROVE ScriptInv' /\ Thread3Inv'
      BY <1>1, <2>1, <3>10, Thread3Step DEF FollowedInv
    <3>11. ASSUME prog = "SyncEvent" PROVE ScriptInv' /\ EventInv'
      BY <1>1, <2>1, <3>11, EventStep DEF FollowedInv
    <3>12. ASSUME prog = "SyncEvent_Sema" PROVE ScriptInv' /\ SemaInv'
      BY <1>1, <2>1, <3>12, SemaStep DEF FollowedInv
    <3>13. prog \in {"fork", "wait", "waitpid", "remove_zombie", "pipe1", "pipe2", "pipe3", "give_and_take",
                     "thread2", "thread3", "SyncEvent", "SyncEvent_Sema"}
      BY <1>5 DEF Followed, Readers
    <3>14. QED BY <3>1, <3>2, <3>3, <3>4, <3>5, <3>6, <3>7, <3>8, <3>9, <3>10, <3>11, <3>12, <3>13, ZenonT(60)
  <2>4. FollowedInv'
    BY <1>1, <2>2, <2>3, ZenonT(60) DEF FollowedInv
  <2>5. QED BY <1>2, <2>1, <2>4 DEF TaskInv
<1>6. QED BY <1>3, <1>4, <1>5

\* A step of another machine.
LEMMA TaskRests ==
    ASSUME TaskInv, UNCHANGED tasks
    PROVE  TaskInv'
<1>1. UNCHANGED <<prog, ops, mem, str, reg, lock, sem, event, gone, pipe, ended, signals, armed, output>>
  BY DEF tasks
<1>2. \A t : Todo(t)' = Todo(t) /\ Script(t)' = Script(t) /\ AtScript(t)' = AtScript(t)
  BY <1>1 DEF Todo, Script, AtScript
<1>3. TaskShape'
  BY <1>1 DEF TaskInv, TaskShape
<1>4. FollowedInv'
  <2>1. ScriptInv' = ScriptInv
    BY <1>2 DEF ScriptInv
  <2>2. ForkInv' = ForkInv
    BY <1>1, <1>2 DEF ForkInv
  <2>3. (WaitInv => WaitInv') /\ (WaitpidInv => WaitpidInv') /\ (ZombieInv => ZombieInv')
    <3>1. \A K : {k \in K : Todo(k)' = 0} = {k \in K : Todo(k) = 0} /\ {k \in K : Todo(k)' > 0} = {k \in K : Todo(k) > 0}
      BY <1>2
    <3>2. WaitInv => WaitInv'
      BY <1>1, <1>2, <3>1 DEF WaitInv
    <3>3. WaitpidInv => WaitpidInv'
      BY <1>1, <1>2, <3>1 DEF WaitpidInv
    <3>4. ZombieInv => ZombieInv'
      BY <1>1, <1>2 DEF ZombieInv
    <3>5. QED BY <3>2, <3>3, <3>4
  <2>4. Pipe1Inv' = Pipe1Inv /\ Pipe2Inv' = Pipe2Inv
    BY <1>1, <1>2 DEF Pipe1Inv, Pipe2Inv
  <2>5. Pipe3Inv' = Pipe3Inv /\ GiveInv' = GiveInv
    BY <1>1, <1>2 DEF Pipe3Inv, GiveInv
  <2>6. Thread2Inv' = Thread2Inv
    BY <1>1, <1>2 DEF Thread2Inv
  <2>7. Thread3Inv' = Thread3Inv
    BY <1>1, <1>2 DEF Thread3Inv, Counts3
  <2>8. EventInv' = EventInv /\ SemaInv' = SemaInv
    <3>1. ReadersInv(3)' = ReadersInv(3) /\ ReadersInv(4)' = ReadersInv(4)
      BY <1>1, <1>2 DEF ReadersInv
    <3>2. QED BY <1>1, <1>2, <3>1 DEF EventInv, SemaInv
  <2>9. FollowedInv /\ prog' = prog /\ output' = output
    BY <1>1 DEF TaskInv
  <2>10. QED BY <2>1, <2>2, <2>3, <2>4, <2>5, <2>6, <2>7, <2>8, <2>9 DEF FollowedInv
<1>5. ASSUME CounterInv PROVE CounterInv'
  <2>1. Free' = Free /\ \A k : Joined(k)' = Joined(k) /\ NotYet(k)' = NotYet(k)
    BY <1>1, <1>2 DEF Free, Joined, NotYet
  <2>2. PICK togo \in [T!Kids -> 0..Loops] :
         /\ \A o \in T!Kids : ThreadAt(o, togo[o])
         /\ IF Free THEN Within(mem[0], togo) /\ \A o \in T!Kids : Within(reg[o], togo)
                    ELSE mem[0] = Ups(togo) - Downs(togo)
    BY <1>5 DEF CounterInv
  <2>3. ASSUME NEW o \in T!Kids PROVE ThreadAt(o, togo[o])'
    BY <1>1, <2>1, <2>2, ThreadStays
  <2>4. /\ AtScript(0)' /\ (\A o \in T!Kids : Joined(o)' => ops'[o] = <<>>)
        /\ (gone' => Todo(0)' <= 2) /\ output'[1] = <<>> /\ output'[2] = <<>>
        /\ (Todo(0)' >= 2 => output'[0] = <<>>)
        /\ (~(Todo(0)' >= 2) => \E v \in -T!Half..T!Half : output'[0] = <<v>> /\ (Free \/ v = 0))
    BY <1>1, <1>2, <1>5, <2>1 DEF CounterInv
  <2>5. /\ Free => Within(mem'[0], togo) /\ \A o \in T!Kids : Within(reg'[o], togo)
        /\ ~Free => mem'[0] = Ups(togo) - Downs(togo)
    BY <1>1, <2>2
  <2>6. QED BY <1>1, <2>3, <2>4, <2>5, CounterNext
<1>6. QED BY <1>1, <1>3, <1>4, <1>5 DEF TaskInv

\* main has its whole script to do, and nothing has happened.
LEMMA TaskBegins ==
    ASSUME T!Init
    PROVE  TaskInv
<1>1. /\ prog \in DOMAIN T!Programs
      /\ ops = [t \in T!Tasks |-> IF t = 0 THEN T!Programs[prog].main ELSE <<>>]
      /\ mem = [t \in T!Tasks |-> 0] /\ reg = mem /\ str = ""
      /\ lock = {} /\ sem = 0 /\ event = FALSE /\ gone = FALSE
      /\ pipe = <<<<>>, <<>>>> /\ ended = {} /\ armed = FALSE
      /\ signals = [handled |-> FALSE, pending |-> FALSE, merged |-> FALSE]
      /\ output = [t \in T!Tasks |-> <<>>]
  BY DEF T!Init, T!main
<1>2. 0 \in T!Tasks /\ 1 \in T!Tasks /\ 2 \in T!Tasks /\ T!Kids \subseteq T!Tasks /\ 0 \notin T!Kids
  BY SomeTasks DEF T!Tasks, T!Kids, T!main
<1>3. \A t \in T!Tasks : Script(t) \in Seq(Allowed(prog)) /\ Len(Script(t)) \in Nat
  <2>1. \A t \in T!Tasks : Script(t) \in Seq(Allowed(prog))
    BY <1>1, ScriptTypes
  <2>2. QED BY <2>1
<1>4. ops[0] = Script(0) /\ (\A t \in T!Tasks \ {0} : ops[t] = <<>>)
  BY <1>1, <1>2 DEF Script
<1>5. Todo(0) = Len(Script(0)) /\ \A t \in T!Tasks \ {0} : Todo(t) = 0
  <2>1. Len(<<>>) = 0
    OBVIOUS
  <2>2. QED BY <1>4, <2>1 DEF Todo
<1>6. TaskShape
  <2>1. ops \in [T!Tasks -> Seq(Allowed(prog))]
    <3>1. <<>> \in Seq(Allowed(prog))
      OBVIOUS
    <3>2. \A t \in T!Tasks : ops[t] \in Seq(Allowed(prog))
      BY <1>2, <1>3, <1>4, <3>1
    <3>3. QED BY <1>1, <3>2
  <2>2. DOMAIN mem = T!Tasks /\ DOMAIN reg = T!Tasks /\ DOMAIN output = T!Tasks /\ DOMAIN pipe = 1..2
        /\ DOMAIN signals = {"handled", "pending", "merged"} /\ ~signals.handled /\ ~signals.pending /\ ~armed /\ ~gone
    <3>1. DOMAIN mem = T!Tasks /\ DOMAIN reg = T!Tasks /\ DOMAIN output = T!Tasks
      BY <1>1
    <3>2. DOMAIN pipe = 1..2
      <4>1. DOMAIN << <<>>, <<>> >> = 1..2
        OBVIOUS
      <4>2. QED BY <1>1, <4>1
    <3>3. DOMAIN signals = {"handled", "pending", "merged"} /\ ~signals.handled /\ ~signals.pending /\ ~armed /\ ~gone
      BY <1>1
    <3>4. QED BY <3>1, <3>2, <3>3
  <2>3. QED BY <1>1, <2>1, <2>2 DEF TaskShape
<1>7. \A t \in T!Tasks : AtScript(t)
  <2>1. AtScript(0)
    BY <1>2, <1>3, <1>4, <1>5 DEF AtScript
  <2>2. ASSUME NEW t \in T!Tasks \ {0} PROVE AtScript(t)
    BY <1>3, <1>5, <2>2 DEF AtScript
  <2>3. QED BY <2>1, <2>2
<1>8. /\ mem[0] = 0 /\ reg[0] = 0 /\ reg[1] = 0 /\ reg[2] = 0 /\ output[0] = <<>> /\ output[1] = <<>> /\ output[2] = <<>>
      /\ pipe[1] = <<>> /\ pipe[2] = <<>> /\ Todo(1) = 0 /\ Todo(2) = 0
      /\ \A k \in T!Kids : Todo(k) = 0 /\ reg[k] = 0 /\ ops[k] = <<>>
      /\ ended = {} /\ sem = 0 /\ ~event /\ ~gone
  <2>1. pipe[1] = <<>> /\ pipe[2] = <<>>
    BY <1>1
  <2>2. mem[0] = 0 /\ reg[0] = 0 /\ reg[1] = 0 /\ reg[2] = 0 /\ output[0] = <<>> /\ output[1] = <<>> /\ output[2] = <<>>
        /\ \A k \in T!Kids : reg[k] = 0
    BY <1>1, <1>2
  <2>3. Todo(1) = 0 /\ Todo(2) = 0 /\ \A k \in T!Kids : Todo(k) = 0 /\ ops[k] = <<>>
    BY <1>2, <1>4, <1>5
  <2>4. ended = {} /\ sem = 0 /\ ~event /\ ~gone
    BY <1>1
  <2>5. QED BY <2>1, <2>2, <2>3, <2>4
<1>9. FollowedInv
  <2>1. prog = "fork" => ForkInv
    <3>1. prog = "fork" => Todo(0) = 7
      BY <1>5, ForkScripts
    <3>2. QED BY <1>8, <3>1 DEF ForkInv
  <2>2. prog = "wait" => WaitInv
    <3>1. prog = "wait" => Todo(0) = 6
      BY <1>5, WaitScripts
    <3>2. QED BY <1>8, <3>1 DEF WaitInv
  <2>3. prog = "waitpid" => WaitpidInv
    <3>1. prog = "waitpid" => Todo(0) = 3
      BY <1>5, WaitpidScripts
    <3>2. QED BY <1>8, <3>1 DEF WaitpidInv
  <2>4. prog = "remove_zombie" => ZombieInv
    <3>1. prog = "remove_zombie" => Todo(0) = 9
      BY <1>5, ZombieScripts
    <3>2. QED BY <1>1, <1>8, <3>1 DEF ZombieInv
  <2>5. prog = "pipe1" => Pipe1Inv
    <3>1. prog = "pipe1" => Todo(0) = 3
      BY <1>5, Pipe1Scripts
    <3>2. QED BY <1>8, <3>1 DEF Pipe1Inv
  <2>6. prog = "pipe2" => Pipe2Inv
    <3>1. prog = "pipe2" => Todo(0) = 5
      BY <1>5, Pipe2Scripts
    <3>2. QED BY <1>8, <3>1 DEF Pipe2Inv
  <2>7. prog = "pipe3" => Pipe3Inv
    <3>1. prog = "pipe3" => Todo(0) = 4
      BY <1>5, Pipe3Scripts
    <3>2. QED BY <1>8, <3>1 DEF Pipe3Inv
  <2>8. prog = "give_and_take" => GiveInv
    <3>1. prog = "give_and_take" => Todo(0) = 5
      BY <1>5, GiveScripts
    <3>2. QED BY <1>8, <3>1 DEF GiveInv
  <2>9. prog = "thread2" => Thread2Inv
    <3>1. prog = "thread2" => Todo(0) = 4
      BY <1>5, Thread2Scripts
    <3>2. QED BY <1>8, <3>1 DEF Thread2Inv
  <2>10. prog = "thread3" => Thread3Inv
    <3>1. prog = "thread3" => Todo(0) = 6
      BY <1>5, Thread3Scripts
    <3>2. QED BY <1>8, <3>1 DEF Thread3Inv, Counts3
  <2>11. prog = "SyncEvent" => EventInv
    <3>1. prog = "SyncEvent" => Todo(0) = 8
      BY <1>5, EventScripts
    <3>2. QED BY <1>8, <3>1 DEF EventInv, ReadersInv
  <2>12. prog = "SyncEvent_Sema" => SemaInv
    <3>1. prog = "SyncEvent_Sema" => Todo(0) = 8
      BY <1>5, SemaScripts
    <3>2. QED BY <1>8, <3>1 DEF SemaInv, ReadersInv
  <2>13. ScriptInv
    BY <1>7 DEF ScriptInv
  <2>14. QED BY <1>8, <2>1, <2>2, <2>3, <2>4, <2>5, <2>6, <2>7, <2>8, <2>9, <2>10, <2>11, <2>12, <2>13 DEF FollowedInv
<1>10. ASSUME prog \in CountingPrograms PROVE CounterInv
  <2> DEFINE togo == [k \in T!Kids |-> Loops]
             N == NUM_THREAD
  <2>1. Todo(0) = 2 * N + 3 /\ N \in Nat /\ N >= 2 /\ Loops \in Nat /\ T!Kids = 1..N
    BY <1>5, <1>10, CounterScripts, CounterKids
  <2>2. togo \in [T!Kids -> 0..Loops] /\ \A k \in T!Kids : togo[k] = Loops
    BY <2>1
  <2>3. \A k \in T!Kids : NotYet(k) /\ ~Joined(k)
    BY <2>1 DEF NotYet, Joined
  <2>4. \A k \in T!Kids : ThreadAt(k, togo[k])
    <3>1. \A k \in T!Kids : lock # {k}
      BY <1>1
    <3>2. QED BY <1>8, <2>2, <2>3, <3>1 DEF ThreadAt
  <2> HIDE DEF togo
  <2>5. Ups(togo) = 0 /\ Downs(togo) = 0
    BY <2>2, MadeNone
  <2>6. IF Free THEN Within(mem[0], togo) /\ \A k \in T!Kids : Within(reg[k], togo)
                ELSE mem[0] = Ups(togo) - Downs(togo)
    BY <1>8, <2>5 DEF Within
  <2>7. AtScript(0) /\ (\A k \in T!Kids : Joined(k) => ops[k] = <<>>) /\ ~gone /\ Todo(0) >= 2
    BY <1>2, <1>7, <1>8, <2>1, <2>3
  <2>8. QED BY <1>8, <2>2, <2>4, <2>6, <2>7 DEF CounterInv
<1>11. QED BY <1>6, <1>9, <1>10 DEF TaskInv

\* What has been printed when all have ended is what the program is written to print.
Wanted(p, m, k1) ==
    \/ p = "fork" /\ m = <<-1>> /\ k1 = <<3>>
    \/ p = "pipe1" /\ m = <<"str1">> /\ k1 = <<>>
    \/ p \in {"pipe2", "pipe3"} /\ m = <<"str1">> /\ k1 = <<"str2">>
    \/ p = "give_and_take" /\ m = <<"str1", "str3">> /\ k1 = <<"str2">>
    \/ p = "thread2" /\ m = <<"message">> /\ k1 = <<>>
    \/ p = "thread3" /\ (\E n \in 3..10 : m = <<n>>) /\ k1 = <<>>
    \/ p \in {"thread4", "thread3_win"} /\ (\E n \in -T!Half..T!Half : m = <<n>>) /\ k1 = <<>>
    \/ p \in {"mutex", "SyncMutex", "SyncCS"} /\ m = <<0>> /\ k1 = <<>>
LEMMA AllPrinted ==
    ASSUME NEW p, NEW m, NEW k1, Wanted(p, m, k1)
    PROVE  \E r \in T!Printed(p) : m = r.main /\ k1 = r.kids[1] /\ <<>> = r.kids[2]
<1> DEFINE r == [main |-> m, kids |-> <<k1, <<>>>>]
<1>1. m = r.main /\ k1 = r.kids[1] /\ <<>> = r.kids[2] /\ T!Reads(m, k1) = {r}
  BY DEF T!Reads
<1> HIDE DEF r
<1>2. r \in T!Reads(m, k1)
  BY <1>1
<1>3. CASE p = "thread3"
  <2>1. r \in UNION {T!Reads(<<n>>, <<>>) : n \in 3..10}
    BY <1>2, <1>3 DEF Wanted
  <2>2. T!Printed(p) = UNION {T!Reads(<<n>>, <<>>) : n \in 3..10}
    BY <1>3 DEF T!Printed
  <2>3. QED BY <1>1, <2>1, <2>2
<1>4. CASE p \in {"thread4", "thread3_win"}
  <2>1. r \in UNION {T!Reads(<<n>>, <<>>) : n \in -T!Half..T!Half}
    BY <1>2, <1>4 DEF Wanted
  <2>2. T!Printed(p) = UNION {T!Reads(<<n>>, <<>>) : n \in -T!Half..T!Half}
    BY <1>4 DEF T!Printed
  <2>3. QED BY <1>1, <2>1, <2>2
<1>5. CASE p \in {"fork", "pipe1", "pipe2", "pipe3", "give_and_take", "thread2", "mutex", "SyncMutex", "SyncCS"}
  <2>1. T!Printed(p) = T!Reads(m, k1)
    BY <1>5 DEF T!Printed, Wanted
  <2>2. QED BY <1>1, <1>2, <2>1
<1>6. QED BY <1>3, <1>4, <1>5 DEF Wanted

LEMMA MainPrinted ==
    ASSUME NEW p, NEW m, (p = "wait" /\ m \in {<<1, 2>>, <<2, 1>>}) \/ (p = "waitpid" /\ m = << 1 >>)
    PROVE  \E r \in T!Printed(p) : m = r.main /\ <<>> = r.kids[1] /\ <<>> = r.kids[2]
<1> DEFINE r == [main |-> m, kids |-> <<<<>>, <<>>>>]
<1>1. m = r.main /\ <<>> = r.kids[1] /\ <<>> = r.kids[2] /\ T!Collected(m) = r
  BY DEF T!Collected
<1> HIDE DEF r
<1>2. p = "wait" => T!Printed(p) = {T!Collected(<<1, 2>>), T!Collected(<<2, 1>>)}
  BY DEF T!Printed
<1>3. p = "waitpid" => T!Printed(p) = {T!Collected(<<1>>)}
  BY DEF T!Printed
<1>4. QED BY <1>1, <1>2, <1>3

LEMMA ReadersPrinted ==
    ASSUME NEW p \in Readers
    PROVE  \E r \in T!Printed(p) : <<>> = r.main /\ <<"typed">> = r.kids[1] /\ <<"typed">> = r.kids[2]
<1> DEFINE r == [main |-> <<>>, kids |-> <<<<"typed">>, <<"typed">>>>]
<1>1. <<>> = r.main /\ <<"typed">> = r.kids[1] /\ <<"typed">> = r.kids[2]
  OBVIOUS
<1>2. T!Printed(p) = {r}
  BY DEF T!Printed, Readers
<1>3. QED BY <1>1, <1>2

LEMMA TaskOutcome ==
    ASSUME TaskInv
    PROVE  Outcome
<1>1. TaskShape /\ FollowedInv /\ (prog \in CountingPrograms => CounterInv)
  BY DEF TaskInv
<1>2. 0 \in T!Tasks /\ 1 \in T!Tasks /\ 2 \in T!Tasks /\ T!Kids \subseteq T!Tasks /\ 0 \notin T!Kids
  BY SomeTasks DEF T!Tasks, T!Kids, T!main
<1>3. \A t \in T!Tasks : Todo(t) \in Nat /\ (Todo(t) = 0 <=> ops[t] = <<>>)
  BY <1>1, NowIs
<1>4. ASSUME prog \notin T!Silent, \A t \in T!Tasks : ops[t] = <<>>
      PROVE  \E r \in T!Printed(prog) : output[0] = r.main /\ output[1] = r.kids[1] /\ output[2] = r.kids[2]
  <2>1. Todo(0) = 0 /\ Todo(1) = 0 /\ Todo(2) = 0
    BY <1>2, <1>3, <1>4
  <2>2. CASE prog \in {"wait", "waitpid"}
    <3>1. output[1] = <<>> /\ output[2] = <<>>
      BY <1>1, <2>2 DEF FollowedInv, WaitInv, WaitpidInv
    <3>2. prog = "wait" => output[0] \in {<<1, 2>>, <<2, 1>>}
      BY <1>1, <2>1 DEF FollowedInv, WaitInv
    <3>3. prog = "waitpid" => output[0] = <<1>>
      BY <1>1, <2>1 DEF FollowedInv, WaitpidInv
    <3>4. (prog = "wait" /\ output[0] \in {<<1, 2>>, <<2, 1>>}) \/ (prog = "waitpid" /\ output[0] = <<1>>)
      BY <2>2, <3>2, <3>3
    <3>5. \E r \in T!Printed(prog) : output[0] = r.main /\ <<>> = r.kids[1] /\ <<>> = r.kids[2]
      BY <3>4, MainPrinted
    <3>6. QED BY <3>1, <3>5
  <2>3. CASE prog \in Readers
    <3>1. output[0] = <<>> /\ output[1] = <<"typed">> /\ output[2] = <<"typed">>
      BY <1>1, <2>1, <2>3 DEF FollowedInv, EventInv, SemaInv, ReadersInv, Readers
    <3>2. QED BY <2>3, <3>1, ReadersPrinted
  <2>4. CASE prog \in Pairs \cup {"thread2", "thread3"}
    <3>1. output[2] = <<>>
      BY <1>1, <2>4 DEF FollowedInv, Thread2Inv, Thread3Inv
    <3>2. prog = "fork" => output[0] = <<-1>> /\ output[1] = <<3>>
      BY <1>1, <2>1 DEF FollowedInv, ForkInv
    <3>3. prog = "pipe1" => output[0] = <<"str1">> /\ output[1] = <<>>
      BY <1>1, <2>1 DEF FollowedInv, Pipe1Inv
    <3>4. prog = "pipe2" => output[0] = <<"str1">> /\ output[1] = <<"str2">>
      BY <1>1, <2>1 DEF FollowedInv, Pipe2Inv
    <3>5. prog = "pipe3" => output[0] = <<"str1">> /\ output[1] = <<"str2">>
      BY <1>1, <2>1 DEF FollowedInv, Pipe3Inv
    <3>6. prog = "give_and_take" => output[0] = <<"str1", "str3">> /\ output[1] = <<"str2">>
      BY <1>1, <2>1 DEF FollowedInv, GiveInv
    <3>7. prog = "thread2" => output[0] = <<"message">> /\ output[1] = <<>>
      BY <1>1, <2>1 DEF FollowedInv, Thread2Inv
    <3>8. prog = "thread3" => (\E n \in 3..10 : output[0] = <<n>>) /\ output[1] = <<>>
      BY <1>1, <2>1 DEF FollowedInv, Thread3Inv
    <3>9. Wanted(prog, output[0], output[1])
      BY <2>4, <3>2, <3>3, <3>4, <3>5, <3>6, <3>7, <3>8 DEF Pairs, Wanted
    <3>10. \E r \in T!Printed(prog) : output[0] = r.main /\ output[1] = r.kids[1] /\ <<>> = r.kids[2]
      BY <3>9, AllPrinted
    <3>11. QED BY <3>1, <3>10
  <2>5. CASE prog \in CountingPrograms
    <3>1. /\ output[1] = <<>> /\ output[2] = <<>>
          /\ \E v \in -T!Half..T!Half : output[0] = <<v>> /\ (Free \/ v = 0)
      BY <1>1, <2>1, <2>5 DEF CounterInv
    <3>2. Wanted(prog, output[0], output[1])
      BY <2>5, <3>1 DEF CountingPrograms, Free, Wanted
    <3>3. \E r \in T!Printed(prog) : output[0] = r.main /\ output[1] = r.kids[1] /\ <<>> = r.kids[2]
      BY <3>2, AllPrinted
    <3>4. QED BY <3>1, <3>3
  <2>6. prog \in DOMAIN T!Programs
    BY <1>1 DEF TaskShape
  <2>7. QED BY <1>4, <2>2, <2>3, <2>4, <2>5, <2>6 DEF T!Silent, T!Programs, Pairs, Readers, CountingPrograms
<1>5. ASSUME prog = "remove_zombie", ~signals.pending, ~signals.merged PROVE ended = {}
  BY <1>1, <1>5 DEF FollowedInv, ZombieInv
<1>6. ASSUME gone, NEW k \in T!Kids PROVE ops[k] = <<>>
  <2>1. prog \in CountingPrograms \cup Readers
    BY <1>1, <1>6 DEF TaskShape
  <2>2. CASE prog \in CountingPrograms
    <3>1. Todo(0) <= 2 /\ Todo(0) \in Nat /\ \A o \in T!Kids : Joined(o) => ops[o] = <<>>
      BY <1>1, <1>2, <1>3, <1>6, <2>2 DEF CounterInv
    <3>2. Joined(k)
      BY <3>1, CounterKids DEF Joined
    <3>3. QED BY <3>1, <3>2
  <2>3. CASE prog \in Readers
    <3>1. Todo(0) < 2 /\ Todo(1) = 0 /\ Todo(2) = 0 /\ ScriptInv
      <4>1. ReadersInv(3) \/ ReadersInv(4)
        BY <1>1, <2>3 DEF FollowedInv, EventInv, SemaInv, Readers
      <4>2. Todo(0) < 2
        BY <1>6, <4>1 DEF ReadersInv
      <4>3. Todo(1) = 0 /\ Todo(2) = 0
        BY <1>2, <1>3, <4>1, <4>2 DEF ReadersInv
      <4>4. QED BY <1>1, <2>3, <4>2, <4>3 DEF FollowedInv, Followed
    <3>2. CASE k \notin {1, 2}
      <4>1. Script(k) = <<>>
        BY <1>2, <2>3, <3>2, EventScripts, SemaScripts DEF Readers
      <4>2. Todo(k) <= Len(Script(k)) /\ Len(<<>>) = 0
        BY <1>2, <3>1 DEF ScriptInv, AtScript
      <4>3. QED BY <1>2, <1>3, <4>1, <4>2
    <3>3. QED BY <1>2, <1>3, <3>1, <3>2
  <2>4. QED BY <2>1, <2>2, <2>3
<1>7. QED BY <1>4, <1>5, <1>6, Zenon DEF Outcome, T!Outcome, T!Done, T!main

\* For every number of threads and additions: each program prints what it is
\* written to print, parent and child each in its own memory, messages from the
\* pipe in order, the locked counters even, the free ones within the additions
\* made; no child is left uncollected unless signals were merged, and nothing is
\* destroyed while a thread is left that may use it.
THEOREM ProgramsEndRight == OneSpec => []Outcome
<1>1. OneInit => TaskInv
  BY TaskBegins DEF OneInit
<1>2. TaskInv /\ [OneNext]_<<streams, tasks, datagrams>> => TaskInv'
  <2> SUFFICES ASSUME TaskInv, [OneNext]_<<streams, tasks, datagrams>>
               PROVE  TaskInv'
    OBVIOUS
  <2>1. CASE Streaming(S!Next) \/ Messaging(D!Next) \/ UNCHANGED <<streams, tasks, datagrams>>
    <3>1. UNCHANGED tasks
      BY <2>1 DEF Streaming, Messaging
    <3>2. QED BY <3>1, TaskRests
  <2>2. CASE Tasking(T!Next)
    BY <2>2, TaskStep DEF Tasking
  <2>3. QED BY <2>1, <2>2 DEF OneNext
<1>3. TaskInv => Outcome
  BY TaskOutcome
<1>4. QED BY <1>1, <1>2, <1>3, PTL DEF OneSpec

-----------------------------------------------------------------------------
(* SemaHandOff implements HandOff, for every number of turns, every set of *)
(* numbers and every width of int.                                         *)

\* The threads end after Turns turns, not before.
LoopInv ==
    /\ rpc = "done" <=> i = Turns
    /\ apc = "done" <=> j = Turns
    /\ rpc = "store" => early

\* A number waits to be added exactly while the permit is on its way from
\* the reader to the accumulator.
Waiting == semOne = 1 \/ rpc = "post" \/ apc = "add"

CountInv == Stored = Added + Bit(Waiting)

IInv == TypeOK /\ LoopInv /\ OnePermit /\ CountInv

\* What the provers need of the definitions everywhere.
LEMMA Bits == \A b \in BOOLEAN : Bit(b) \in {0, 1} /\ (Bit(b) = 1 <=> b)
BY DEF Bit

\* The invariant holds at the start: the permit is in semTwo.
LEMMA InitInv == Init => IInv
BY TurnsAssumption, NumbersAssumption
   DEF Init, IInv, TypeOK, LoopInv, OnePermit, CountInv, Waiting, Stored, Added,
       ReaderTurn, AccuTurn, Bit, StartTwo

\* Every step keeps it: a step moves the permit or leaves it where it is.
LEMMA StepInv == IInv /\ [Next]_vars => IInv'
<1> USE TurnsAssumption, NumbersAssumption
<1> SUFFICES ASSUME IInv, [Next]_vars
             PROVE  IInv'
    OBVIOUS
<1> USE DEF IInv, TypeOK, LoopInv, OnePermit, CountInv, Waiting, Stored, Added,
            ReaderTurn, AccuTurn, Bit, readerVars, accuVars
<1>1. CASE ReadWait
    BY <1>1 DEF ReadWait
<1>2. CASE ScanInTurn
    BY <1>2 DEF ScanInTurn, Scanned
<1>3. CASE ScanEarly
    BY <1>3 DEF ScanEarly, Scanned
<1>4. CASE Store
    BY <1>4 DEF Store
<1>5. CASE ReadPost
    BY <1>5 DEF ReadPost, Again
<1>6. CASE AccuWait
    BY <1>6 DEF AccuWait
<1>7. CASE Add
    BY <1>7 DEF Add
<1>8. CASE AccuPost
    BY <1>8 DEF AccuPost, Again
<1>9. CASE Join
    BY <1>9 DEF Join, JoinReader, JoinAccu
<1>10. CASE UNCHANGED vars
    BY <1>10 DEF vars
<1> QED
    BY <1>1, <1>2, <1>3, <1>4, <1>5, <1>6, <1>7, <1>8, <1>9, <1>10
    DEF Next, Reader, Accu

\* The inductive invariant is an invariant of the specification.
THEOREM Invariance == Spec => []IInv
BY InitInv, StepInv, PTL DEF Spec

\* Type correctness; in particular no thread goes round its loop too often.
THEOREM TypeCorrect == Spec => []TypeOK
<1>1. IInv => TypeOK
    BY DEF IInv
<1> QED
    BY <1>1, Invariance, PTL

\* One permit exists at any time: the threads never touch num together.
THEOREM MutualExclusion == Spec => []OnePermit
<1>1. IInv => OnePermit
    BY DEF IInv
<1> QED
    BY <1>1, Invariance, PTL

-----------------------------------------------------------------------------
\* At the start nothing has been handed over.
LEMMA InitMaps == Init => Abstract!Init
BY DEF Init, Abstract!Init, Place, Stored, Added, Bit

\* Storing a number is Give, adding it is Take, any other step is a stutter.
LEMMA StepMaps ==
    IInv /\ [Next]_vars => [Abstract!Next]_<<Place, Stored, sum>>
<1> USE TurnsAssumption, NumbersAssumption
<1> SUFFICES ASSUME IInv, [Next]_vars
             PROVE  [Abstract!Next]_<<Place, Stored, sum>>
    OBVIOUS
<1> USE DEF IInv, TypeOK, LoopInv, OnePermit, CountInv, Waiting, Stored, Added,
            ReaderTurn, AccuTurn, Bit, Place, readerVars, accuVars
<1>1. CASE ScanInTurn
    BY <1>1 DEF ScanInTurn, Scanned, Abstract!Next, Abstract!Give
<1>2. CASE Store
    BY <1>2 DEF Store, Abstract!Next, Abstract!Give
<1>3. CASE Add
    BY <1>3 DEF Add, Abstract!Next, Abstract!Take
<1>4. CASE ReadWait \/ ScanEarly
    BY <1>4 DEF ReadWait, ScanEarly
<1>5. CASE ReadPost
    BY <1>5 DEF ReadPost, Again
<1>6. CASE AccuWait \/ AccuPost
    BY <1>6 DEF AccuWait, AccuPost, Again
<1>7. CASE Join
    BY <1>7 DEF Join, JoinReader, JoinAccu
<1>8. CASE UNCHANGED vars
    BY <1>8 DEF vars
<1> QED
    BY <1>1, <1>2, <1>3, <1>4, <1>5, <1>6, <1>7, <1>8 DEF Next, Reader, Accu

\* The program with two semaphores implements the hand-over.
THEOREM Refinement == Spec => HandsOver
BY InitMaps, StepMaps, Invariance, PTL DEF Spec, HandsOver, Abstract!Spec
=============================================================================
